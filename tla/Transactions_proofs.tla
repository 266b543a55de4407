------------------------- MODULE Transactions_proofs -------------------------
(***************************************************************************)
(* Proofs about the transaction endpoints, for any number of transactions  *)
(* and requests and any client texts.                                      *)
(***************************************************************************)
EXTENDS Transactions, TLAPS

USE DEF Decision, MongoStatus, KeyStatus, EventType, Reviewed

-----------------------------------------------------------------------------
(***************************************************************************)
(* What the shared parts of the handlers preserve.                         *)
(***************************************************************************)
\* Appending keeps a sequence a sequence over the same set.
LEMMA AppendIsSeq ==
  ASSUME NEW S, NEW s \in Seq(S), NEW e \in S
  PROVE  Append(s, e) \in Seq(S)
OBVIOUS

\* What appending one event does to a stream of events.
LEMMA AppendEvent ==
  ASSUME NEW e \in Event, stream \in Seq(Event), stream' = Append(stream, e)
  PROVE  /\ stream' \in Seq(Event)
         /\ \A i \in DOMAIN stream' : \/ i \in DOMAIN stream /\ stream'[i] = stream[i]
                                      \/ stream'[i] = e
OBVIOUS

\* The event a request is about to publish is one its key has reached.
LEMMA EventIsReached ==
  ASSUME IInv, NEW r \in Req, at[r] \in Publishing
  PROVE  /\ EventOf(r) \in Event
         /\ doc[EventOf(r).tx] # None
         /\ EventOf(r).type # "created" => key[EventOf(r).tx] \in Reviewed
         /\ EventOf(r).type \in Decision => key[EventOf(r).tx] = EventOf(r).type
<1> USE DEF IInv, RequestsFollowKey, Publishing
<1>1. CASE at[r] = "create.publish"
  BY <1>1 DEF EventOf, Event, Creating
<1>2. CASE at[r] = "review.publish"
  BY <1>2 DEF EventOf, Event, Reviewing
<1>3. CASE at[r] = "decide.publish"
  BY <1>3 DEF EventOf, Event, Deciding
<1> QED
  BY <1>1, <1>2, <1>3

\* Publishing it, or failing to, keeps the stream in step with the keys.
LEMMA PublishKeeps ==
  ASSUME IInv, NEW r \in Req, at[r] \in Publishing, TryPublish(r), UNCHANGED <<doc, key>>
  PROVE  stream' \in Seq(Event) /\ EventsFollowKey'
<1>1. CASE Publish(r)
  <2>1. stream' = Append(stream, EventOf(r))
    BY <1>1 DEF Publish
  <2>2. /\ stream' \in Seq(Event)
        /\ \A i \in DOMAIN stream' : \/ i \in DOMAIN stream /\ stream'[i] = stream[i]
                                     \/ stream'[i] = EventOf(r)
    BY <2>1, EventIsReached, AppendEvent DEF IInv, TypeOK
  <2> QED
    BY <2>2, EventIsReached DEF IInv, EventsFollowKey
<1>2. CASE UNCHANGED stream
  BY <1>2 DEF IInv, TypeOK, EventsFollowKey
<1> QED
  BY <1>1, <1>2 DEF TryPublish

\* An answer that agrees with the key keeps the promises made to clients.
LEMMA AnswerKeeps ==
  ASSUME IInv, NEW r \in Req, NEW op \in EventType, Answer(r, op), UNCHANGED key,
         op = "review" => key[job[r].tx] \in Reviewed,
         op \in Decision => key[job[r].tx] = op
  PROVE  acked' \in [Tx -> SUBSET EventType] /\ AckedDecisionHolds'
<1>1. acked \in [Tx -> SUBSET EventType]
  BY DEF IInv, TypeOK
<1>2. CASE UNCHANGED acked
  BY <1>1, <1>2 DEF IInv, AckedDecisionHolds
<1>3. CASE acked' = [acked EXCEPT ![job[r].tx] = @ \cup {op}]
  <2>1. \A t \in Tx : acked'[t] = IF t = job[r].tx THEN acked[t] \cup {op} ELSE acked[t]
    BY <1>1, <1>3
  <2>2. \A t \in Tx : acked'[t] \in SUBSET EventType
    BY <1>1, <2>1, ZenonT(40)
  <2>3. acked' \in [Tx -> SUBSET EventType]
    BY <1>1, <1>3, <2>2
  <2> QED
    BY <2>1, <2>3 DEF IInv, AckedDecisionHolds
<1> QED
  BY <1>2, <1>3 DEF Answer

\* Events published earlier stay true of a key that moves forward.
LEMMA KeyForwardKeepsEvents ==
  ASSUME IInv, UNCHANGED <<doc, stream>>,
         \A t \in Tx : key'[t] = key[t] \/ key[t] \in {"none", "pending"}
                       \/ (key[t] = "review" /\ key'[t] \in Decision)
  PROVE  EventsFollowKey'
<1>1. \A i \in DOMAIN stream : stream[i] \in Event
  BY DEF IInv, TypeOK
<1>2. \A i \in DOMAIN stream : stream[i].tx \in Tx
  BY <1>1 DEF Event
<1> QED
  BY <1>2 DEF IInv, EventsFollowKey

-----------------------------------------------------------------------------
(***************************************************************************)
(* Every step preserves the invariant.                                     *)
(***************************************************************************)
\* Nothing is stored, published or promised yet.
LEMMA InitIInv == Init => IInv
BY ConstantAssumption
DEF Init, IInv, TypeOK, RequestsFollowKey, KeyIsAccounted, MongoNeverAhead, Grounded,
    EventsFollowKey, AckedDecisionHolds, NoJob, Job, Stage, Event, Override

\* A fresh id has no key, event or answer the new document could contradict.
LEMMA CreateInsertKeeps ==
  ASSUME IInv, NEW r \in Req, NEW t \in Tx, NEW s \in ClientStatus, CreateInsert(r, t, s)
  PROVE  IInv'
<1> USE ConstantAssumption DEF IInv, TypeOK
<1>1. TypeOK'
  BY DEF CreateInsert, Store, Begin, Job, Stage, Creating, Reviewing, Deciding
<1>2. RequestsFollowKey'
  BY DEF CreateInsert, Store, Begin, RequestsFollowKey, KeyIsAccounted, Creating,
     Reviewing, Deciding, Job
<1>3. KeyIsAccounted'
  BY DEF CreateInsert, Store, Begin, KeyIsAccounted
<1>4. MongoNeverAhead'
  BY DEF CreateInsert, Store, Begin, MongoNeverAhead, Grounded
<1>5. EventsFollowKey'
  BY DEF CreateInsert, Store, Begin, EventsFollowKey, Event
<1>6. AckedDecisionHolds'
  BY DEF CreateInsert, Store, Begin, AckedDecisionHolds
<1> QED
  BY <1>1, <1>2, <1>3, <1>4, <1>5, <1>6

\* The override writes a text of its client, and remembers it.
LEMMA StatusWriteKeeps ==
  ASSUME IInv, NEW r \in Req, NEW t \in Tx, NEW s \in ClientStatus, StatusWrite(r, t, s)
  PROVE  IInv'
<1> USE ConstantAssumption DEF IInv, TypeOK
<1>1. TypeOK'
  BY DEF StatusWrite, Store, Begin, Job, Stage, Creating, Reviewing, Deciding
<1>2. RequestsFollowKey'
  BY DEF StatusWrite, Store, Begin, RequestsFollowKey, KeyIsAccounted, Creating,
     Reviewing, Deciding, Job
<1>3. KeyIsAccounted'
  BY DEF StatusWrite, Store, Begin, KeyIsAccounted
<1>4. MongoNeverAhead'
  BY DEF StatusWrite, Store, Begin, MongoNeverAhead, Grounded
<1>5. EventsFollowKey'
  BY DEF StatusWrite, Store, Begin, EventsFollowKey, Event
<1>6. AckedDecisionHolds'
  BY DEF StatusWrite, Store, Begin, AckedDecisionHolds
<1> QED
  BY <1>1, <1>2, <1>3, <1>4, <1>5, <1>6

\* The script moves the key forward, from a status no decision is in flight at.
LEMMA ReviewCasKeeps ==
  ASSUME IInv, NEW r \in Req, NEW t \in Tx, ReviewCas(r, t)
  PROVE  IInv'
<1> USE ConstantAssumption DEF IInv, TypeOK
<1>1. TypeOK'
  BY DEF ReviewCas, KeyCas, Begin, Job, Stage, Creating, Reviewing, Deciding
<1>2. RequestsFollowKey'
  BY DEF ReviewCas, KeyCas, Begin, RequestsFollowKey, KeyIsAccounted,
     Creating, Reviewing, Deciding, Job
<1>3. KeyIsAccounted'
  BY DEF ReviewCas, KeyCas, Begin, KeyIsAccounted, RequestsFollowKey,
     Reviewing, Deciding
<1>4. MongoNeverAhead'
  BY DEF ReviewCas, KeyCas, Begin, MongoNeverAhead, Grounded, RequestsFollowKey,
     Reviewing, Deciding
<1>5. EventsFollowKey'
  BY KeyForwardKeepsEvents DEF ReviewCas, KeyCas, Begin, EventsFollowKey,
     RequestsFollowKey, Reviewing, Deciding, Event
<1>6. AckedDecisionHolds'
  BY DEF ReviewCas, KeyCas, Begin, AckedDecisionHolds, RequestsFollowKey,
     Reviewing, Deciding
<1> QED
  BY <1>1, <1>2, <1>3, <1>4, <1>5, <1>6

\* The script finds the key at review, so no other decision is in flight.
LEMMA DecideCasKeeps ==
  ASSUME IInv, NEW r \in Req, NEW t \in Tx, NEW v \in Decision, DecideCas(r, t, v)
  PROVE  IInv'
<1> USE ConstantAssumption DEF IInv, TypeOK
<1>1. TypeOK'
  BY DEF DecideCas, KeyCas, Begin, Job, Stage, Creating, Reviewing, Deciding
<1>2. RequestsFollowKey'
  <2>1. posted[t] = << >> /\ doc[t] # None
    BY DEF DecideCas, KeyCas, KeyIsAccounted
  <2>2. \A q \in Req : at[q] \in Deciding => job[q].tx # t
    BY DEF DecideCas, KeyCas, RequestsFollowKey, Deciding
  <2> QED
    BY <2>1, <2>2 DEF DecideCas, KeyCas, Begin, RequestsFollowKey, Creating,
       Reviewing, Deciding, Job
<1>3. KeyIsAccounted'
  BY DEF DecideCas, KeyCas, Begin, KeyIsAccounted, RequestsFollowKey,
     Reviewing, Deciding
<1>4. MongoNeverAhead'
  BY DEF DecideCas, KeyCas, Begin, MongoNeverAhead, Grounded, RequestsFollowKey,
     Reviewing, Deciding
<1>5. EventsFollowKey'
  BY KeyForwardKeepsEvents DEF DecideCas, KeyCas, Begin, EventsFollowKey,
     RequestsFollowKey, Reviewing, Deciding, Event
<1>6. AckedDecisionHolds'
  BY DEF DecideCas, KeyCas, Begin, AckedDecisionHolds, RequestsFollowKey,
     Reviewing, Deciding
<1> QED
  BY <1>1, <1>2, <1>3, <1>4, <1>5, <1>6

\* SETNX leaves a key that is there, and the document is stored already.
LEMMA CreateKeyKeeps ==
  ASSUME IInv, NEW r \in Req, CreateKey(r)
  PROVE  IInv'
<1> USE ConstantAssumption DEF IInv, TypeOK
<1>1. TypeOK'
  BY ZenonT(40) DEF CreateKey, Goto, Job, Stage, Creating, Reviewing, Deciding
<1>2. RequestsFollowKey'
  BY DEF CreateKey, Goto, RequestsFollowKey, KeyIsAccounted, Creating,
     Reviewing, Deciding, Job
<1>3. KeyIsAccounted'
  BY DEF CreateKey, Goto, KeyIsAccounted, RequestsFollowKey, Reviewing,
     Deciding
<1>4. MongoNeverAhead'
  BY DEF CreateKey, Goto, MongoNeverAhead, Grounded, RequestsFollowKey, Reviewing,
     Deciding
<1>5. EventsFollowKey'
  BY KeyForwardKeepsEvents DEF CreateKey, Goto, EventsFollowKey,
     RequestsFollowKey, Reviewing, Deciding, Event
<1>6. AckedDecisionHolds'
  BY DEF CreateKey, Goto, AckedDecisionHolds, RequestsFollowKey, Reviewing,
     Deciding
<1> QED
  BY <1>1, <1>2, <1>3, <1>4, <1>5, <1>6

\* The created event asks nothing of the key.
LEMMA CreatePublishKeeps ==
  ASSUME IInv, NEW r \in Req, CreatePublish(r)
  PROVE  IInv'
<1> USE ConstantAssumption DEF IInv, TypeOK
<1>1. stream' \in Seq(Event) /\ EventsFollowKey'
  BY PublishKeeps DEF Publishing, CreatePublish, TryPublish
<1>2. acked' \in [Tx -> SUBSET EventType] /\ AckedDecisionHolds' /\ Finish(r)
  BY AnswerKeeps DEF CreatePublish, RequestsFollowKey, Creating, Reviewing,
     Deciding, Answer
<1>3. TypeOK'
  BY <1>1, <1>2 DEF CreatePublish, Finish, Job, Stage, Creating, Reviewing,
     Deciding, NoJob
<1>4. RequestsFollowKey'
  BY <1>2 DEF CreatePublish, Finish, RequestsFollowKey, KeyIsAccounted,
     Creating, Reviewing, Deciding, Job
<1>5. KeyIsAccounted' /\ MongoNeverAhead'
  BY DEF CreatePublish, Finish, KeyIsAccounted, MongoNeverAhead, Grounded
<1> QED
  BY <1>1, <1>2, <1>3, <1>4, <1>5

\* Reading changes no store.
LEMMA ReviewLoadKeeps ==
  ASSUME IInv, NEW r \in Req, ReviewLoad(r)
  PROVE  IInv'
<1> USE ConstantAssumption DEF IInv, TypeOK
<1>1. TypeOK'
  BY DEF ReviewLoad, Goto, stores, Job, Stage, Creating, Reviewing, Deciding
<1>2. RequestsFollowKey'
  BY DEF ReviewLoad, Goto, stores, RequestsFollowKey, KeyIsAccounted,
     Creating, Reviewing, Deciding, Job
<1>3. KeyIsAccounted' /\ MongoNeverAhead' /\ EventsFollowKey' /\ AckedDecisionHolds'
  BY DEF ReviewLoad, Goto, stores, KeyIsAccounted, MongoNeverAhead, Grounded,
     EventsFollowKey, AckedDecisionHolds
<1> QED
  BY <1>1, <1>2, <1>3

\* The key is at review or beyond when the review is announced and answered.
LEMMA ReviewPublishKeeps ==
  ASSUME IInv, NEW r \in Req, ReviewPublish(r)
  PROVE  IInv'
<1> USE ConstantAssumption DEF IInv, TypeOK
<1>1. stream' \in Seq(Event) /\ EventsFollowKey'
  BY PublishKeeps DEF Publishing, ReviewPublish
<1>2. acked' \in [Tx -> SUBSET EventType] /\ AckedDecisionHolds' /\ Finish(r)
  BY AnswerKeeps DEF ReviewPublish, RequestsFollowKey, Creating, Reviewing,
     Deciding, Answer
<1>3. TypeOK'
  BY <1>1, <1>2 DEF ReviewPublish, Finish, Job, Stage, Creating, Reviewing,
     Deciding, NoJob
<1>4. RequestsFollowKey'
  BY <1>2 DEF ReviewPublish, Finish, RequestsFollowKey, KeyIsAccounted,
     Creating, Reviewing, Deciding, Job
<1>5. KeyIsAccounted' /\ MongoNeverAhead'
  BY DEF ReviewPublish, Finish, KeyIsAccounted, MongoNeverAhead, Grounded
<1> QED
  BY <1>1, <1>2, <1>3, <1>4, <1>5

\* The verdict written is the key's.
LEMMA DecideWriteKeeps ==
  ASSUME IInv, NEW r \in Req, DecideWrite(r)
  PROVE  IInv'
<1> USE ConstantAssumption DEF IInv, TypeOK
<1>1. TypeOK'
  BY DEF DecideWrite, Goto, Job, Stage, Creating, Reviewing, Deciding,
     RequestsFollowKey
<1>2. RequestsFollowKey'
  BY DEF DecideWrite, Goto, RequestsFollowKey, KeyIsAccounted, Creating,
     Reviewing, Deciding, Job
<1>3. KeyIsAccounted'
  BY DEF DecideWrite, Goto, KeyIsAccounted, RequestsFollowKey, Reviewing,
     Deciding
<1>4. MongoNeverAhead'
  BY ZenonT(40) DEF DecideWrite, Goto, MongoNeverAhead, Grounded, RequestsFollowKey, Reviewing,
     Deciding
<1>5. EventsFollowKey'
  BY DEF DecideWrite, Goto, EventsFollowKey, RequestsFollowKey, Reviewing,
     Deciding, Event
<1>6. AckedDecisionHolds'
  BY DEF DecideWrite, Goto, AckedDecisionHolds
<1> QED
  BY <1>1, <1>2, <1>3, <1>4, <1>5, <1>6

\* What is read back is some stored status.
LEMMA DecideLoadKeeps ==
  ASSUME IInv, NEW r \in Req, DecideLoad(r)
  PROVE  IInv'
<1> USE ConstantAssumption DEF IInv, TypeOK
<1>1. TypeOK'
  <2>1. job[r].tx \in Tx /\ doc[job[r].tx] \in MongoStatus
    BY DEF DecideLoad, Goto, RequestsFollowKey
  <2>2. job' = [job EXCEPT ![r] = [job[r] EXCEPT !.seen = doc[job[r].tx]]]
    BY DEF DecideLoad
  <2>3. [job[r] EXCEPT !.seen = doc[job[r].tx]] \in Job
    BY <2>1, ZenonT(40) DEF Job
  <2>4. job' \in [Req -> Job]
    BY <2>2, <2>3
  <2>5. at' \in [Req -> Stage]
    BY DEF DecideLoad, Goto, Stage, Deciding
  <2> QED
    BY <2>4, <2>5 DEF DecideLoad, stores
<1>2. RequestsFollowKey'
  BY DEF DecideLoad, Goto, stores, RequestsFollowKey, KeyIsAccounted,
     Creating, Reviewing, Deciding, Job
<1>3. KeyIsAccounted' /\ MongoNeverAhead' /\ EventsFollowKey' /\ AckedDecisionHolds'
  BY DEF DecideLoad, Goto, stores, KeyIsAccounted, MongoNeverAhead, Grounded,
     EventsFollowKey, AckedDecisionHolds
<1> QED
  BY <1>1, <1>2, <1>3

\* The verdict announced is the key's.
LEMMA DecidePublishKeeps ==
  ASSUME IInv, NEW r \in Req, DecidePublish(r)
  PROVE  IInv'
<1> USE ConstantAssumption DEF IInv, TypeOK
<1>1. stream' \in Seq(Event) /\ EventsFollowKey'
  BY PublishKeeps DEF Publishing, DecidePublish, Goto
<1>2. TypeOK'
  BY <1>1 DEF DecidePublish, Goto, Job, Stage, Creating, Reviewing, Deciding
<1>3. RequestsFollowKey'
  BY DEF DecidePublish, Goto, RequestsFollowKey, KeyIsAccounted, Creating,
     Reviewing, Deciding, Job
<1>4. KeyIsAccounted' /\ MongoNeverAhead' /\ AckedDecisionHolds'
  BY DEF DecidePublish, Goto, KeyIsAccounted, MongoNeverAhead, Grounded,
     AckedDecisionHolds
<1> QED
  BY <1>1, <1>2, <1>3, <1>4

\* The notification of an override, which may be written twice, is one of its client.
LEMMA NotifyKeeps ==
  ASSUME IInv, NEW r \in Req, at[r] = "status.publish", Notify(r) \/ UNCHANGED notes
  PROVE  notes' \in Seq(Override)
<1> DEFINE n == [tx |-> job[r].tx, status |-> job[r].want]
<1>1. n \in Override
  BY DEF IInv, RequestsFollowKey, Override
<1>2. notes' = Append(notes, n) \/ notes' = notes
  BY DEF Notify
<1>3. notes \in Seq(Override)
  BY DEF IInv, TypeOK
<1> HIDE DEF n
<1>4. Append(notes, n) \in Seq(Override)
  BY <1>1, <1>3, AppendIsSeq
<1> QED
  BY <1>2, <1>3, <1>4

\* It is in no other part of the invariant.
LEMMA StatusPublishKeeps ==
  ASSUME IInv, NEW r \in Req, StatusPublish(r)
  PROVE  IInv'
<1> USE ConstantAssumption DEF IInv, TypeOK
<1>1. TypeOK'
  <2>1. notes' \in Seq(Override)
    BY NotifyKeeps DEF StatusPublish
  <2>2. at' \in [Req -> Stage] /\ job' \in [Req -> Job]
    BY DEF StatusPublish, Finish, Stage, NoJob, Job
  <2> QED
    BY <2>1, <2>2 DEF StatusPublish
<1>2. RequestsFollowKey'
  BY DEF StatusPublish, Finish, RequestsFollowKey, KeyIsAccounted, Creating,
     Reviewing, Deciding, Job
<1>3. KeyIsAccounted' /\ MongoNeverAhead' /\ EventsFollowKey' /\ AckedDecisionHolds'
  BY DEF StatusPublish, Finish, KeyIsAccounted, MongoNeverAhead, Grounded,
     EventsFollowKey, AckedDecisionHolds
<1> QED
  BY <1>1, <1>2, <1>3

\* However late, the write finds the key at review or beyond.
LEMMA ReviewWriteKeeps ==
  ASSUME IInv, NEW r \in Req, ReviewWrite(r)
  PROVE  IInv'
<1> USE ConstantAssumption DEF IInv, TypeOK
<1>1. TypeOK'
  BY DEF ReviewWrite, Goto, Job, Stage, Creating, Reviewing, Deciding,
     RequestsFollowKey
<1>2. RequestsFollowKey'
  BY DEF ReviewWrite, Goto, RequestsFollowKey, KeyIsAccounted, Creating,
     Reviewing, Deciding, Job
<1>3. KeyIsAccounted'
  BY DEF ReviewWrite, Goto, KeyIsAccounted, RequestsFollowKey, Reviewing,
     Deciding
<1>4. MongoNeverAhead'
  BY DEF ReviewWrite, Goto, MongoNeverAhead, Grounded, RequestsFollowKey, Reviewing,
     Deciding
<1>5. EventsFollowKey'
  BY DEF ReviewWrite, Goto, EventsFollowKey, RequestsFollowKey, Reviewing,
     Deciding, Event
<1>6. AckedDecisionHolds'
  BY DEF ReviewWrite, Goto, AckedDecisionHolds
<1> QED
  BY <1>1, <1>2, <1>3, <1>4, <1>5, <1>6

\* The only decision in flight tells the merchant, who was told nothing before.
LEMMA DecideNotifyKeeps ==
  ASSUME IInv, NEW r \in Req, DecideNotify(r)
  PROVE  IInv'
<1> USE ConstantAssumption DEF IInv, TypeOK
<1>1. acked' \in [Tx -> SUBSET EventType] /\ AckedDecisionHolds' /\ Finish(r)
  BY AnswerKeeps DEF DecideNotify, RequestsFollowKey, Creating, Reviewing,
     Deciding, Answer
<1>2. TypeOK'
  <2>1. job[r].want \in Decision /\ posted[job[r].tx] \in Seq(Decision)
    BY DEF DecideNotify, RequestsFollowKey, Deciding
  <2>2. Append(posted[job[r].tx], job[r].want) \in Seq(Decision)
    BY <2>1
  <2>3. posted' \in [Tx -> Seq(Decision)]
    BY <2>2 DEF DecideNotify
  <2>4. at' \in [Req -> Stage] /\ job' \in [Req -> Job]
    BY <1>1 DEF Finish, Stage, NoJob, Job
  <2> QED
    BY <1>1, <2>3, <2>4 DEF DecideNotify
<1>3. RequestsFollowKey'
  BY <1>1 DEF DecideNotify, Finish, RequestsFollowKey, KeyIsAccounted,
     Creating, Reviewing, Deciding, Job
<1>4. KeyIsAccounted'
  BY <1>1 DEF DecideNotify, Finish, KeyIsAccounted, RequestsFollowKey,
     Reviewing, Deciding
<1>5. MongoNeverAhead' /\ EventsFollowKey'
  BY DEF DecideNotify, Finish, MongoNeverAhead, Grounded, EventsFollowKey
<1> QED
  BY <1>1, <1>2, <1>3, <1>4, <1>5

\* A request that ends early leaves the stores as the invariant allows them.
LEMMA HandlerErrorKeeps ==
  ASSUME IInv, NEW r \in Req, HandlerError(r)
  PROVE  IInv'
<1> USE ConstantAssumption DEF IInv, TypeOK
<1>1. TypeOK'
  BY DEF HandlerError, Finish, stores, Job, Stage, Creating, Reviewing,
     Deciding, NoJob
<1>2. RequestsFollowKey'
  BY DEF HandlerError, Finish, stores, RequestsFollowKey, KeyIsAccounted,
     Creating, Reviewing, Deciding, Job
<1>3. KeyIsAccounted' /\ MongoNeverAhead' /\ EventsFollowKey' /\ AckedDecisionHolds'
  BY DEF HandlerError, Finish, stores, KeyIsAccounted, MongoNeverAhead, Grounded,
     EventsFollowKey, AckedDecisionHolds
<1> QED
  BY <1>1, <1>2, <1>3

\* What is resent is what the request may publish.
LEMMA DriverResendKeeps ==
  ASSUME IInv, NEW r \in Req, DriverResend(r)
  PROVE  IInv'
<1> USE ConstantAssumption DEF IInv, TypeOK
<1>1. stream' \in Seq(Event) /\ notes' \in Seq(Override) /\ EventsFollowKey'
  <2>1. CASE at[r] \in Publishing /\ Publish(r) /\ UNCHANGED notes
    BY <2>1, PublishKeeps DEF DriverResend, TryPublish
  <2>2. CASE at[r] = "status.publish" /\ Notify(r) /\ UNCHANGED stream
    <3>1. notes' \in Seq(Override)
      BY <2>2, NotifyKeeps
    <3> QED
      BY <2>2, <3>1 DEF DriverResend, EventsFollowKey
  <2> QED
    BY <2>1, <2>2 DEF DriverResend
<1>2. TypeOK'
  BY <1>1 DEF DriverResend
<1>3. RequestsFollowKey' /\ KeyIsAccounted' /\ MongoNeverAhead' /\ AckedDecisionHolds'
  BY DEF DriverResend, RequestsFollowKey, KeyIsAccounted, MongoNeverAhead, Grounded,
     AckedDecisionHolds
<1> QED
  BY <1>1, <1>2, <1>3

\* So does a process that dies with all its requests.
LEMMA DeathKeeps ==
  ASSUME IInv, at' = [r \in Req |-> "idle"], job' = [r \in Req |-> NoJob], UNCHANGED stores
  PROVE  IInv'
<1> USE ConstantAssumption DEF IInv, TypeOK
<1>1. TypeOK'
  BY DEF stores, Job, Stage, Creating, Reviewing, Deciding, NoJob
<1>2. RequestsFollowKey'
  BY DEF stores, RequestsFollowKey, KeyIsAccounted, Creating, Reviewing, Deciding, Job
<1>3. KeyIsAccounted' /\ MongoNeverAhead' /\ EventsFollowKey' /\ AckedDecisionHolds'
  BY DEF stores, KeyIsAccounted, MongoNeverAhead, Grounded, EventsFollowKey, AckedDecisionHolds
<1> QED
  BY <1>1, <1>2, <1>3

\* One step per action.
LEMMA StepKeepsIInv == IInv /\ [Next]_vars => IInv'
<1> SUFFICES ASSUME IInv, [Next]_vars PROVE IInv'
  OBVIOUS
<1>1. ASSUME NEW r \in Req, Arrive(r) PROVE IInv'
  BY <1>1, CreateInsertKeeps, StatusWriteKeeps, ReviewCasKeeps, DecideCasKeeps DEF Arrive
<1>2. ASSUME NEW r \in Req, DatabaseStep(r) PROVE IInv'
  BY <1>2, CreateKeyKeeps, CreatePublishKeeps, ReviewLoadKeeps, ReviewPublishKeeps,
     DecideWriteKeeps, DecideLoadKeeps, DecidePublishKeeps, StatusPublishKeeps
  DEF DatabaseStep
<1>3. ASSUME NEW r \in Req, ReviewWrite(r) PROVE IInv'
  BY <1>3, ReviewWriteKeeps
<1>4. ASSUME NEW r \in Req, DecideNotify(r) PROVE IInv'
  BY <1>4, DecideNotifyKeeps
<1>5. ASSUME NEW r \in Req, HandlerError(r) PROVE IInv'
  BY <1>5, HandlerErrorKeeps
<1>6. ASSUME NEW r \in Req, DriverResend(r) PROVE IInv'
  BY <1>6, DriverResendKeeps
<1>7. CASE Crash
  BY <1>7, DeathKeeps DEF Crash
<1>8. CASE UNCHANGED vars
  BY <1>8 DEF vars, IInv, TypeOK, RequestsFollowKey, KeyIsAccounted, MongoNeverAhead, Grounded,
     EventsFollowKey, AckedDecisionHolds
<1> QED
  BY <1>1, <1>2, <1>3, <1>4, <1>5, <1>6, <1>7, <1>8 DEF Next, RequestStep

\* The inductive invariant holds in every reachable state.
THEOREM Invariance == Spec => []IInv
<1>1. Init => IInv
  BY InitIInv
<1>2. IInv /\ [Next]_vars => IInv'
  BY StepKeepsIInv
<1> QED
  BY <1>1, <1>2, PTL DEF Spec

-----------------------------------------------------------------------------
(***************************************************************************)
(* What the invariant gives.                                               *)
(***************************************************************************)
\* The variables keep their types.
THEOREM TypeCorrect == Spec => []TypeOK
BY Invariance, PTL DEF IInv

\* transactions.go:422 and 509: the scripts arbitrate, whatever interleaves.
THEOREM RequestsFollowTheKey == Spec => []RequestsFollowKey
BY Invariance, PTL DEF IInv

\* A key has its document, and the merchant was told the key's verdict.
THEOREM KeysAreAccounted == Spec => []KeyIsAccounted
BY Invariance, PTL DEF IInv

\* What Mongo shows of a transaction was typed by its client, at its creation or in
\* an override, or granted by Redis: no handler's own write is ahead of the key,
\* whatever statuses the clients may type.
THEOREM MongoStaysBehind == Spec => []MongoNeverAhead
BY Invariance, PTL DEF IInv

\* The worker never reads a transition that did not happen.
THEOREM EventsAreReached == Spec => []EventsFollowKey
BY Invariance, PTL DEF IInv

\* Two clients are never told opposite verdicts of one transaction.
THEOREM AckedDecisionsHold == Spec => []AckedDecisionHolds
BY Invariance, PTL DEF IInv

-----------------------------------------------------------------------------
(***************************************************************************)
(* Answered operations are in the stream.                                  *)
(***************************************************************************)
\* A stream that only grows keeps what was published.
LEMMA PublishedStays ==
  ASSUME NEW e \in Event, stream \in Seq(Event),
         stream' = stream \/ stream' = Append(stream, e),
         NEW t, NEW op, Published(t, op)
  PROVE  Published(t, op)'
<1>1. PICK i \in DOMAIN stream : stream[i].tx = t /\ stream[i].type = op
  BY DEF Published
<1>2. i \in DOMAIN stream' /\ stream'[i] = stream[i]
  BY <1>1
<1> QED
  BY <1>1, <1>2 DEF Published

\* Publishing an event puts it in the stream.
LEMMA PublishedNow ==
  ASSUME NEW e \in Event, stream \in Seq(Event), stream' = Append(stream, e)
  PROVE  Published(e.tx, e.type)'
<1>1. Len(stream') \in DOMAIN stream' /\ stream'[Len(stream')] = e
  OBVIOUS
<1> QED
  BY <1>1 DEF Published

\* The stream changes only by the event of a request that is publishing.
LEMMA StreamGrows ==
  ASSUME IInv, [Next]_vars
  PROVE  \/ UNCHANGED stream
         \/ \E r \in Req : at[r] \in Publishing /\ stream' = Append(stream, EventOf(r))
<1>1. ASSUME NEW r \in Req,
             CreatePublish(r) \/ ReviewPublish(r) \/ DecidePublish(r) \/ DriverResend(r)
      PROVE  UNCHANGED stream \/ (at[r] \in Publishing /\ stream' = Append(stream, EventOf(r)))
  BY <1>1 DEF CreatePublish, ReviewPublish, DecidePublish, DriverResend, Goto, TryPublish,
     Publish, Publishing
<1>2. ASSUME NEW r \in Req, RequestStep(r), ~CreatePublish(r), ~ReviewPublish(r),
             ~DecidePublish(r), ~DriverResend(r)
      PROVE  UNCHANGED stream
  BY <1>2 DEF RequestStep, Arrive, DatabaseStep, CreateInsert, StatusWrite, ReviewCas, DecideCas,
     CreateKey, ReviewLoad, ReviewWrite, DecideWrite, DecideLoad, DecideNotify,
     StatusPublish, HandlerError, stores
<1> QED
  BY <1>1, <1>2 DEF Next, Crash, stores, vars

\* The stream is append-only in every step.
LEMMA PublishedStaysInStep ==
  ASSUME IInv, [Next]_vars, NEW t, NEW op, Published(t, op)
  PROVE  Published(t, op)'
<1>1. CASE UNCHANGED stream
  BY <1>1 DEF Published
<1>2. CASE \E r \in Req : at[r] \in Publishing /\ stream' = Append(stream, EventOf(r))
  <2>1. PICK r \in Req : at[r] \in Publishing /\ stream' = Append(stream, EventOf(r))
    BY <1>2
  <2>2. PICK e \in Event : e = EventOf(r)
    BY <2>1, EventIsReached
  <2> QED
    BY <2>1, <2>2, PublishedStays DEF IInv, TypeOK
<1> QED
  BY <1>1, <1>2, StreamGrows

\* Answers are given by the three last steps only.
LEMMA AckedGrows ==
  ASSUME IInv, [Next]_vars, NEW t \in Tx, NEW op \in acked'[t], op \notin acked[t]
  PROVE  \E r \in Req : /\ job[r].tx = t
                        /\ \/ CreatePublish(r) /\ op = "created"
                           \/ ReviewPublish(r) /\ op = "review"
                           \/ DecideNotify(r) /\ op = job[r].want
<1>1. ~ UNCHANGED acked
  OBVIOUS
<1>2. PICK r \in Req : CreatePublish(r) \/ ReviewPublish(r) \/ DecideNotify(r)
  BY <1>1 DEF Next, RequestStep, Arrive, DatabaseStep, CreateInsert, StatusWrite, ReviewCas, DecideCas,
     CreateKey, ReviewLoad, ReviewWrite, DecideWrite, DecideLoad, DecidePublish,
     StatusPublish, HandlerError, Crash, DriverResend, stores, vars
<1>3. acked \in [Tx -> SUBSET EventType]
  BY DEF IInv, TypeOK
<1>4. ASSUME NEW o, Answer(r, o) PROVE job[r].tx = t /\ op = o
  <2>1. \/ acked' = [acked EXCEPT ![job[r].tx] = @ \cup {o}]
        \/ acked' = acked
    BY <1>4 DEF Answer
  <2> QED
    BY <1>3, <2>1
<1> QED
  BY <1>2, <1>4 DEF CreatePublish, ReviewPublish, DecideNotify

\* When no call fails, a decision waiting for the webhook has been published.
NotifyIsPublished ==
  ~Faults => \A r \in Req : at[r] = "decide.notify" => Published(job[r].tx, job[r].want)

\* A request waits for the webhook only after DecidePublish.
LEMMA NotifyIsReached ==
  ASSUME IInv, [Next]_vars, NEW r \in Req, at'[r] = "decide.notify", ~DecidePublish(r)
  PROVE  at[r] = "decide.notify" /\ job'[r] = job[r]
<1>1. at \in [Req -> Stage] /\ job \in [Req -> Job]
  BY DEF IInv, TypeOK
<1> USE <1>1 DEF Begin, Goto, Finish, Answer, stores
<1>2. ASSUME NEW q \in Req, Arrive(q) PROVE at[r] = "decide.notify" /\ job'[r] = job[r]
  BY <1>2 DEF Arrive, CreateInsert, StatusWrite, ReviewCas, DecideCas
<1>3. ASSUME NEW q \in Req, DatabaseStep(q) PROVE at[r] = "decide.notify" /\ job'[r] = job[r]
  <2>1. CASE DecideLoad(q)
    BY <2>1 DEF DecideLoad
  <2>2. CASE ~DecideLoad(q)
    BY <1>3, <2>2 DEF DatabaseStep, CreateKey, CreatePublish, ReviewLoad, ReviewPublish,
       DecideWrite, DecidePublish, StatusPublish
  <2> QED
    BY <2>1, <2>2
<1>4. ASSUME NEW q \in Req, ReviewWrite(q) \/ DecideNotify(q) \/ HandlerError(q)
      PROVE at[r] = "decide.notify" /\ job'[r] = job[r]
  BY <1>4 DEF ReviewWrite, DecideNotify, HandlerError
<1>5. ASSUME NEW q \in Req, DriverResend(q) PROVE at[r] = "decide.notify" /\ job'[r] = job[r]
  BY <1>5 DEF DriverResend
<1>6. CASE Crash \/ UNCHANGED vars
  BY <1>6 DEF Crash, vars
<1> QED
  BY <1>2, <1>3, <1>4, <1>5, <1>6 DEF Next, RequestStep

\* Every step keeps the invariant of what was answered and published.
LEMMA StepKeepsPublished ==
  ASSUME IInv, AckedCreateIsPublished, NotifyIsPublished,
         ~Faults => AckedIsPublished, [Next]_vars
  PROVE  /\ AckedCreateIsPublished'
         /\ NotifyIsPublished'
         /\ (~Faults => AckedIsPublished)'
<1>1. ASSUME NEW r \in Req, at[r] \in Publishing, Publish(r), NEW t, NEW op,
             EventOf(r).tx = t, EventOf(r).type = op
      PROVE  Published(t, op)'
  <2>1. PICK e \in Event : e = EventOf(r)
    BY <1>1, EventIsReached
  <2>2. Published(e.tx, e.type)'
    BY <1>1, <2>1, PublishedNow DEF Publish, IInv, TypeOK
  <2> QED
    BY <1>1, <2>1, <2>2
<1>2. ASSUME NEW r \in Req, CreatePublish(r), NEW t, job[r].tx = t
      PROVE  Published(t, "created")'
  <2>1. EventOf(r).tx = t /\ EventOf(r).type = "created"
    BY <1>2 DEF CreatePublish, EventOf
  <2> QED
    BY <1>1, <1>2, <2>1 DEF CreatePublish, Publishing
<1>3. AckedCreateIsPublished'
  <2> SUFFICES ASSUME NEW t \in Tx, "created" \in acked'[t] PROVE Published(t, "created")'
    BY DEF AckedCreateIsPublished
  <2>1. CASE "created" \in acked[t]
    BY <2>1, PublishedStaysInStep DEF AckedCreateIsPublished
  <2>2. CASE "created" \notin acked[t]
    <3>1. \E r \in Req : job[r].tx = t /\ CreatePublish(r)
      BY <2>2, AckedGrows DEF DecideNotify, IInv, RequestsFollowKey, Deciding
    <3> QED
      BY <1>2, <3>1
  <2> QED
    BY <2>1, <2>2
<1>4. ASSUME ~Faults, NEW r \in Req, ReviewPublish(r), NEW t, job[r].tx = t
      PROVE  Published(t, "review")'
  <2>1. EventOf(r).tx = t /\ EventOf(r).type = "review"
    BY <1>4 DEF ReviewPublish, EventOf
  <2> QED
    BY <1>1, <1>4, <2>1 DEF ReviewPublish, TryPublish, Publishing
<1>5. ASSUME ~Faults, NEW r \in Req, DecidePublish(r), NEW t, NEW v,
             job[r].tx = t, job[r].want = v
      PROVE  Published(t, v)'
  <2>1. EventOf(r).tx = t /\ EventOf(r).type = v
    BY <1>5 DEF DecidePublish, Goto, EventOf
  <2> QED
    BY <1>1, <1>5, <2>1 DEF DecidePublish, Goto, TryPublish, Publishing
<1>6. (~Faults => AckedIsPublished)'
  <2> SUFFICES ASSUME ~Faults, NEW t \in Tx, NEW op \in acked'[t] PROVE Published(t, op)'
    BY DEF AckedIsPublished
  <2>1. CASE op \in acked[t]
    BY <2>1, PublishedStaysInStep DEF AckedIsPublished
  <2>2. CASE op \notin acked[t]
    <3>1. PICK r \in Req : /\ job[r].tx = t
                           /\ \/ CreatePublish(r) /\ op = "created"
                              \/ ReviewPublish(r) /\ op = "review"
                              \/ DecideNotify(r) /\ op = job[r].want
      BY <2>2, AckedGrows
    <3>2. CASE DecideNotify(r) /\ op = job[r].want
      BY <3>1, <3>2, PublishedStaysInStep DEF DecideNotify, NotifyIsPublished
    <3> QED
      BY <1>2, <1>4, <3>1, <3>2
  <2> QED
    BY <2>1, <2>2
<1>7. NotifyIsPublished'
  <2> SUFFICES ASSUME ~Faults, NEW r \in Req, at'[r] = "decide.notify"
      PROVE  \A t, v : t = job'[r].tx /\ v = job'[r].want => Published(t, v)'
    BY DEF NotifyIsPublished
  <2>1. CASE DecidePublish(r)
    <3>1. job' = job
      BY <2>1 DEF DecidePublish
    <3> QED
      BY <1>5, <2>1, <3>1
  <2>2. CASE ~DecidePublish(r)
    <3>1. at[r] = "decide.notify" /\ job'[r] = job[r]
      BY <2>2, NotifyIsReached
    <3> QED
      BY <3>1, PublishedStaysInStep DEF NotifyIsPublished
  <2> QED
    BY <2>1, <2>2
<1> QED
  BY <1>3, <1>6, <1>7

\* A 201 means that the worker has, or will find, the event.
THEOREM AckedCreatesArePublished == Spec => []AckedCreateIsPublished
<1> DEFINE P == /\ AckedCreateIsPublished
                /\ NotifyIsPublished
                /\ ~Faults => AckedIsPublished
<1>1. Init => P
  BY DEF Init, AckedCreateIsPublished, NotifyIsPublished, AckedIsPublished
<1>2. IInv /\ P /\ [Next]_vars => P'
  BY StepKeepsPublished
<1>3. P => AckedCreateIsPublished
  OBVIOUS
<1> HIDE DEF P
<1> QED
  BY <1>1, <1>2, <1>3, Invariance, PTL DEF Spec

\* Without failures the same holds of every operation.
THEOREM AckedOperationsArePublished == Spec => [](~Faults => AckedIsPublished)
<1> DEFINE P == /\ AckedCreateIsPublished
                /\ NotifyIsPublished
                /\ ~Faults => AckedIsPublished
<1>1. Init => P
  BY DEF Init, AckedCreateIsPublished, NotifyIsPublished, AckedIsPublished
<1>2. IInv /\ P /\ [Next]_vars => P'
  BY StepKeepsPublished
<1>3. P => (~Faults => AckedIsPublished)
  OBVIOUS
<1> HIDE DEF P
<1> QED
  BY <1>1, <1>2, <1>3, Invariance, PTL DEF Spec

-----------------------------------------------------------------------------
(***************************************************************************)
(* The handlers implement the state machine of StatusMachine.              *)
(***************************************************************************)
\* Initial states map to initial states.
LEMMA InitRefines == Init => SM!Init
BY DEF Init, SM!Init

\* Every step maps to a step of StatusMachine or to a stutter.
LEMMA StepRefines == IInv /\ [Next]_vars => [SM!Next]_<<key, posted>>
<1> SUFFICES ASSUME IInv, [Next]_vars PROVE [SM!Next]_<<key, posted>>
  OBVIOUS
<1> USE DEF IInv, TypeOK, SM!Next
<1>1. ASSUME NEW r \in Req, CreateKey(r) PROVE [SM!Next]_<<key, posted>>
  <2>1. job[r].tx \in Tx
    BY <1>1 DEF CreateKey, Goto, RequestsFollowKey
  <2>2. CASE key[job[r].tx] = "none" /\ key' = [key EXCEPT ![job[r].tx] = "pending"]
    BY <1>1, <2>1, <2>2 DEF CreateKey, SM!Register, SM!Move
  <2>3. CASE key' = key
    BY <1>1, <2>3 DEF CreateKey
  <2> QED
    BY <1>1, <2>1, <2>2, <2>3 DEF CreateKey
<1>2. ASSUME NEW r \in Req, NEW t \in Tx, ReviewCas(r, t) PROVE [SM!Next]_<<key, posted>>
  BY <1>2 DEF ReviewCas, KeyCas, SM!Review, SM!Move
<1>3. ASSUME NEW r \in Req, NEW t \in Tx, NEW v \in Decision, DecideCas(r, t, v)
      PROVE [SM!Next]_<<key, posted>>
  BY <1>3 DEF DecideCas, KeyCas, SM!Decide, SM!Move, SM!Decision
<1>4. ASSUME NEW r \in Req, DecideNotify(r) PROVE [SM!Next]_<<key, posted>>
  <2> DEFINE t == job[r].tx
  <2>1. t \in Tx /\ key[t] \in Decision /\ job[r].want = key[t] /\ posted[t] = << >>
    BY <1>4 DEF DecideNotify, RequestsFollowKey, Deciding
  <2>2. CASE posted' = [posted EXCEPT ![t] = Append(@, job[r].want)]
    <3>1. posted' = [posted EXCEPT ![t] = << key[t] >>]
      BY <2>1, <2>2
    <3>2. SM!Tell(t)
      BY <1>4, <2>1, <3>1 DEF DecideNotify, SM!Tell, SM!Decision
    <3> QED
      BY <2>1, <3>2
  <2>3. CASE UNCHANGED posted
    BY <1>4, <2>3 DEF DecideNotify
  <2> QED
    BY <1>4, <2>2, <2>3 DEF DecideNotify
<1>5. CASE UNCHANGED <<key, posted>>
  BY <1>5
<1>6. ASSUME NEW r \in Req, Arrive(r) PROVE [SM!Next]_<<key, posted>>
  BY <1>2, <1>3, <1>5, <1>6 DEF Arrive, CreateInsert, StatusWrite
<1>7. ASSUME NEW r \in Req, DatabaseStep(r) PROVE [SM!Next]_<<key, posted>>
  BY <1>1, <1>5, <1>7 DEF DatabaseStep, CreatePublish, ReviewLoad, ReviewPublish,
     DecideWrite, DecideLoad, DecidePublish, StatusPublish, stores
<1>8. ASSUME NEW r \in Req, ReviewWrite(r) \/ HandlerError(r) \/ DriverResend(r)
      PROVE [SM!Next]_<<key, posted>>
  BY <1>5, <1>8 DEF ReviewWrite, HandlerError, DriverResend, stores
<1>9. CASE Crash \/ UNCHANGED vars
  BY <1>5, <1>9 DEF Crash, vars, stores
<1> QED
  BY <1>4, <1>6, <1>7, <1>8, <1>9 DEF Next, RequestStep

\* Registered, reviewed and decided once, told at most once and truly: the key
\* and the webhook behave as StatusMachine promises.
THEOREM Refinement == Spec => ImplementsStatusMachine
<1>1. Init => SM!Init
  BY InitRefines
<1>2. IInv /\ [Next]_vars => [SM!Next]_<<key, posted>>
  BY StepRefines
<1> QED
  BY <1>1, <1>2, Invariance, PTL DEF Spec, ImplementsStatusMachine, SM!Spec

-----------------------------------------------------------------------------
(***************************************************************************)
(* When no call fails: the queue and the verdicts' documents.              *)
(***************************************************************************)
\* A transaction whose creation is or will be answered has a key.
CreatedHasKey ==
  /\ \A t \in Tx : "created" \in acked[t] => key[t] # "none"
  /\ \A r \in Req : at[r] = "create.publish" => key[job[r].tx] # "none"

\* A review in flight that has not written the document yet.
AboutToReview(r, t) == at[r] \in {"review.load", "review.write"} /\ job[r].tx = t

\* A reviewed key shows in the document, or is about to, or an override came.
ReviewShows ==
  \A t \in Tx : key[t] \in Reviewed =>
    \/ doc[t] \in Reviewed
    \/ \E r \in Req : AboutToReview(r, t)
    \/ Overridden(t)

\* What a decision reads back is its verdict, or a late review's status.
DecisionReadsReview ==
  \A r \in Req : \A t \in Tx : job[r].tx = t =>
    /\ at[r] = "decide.load" => doc[t] \in {"review", job[r].want} \/ Overridden(t)
    /\ at[r] = "decide.publish" => job[r].seen \in {"review", job[r].want} \/ Overridden(t)

NoFailureInv ==
  CreatedHasKey /\ ReviewShows /\ DecisionReadsReview /\ DecidedEventsAreReviewed

\* What a request without failures does to the documents.
LEMMA DocChanges ==
  ASSUME IInv, ~Faults, NEW q \in Req, RequestStep(q), NEW t \in Tx, doc[t] # None
  PROVE  \/ doc'[t] = doc[t]
         \/ DecideWrite(q) /\ job[q].tx = t /\ doc'[t] = job[q].want
         \/ ReviewWrite(q) /\ job[q].tx = t /\ doc'[t] = "review"
         \/ at'[q] = "status.publish" /\ job'[q].tx = t
<1>1. doc \in [Tx -> MongoStatus \cup {None}] /\ at \in [Req -> Stage] /\ job \in [Req -> Job]
  BY DEF IInv, TypeOK
<1>2. CASE Arrive(q)
  BY <1>1, <1>2 DEF Arrive, CreateInsert, StatusWrite, Store, ReviewCas, DecideCas, Begin
<1>3. CASE DatabaseStep(q) /\ ~DecideWrite(q)
  BY <1>3 DEF DatabaseStep, CreateKey, CreatePublish, ReviewLoad, ReviewPublish, DecideLoad,
     DecidePublish, StatusPublish, stores
<1>4. CASE DecideWrite(q)
  BY <1>1, <1>4 DEF DecideWrite
<1>5. CASE ReviewWrite(q)
  BY <1>1, <1>5 DEF ReviewWrite
<1>6. CASE DecideNotify(q) \/ HandlerError(q) \/ DriverResend(q)
  BY <1>6 DEF DecideNotify, HandlerError, DriverResend
<1> QED
  BY <1>2, <1>3, <1>4, <1>5, <1>6 DEF RequestStep

\* What it does to the keys.
LEMMA KeyChanges ==
  ASSUME IInv, NEW q \in Req, RequestStep(q), NEW t \in Tx
  PROVE  \/ key'[t] = key[t]
         \/ key[t] = "none" /\ key'[t] = "pending"
         \/ key[t] = "pending" /\ key'[t] = "review" /\ AboutToReview(q, t)'
         \/ key[t] = "review" /\ key'[t] \in Decision
<1>1. key \in [Tx -> KeyStatus] /\ at \in [Req -> Stage] /\ job \in [Req -> Job]
  BY DEF IInv, TypeOK
<1>2. CASE Arrive(q)
  BY <1>1, <1>2
  DEF Arrive, CreateInsert, StatusWrite, ReviewCas, DecideCas, KeyCas, Begin, AboutToReview
<1>3. CASE CreateKey(q)
  BY <1>1, <1>3 DEF CreateKey
<1>4. CASE DatabaseStep(q) /\ ~CreateKey(q)
  BY <1>4 DEF DatabaseStep, CreatePublish, ReviewLoad, ReviewPublish, DecideWrite, DecideLoad,
     DecidePublish, StatusPublish, stores
<1>5. CASE ReviewWrite(q) \/ DecideNotify(q) \/ HandlerError(q) \/ DriverResend(q)
  BY <1>5 DEF ReviewWrite, DecideNotify, HandlerError, DriverResend, stores
<1> QED
  BY <1>2, <1>3, <1>4, <1>5 DEF RequestStep

\* What it does to its own stage: how each stage the proof needs is entered.
LEMMA StageChanges ==
  ASSUME IInv, ~Faults, NEW q \in Req, RequestStep(q), NEW r \in Req
  PROVE  /\ r # q => at'[r] = at[r] /\ job'[r] = job[r]
         /\ at'[q] = "create.publish" => CreateKey(q)
         /\ at'[q] = "decide.load" => DecideWrite(q)
         /\ at'[q] = "decide.publish" => DecideLoad(q)
         /\ at[q] = "review.load" => at'[q] = "review.write" /\ job'[q] = job[q]
         /\ at[q] = "review.write" => ReviewWrite(q)
         /\ at[q] = "status.publish" => StatusPublish(q)
         /\ CreateKey(q) \/ DecideWrite(q) \/ ReviewWrite(q) => job'[q] = job[q]
<1>1. at \in [Req -> Stage] /\ job \in [Req -> Job]
  BY DEF IInv, TypeOK
<1> USE <1>1 DEF Begin, Goto, Finish, Answer
<1>2. CASE Arrive(q)
  BY <1>2 DEF Arrive, CreateInsert, StatusWrite, ReviewCas, DecideCas, CreateKey, DecideWrite,
     ReviewWrite
<1>3. CASE CreateKey(q)
  BY <1>3 DEF CreateKey, DecideWrite, ReviewWrite
<1>4. CASE CreatePublish(q) \/ ReviewPublish(q) \/ DecideNotify(q)
  BY <1>4 DEF CreatePublish, ReviewPublish, DecideNotify, CreateKey, DecideWrite, ReviewWrite
<1>5. CASE ReviewLoad(q) \/ ReviewWrite(q)
  BY <1>5 DEF ReviewLoad, ReviewWrite, CreateKey, DecideWrite
<1>6. CASE DecideWrite(q) \/ DecidePublish(q)
  BY <1>6 DEF DecideWrite, DecidePublish, CreateKey, ReviewWrite
<1>7. CASE DecideLoad(q)
  BY <1>7 DEF DecideLoad, DecideWrite, CreateKey, ReviewWrite
<1>8. CASE StatusPublish(q)
  BY <1>8 DEF StatusPublish, CreateKey, DecideWrite, ReviewWrite
<1>9. ~HandlerError(q) /\ ~DriverResend(q)
  BY DEF HandlerError, DriverResend
<1> QED
  BY <1>2, <1>3, <1>4, <1>5, <1>6, <1>7, <1>8, <1>9 DEF RequestStep, DatabaseStep

\* An override that came is remembered by its request or by its notification.
LEMMA OverriddenStays ==
  ASSUME IInv, ~Faults, NEW q \in Req, RequestStep(q), NEW t \in Tx, Overridden(t)
  PROVE  Overridden(t)'
<1>1. notes \in Seq(Override) /\ job \in [Req -> Job]
  BY DEF IInv, TypeOK
<1> DEFINE n == [tx |-> job[q].tx, status |-> job[q].want]
<1>2. notes' = notes \/ (StatusPublish(q) /\ notes' = Append(notes, n))
  BY DEF RequestStep, Arrive, CreateInsert, StatusWrite, ReviewCas, DecideCas, DatabaseStep,
     CreateKey, CreatePublish, ReviewLoad, ReviewPublish, DecideWrite, DecideLoad, DecidePublish,
     StatusPublish, Notify, ReviewWrite, DecideNotify, HandlerError, DriverResend, stores
<1>3. StatusPublish(q) => notes' = Append(notes, n)
  BY DEF StatusPublish, Notify
<1>4. StatusPublish(q) => n \in Override
  BY DEF StatusPublish, IInv, RequestsFollowKey, Override
<1>5. StatusPublish(q) =>
        /\ DOMAIN notes \subseteq DOMAIN notes'
        /\ \A i \in DOMAIN notes : notes'[i] = notes[i]
        /\ Len(notes') \in DOMAIN notes' /\ notes'[Len(notes')] = n
  <2> SUFFICES ASSUME StatusPublish(q)
               PROVE  /\ DOMAIN notes \subseteq DOMAIN notes'
                      /\ \A i \in DOMAIN notes : notes'[i] = notes[i]
                      /\ Len(notes') \in DOMAIN notes' /\ notes'[Len(notes')] = n
    OBVIOUS
  <2>1. notes' = Append(notes, n) /\ n \in Override
    BY <1>3, <1>4
  <2> HIDE DEF n
  <2> QED
    BY <1>1, <2>1
<1>6. CASE \E i \in DOMAIN notes : notes[i].tx = t
  BY <1>2, <1>5, <1>6 DEF Overridden
<1>7. CASE \E r \in Req : at[r] = "status.publish" /\ job[r].tx = t
  <2>1. PICK r \in Req : at[r] = "status.publish" /\ job[r].tx = t
    BY <1>7
  <2>2. CASE r # q
    BY <2>1, <2>2, StageChanges DEF Overridden
  <2>3. CASE r = q
    <3>1. StatusPublish(q)
      BY <2>1, <2>3, StageChanges
    <3>2. n.tx = t
      BY <2>1, <2>3
    <3> HIDE DEF n
    <3> QED
      BY <1>5, <3>1, <3>2 DEF Overridden
  <2> QED
    BY <2>2, <2>3
<1> QED
  BY <1>6, <1>7 DEF Overridden

\* The stream grows by one event at most; an approved or rejected event is
\* the document the decision read back.
LEMMA VerdictEvents ==
  ASSUME IInv, ~Faults, NEW q \in Req, RequestStep(q), NEW i \in DOMAIN stream',
         stream'[i].type \in Decision
  PROVE  \/ i \in DOMAIN stream /\ stream'[i] = stream[i]
         \/ /\ DecidePublish(q)
            /\ stream'[i] = [type |-> job[q].want, tx |-> job[q].tx, status |-> job[q].seen]
<1>1. stream \in Seq(Event) /\ \A r \in Req : at[r] \in Publishing => EventOf(r) \in Event
  BY EventIsReached DEF IInv, TypeOK
<1>2. stream' = stream \/ (at[q] \in Publishing /\ stream' = Append(stream, EventOf(q)))
  BY DEF RequestStep, Arrive, CreateInsert, StatusWrite, ReviewCas, DecideCas, DatabaseStep,
     CreateKey, CreatePublish, ReviewLoad, ReviewPublish, DecideWrite, DecideLoad, DecidePublish,
     StatusPublish, ReviewWrite, DecideNotify, HandlerError, DriverResend, stores,
     TryPublish, Publish, Publishing, Goto
<1>3. CASE stream' = stream
  BY <1>3
<1>4. CASE at[q] \in Publishing /\ stream' = Append(stream, EventOf(q)) /\ stream' # stream
  <2>1. \/ i \in DOMAIN stream /\ stream'[i] = stream[i]
        \/ stream'[i] = EventOf(q)
    BY <1>1, <1>4, AppendEvent
  <2>2. ASSUME stream'[i] = EventOf(q)
        PROVE  DecidePublish(q) /\ at[q] = "decide.publish"
    <3>1. at[q] = "decide.publish"
      BY <1>4, <2>2 DEF EventOf, Publishing
    <3> QED
      BY <1>4, <3>1 DEF RequestStep, Arrive, CreateInsert, StatusWrite, ReviewCas, DecideCas,
         DatabaseStep, CreateKey, CreatePublish, ReviewLoad, ReviewPublish, DecideWrite,
         DecideLoad, StatusPublish, ReviewWrite, DecideNotify, HandlerError, DriverResend, Goto
  <2>3. at[q] = "decide.publish" =>
          EventOf(q) = [type |-> job[q].want, tx |-> job[q].tx, status |-> job[q].seen]
    BY DEF EventOf
  <2> QED
    BY <2>1, <2>2, <2>3
<1> QED
  BY <1>2, <1>3, <1>4

\* The key comes before the event and the answer.
LEMMA CreatedHasKeyStays ==
  ASSUME IInv, ~Faults, CreatedHasKey, NEW q \in Req, RequestStep(q)
  PROVE  CreatedHasKey'
<1>1. \A t \in Tx : key[t] # "none" => key'[t] # "none"
  BY KeyChanges
<1>2. \A r \in Req : at[r] # "idle" => job[r].tx \in Tx
  BY DEF IInv, RequestsFollowKey
<1>3. ASSUME NEW t \in Tx, "created" \in acked'[t] PROVE key'[t] # "none"
  <2>1. CASE "created" \in acked[t]
    BY <1>1, <2>1 DEF CreatedHasKey
  <2>2. CASE "created" \notin acked[t]
    <3>1. [Next]_vars
      BY DEF Next
    <3>2. PICK r \in Req : job[r].tx = t /\ CreatePublish(r)
      BY <1>3, <2>2, <3>1, AckedGrows DEF DecideNotify, IInv, RequestsFollowKey, Deciding
    <3>3. at[r] = "create.publish"
      BY <3>2 DEF CreatePublish
    <3> QED
      BY <1>1, <3>2, <3>3 DEF CreatedHasKey
  <2> QED
    BY <2>1, <2>2
<1>4. ASSUME NEW r \in Req, at'[r] = "create.publish" PROVE key'[job'[r].tx] # "none"
  <2>1. CASE r # q
    <3>1. at[r] = "create.publish" /\ job'[r] = job[r]
      BY <1>4, <2>1, StageChanges
    <3> QED
      BY <1>1, <1>2, <3>1 DEF CreatedHasKey
  <2>2. CASE r = q
    <3>1. CreateKey(q) /\ job' = job
      BY <1>4, <2>2, StageChanges DEF CreateKey
    <3>2. at[q] = "create.key" /\ job[q].tx \in Tx
      BY <1>2, <3>1 DEF CreateKey, Goto
    <3>3. key' = [key EXCEPT ![job[q].tx] = IF @ = "none" THEN "pending" ELSE @]
      BY <3>1 DEF CreateKey
    <3>4. key'[job[q].tx] # "none"
      BY <3>2, <3>3 DEF IInv, TypeOK
    <3> QED
      BY <2>2, <3>1, <3>4
  <2> QED
    BY <2>1, <2>2
<1> QED
  BY <1>3, <1>4 DEF CreatedHasKey

\* A review that passed its compare-and-set is on its way to the document.
LEMMA ReviewShowsStays ==
  ASSUME IInv, ~Faults, ReviewShows, NEW q \in Req, RequestStep(q)
  PROVE  ReviewShows'
<1> SUFFICES ASSUME NEW t \in Tx, key'[t] \in Reviewed
             PROVE  \/ doc'[t] \in Reviewed
                    \/ \E r \in Req : AboutToReview(r, t)'
                    \/ Overridden(t)'
  BY DEF ReviewShows
<1>1. CASE key[t] \in Reviewed
  <2>1. doc[t] # None
    BY <1>1 DEF IInv, KeyIsAccounted
  <2>2. CASE doc[t] \in Reviewed
    <3>1. DecideWrite(q) => job[q].want \in Decision
      BY DEF DecideWrite, Goto, IInv, RequestsFollowKey, Deciding
    <3>2. at'[q] = "status.publish" /\ job'[q].tx = t => Overridden(t)'
      BY DEF Overridden
    <3> QED
      BY <2>1, <2>2, <3>1, <3>2, DocChanges
  <2>3. CASE \E r \in Req : AboutToReview(r, t)
    <3>1. PICK r \in Req : AboutToReview(r, t)
      BY <2>3
    <3>2. CASE r # q
      BY <3>1, <3>2, StageChanges DEF AboutToReview
    <3>3. CASE r = q /\ at[q] = "review.load"
      BY <3>1, <3>3, StageChanges DEF AboutToReview
    <3>4. CASE r = q /\ at[q] = "review.write"
      <4>1. ReviewWrite(q) /\ job[q].tx = t
        BY <3>1, <3>4, StageChanges DEF AboutToReview
      <4>2. doc'[t] = "review"
        BY <4>1 DEF ReviewWrite, IInv, TypeOK
      <4> QED
        BY <4>2
    <3> QED
      BY <3>1, <3>2, <3>3, <3>4 DEF AboutToReview
  <2>4. CASE Overridden(t)
    BY <2>4, OverriddenStays
  <2> QED
    BY <1>1, <2>2, <2>3, <2>4 DEF ReviewShows
<1>2. CASE key[t] \notin Reviewed
  <2>1. key'[t] = "review" /\ AboutToReview(q, t)'
    BY <1>2, KeyChanges
  <2> QED
    BY <2>1
<1> QED
  BY <1>1, <1>2

\* Between a decision's write and its read no other decision comes.
LEMMA DecisionReadsReviewStays ==
  ASSUME IInv, ~Faults, DecisionReadsReview, NEW q \in Req, RequestStep(q)
  PROVE  DecisionReadsReview'
<1> USE ConstantAssumption
<1>1. \A r \in Req : at[r] # "idle" => job[r].tx \in Tx /\ doc[job[r].tx] # None
  BY DEF IInv, RequestsFollowKey
<1>2. ASSUME NEW r \in Req, NEW t \in Tx, job'[r].tx = t, at'[r] = "decide.load"
      PROVE  doc'[t] \in {"review", job'[r].want} \/ Overridden(t)'
  <2>1. CASE r = q
    <3>1. DecideWrite(q) /\ job'[q] = job[q]
      BY <1>2, <2>1, StageChanges
    <3>2. doc'[t] = job[q].want
      BY <1>2, <2>1, <3>1 DEF DecideWrite, IInv, TypeOK
    <3> QED
      BY <2>1, <3>1, <3>2
  <2>2. CASE r # q
    <3>1. at[r] = "decide.load" /\ job'[r] = job[r] /\ job[r].tx = t
      BY <1>2, <2>2, StageChanges
    <3>2. doc[t] # None
      BY <1>1, <3>1
    <3>3. ~(DecideWrite(q) /\ job[q].tx = t)
      BY <2>2, <3>1 DEF DecideWrite, Goto, IInv, RequestsFollowKey, Deciding
    <3>4. \/ doc'[t] = doc[t] \/ doc'[t] = "review"
          \/ at'[q] = "status.publish" /\ job'[q].tx = t
      BY <3>2, <3>3, DocChanges
    <3>5. at'[q] = "status.publish" /\ job'[q].tx = t => Overridden(t)'
      BY DEF Overridden
    <3>6. Overridden(t) => Overridden(t)'
      BY OverriddenStays
    <3>7. doc[t] \in {"review", job[r].want} \/ Overridden(t)
      BY <3>1 DEF DecisionReadsReview
    <3> QED
      BY <3>1, <3>4, <3>5, <3>6, <3>7
  <2> QED
    BY <2>1, <2>2
<1>3. ASSUME NEW r \in Req, NEW t \in Tx, job'[r].tx = t, at'[r] = "decide.publish"
      PROVE  job'[r].seen \in {"review", job'[r].want} \/ Overridden(t)'
  <2>1. Overridden(t) => Overridden(t)'
    BY OverriddenStays
  <2>2. CASE r = q
    <3>1. DecideLoad(q) /\ at[q] = "decide.load"
      BY <1>3, <2>2, StageChanges DEF DecideLoad, Goto
    <3>2. /\ job'[q].tx = job[q].tx /\ job'[q].want = job[q].want
          /\ job'[q].seen = doc[job[q].tx]
      BY <3>1 DEF DecideLoad, IInv, TypeOK, Job
    <3> QED
      BY <1>3, <2>1, <2>2, <3>1, <3>2 DEF DecisionReadsReview
  <2>3. CASE r # q
    <3>1. at[r] = "decide.publish" /\ job'[r] = job[r]
      BY <1>3, <2>3, StageChanges
    <3> QED
      BY <1>3, <2>1, <3>1 DEF DecisionReadsReview
  <2> QED
    BY <2>2, <2>3
<1> QED
  BY <1>2, <1>3 DEF DecisionReadsReview

\* The entries of a stream of events are about transactions.
LEMMA EventsAreTyped ==
  ASSUME NEW s \in Seq(Event), NEW i \in DOMAIN s
  PROVE  s[i].tx \in Tx
<1>1. s[i] \in Event
  OBVIOUS
<1> QED
  BY <1>1 DEF Event

\* What was read back is what is announced.
LEMMA DecidedEventsStay ==
  ASSUME IInv, ~Faults, DecisionReadsReview, DecidedEventsAreReviewed,
         NEW q \in Req, RequestStep(q)
  PROVE  DecidedEventsAreReviewed'
<1>1. ASSUME NEW i \in DOMAIN stream', stream'[i].type \in Decision, NEW t \in Tx,
             stream'[i].tx = t
      PROVE  stream'[i].status \in {"review", stream'[i].type} \/ Overridden(t)'
  <2>1. Overridden(t) => Overridden(t)'
    BY OverriddenStays
  <2>2. CASE i \in DOMAIN stream /\ stream'[i] = stream[i]
    BY <1>1, <2>1, <2>2 DEF DecidedEventsAreReviewed
  <2>3. CASE /\ DecidePublish(q)
             /\ stream'[i] = [type |-> job[q].want, tx |-> job[q].tx, status |-> job[q].seen]
    BY <1>1, <2>1, <2>3 DEF DecisionReadsReview, DecidePublish, Goto
  <2> QED
    BY <1>1, <2>2, <2>3, VerdictEvents
<1>2. \A i \in DOMAIN stream' : stream'[i].tx \in Tx
  <2>1. stream' \in Seq(Event)
    <3>1. [Next]_vars
      BY DEF Next
    <3> QED
      BY <3>1, StepKeepsIInv DEF IInv, TypeOK
  <2> QED
    BY <2>1, EventsAreTyped
<1> QED
  BY <1>1, <1>2 DEF DecidedEventsAreReviewed, Overridden

\* One step without failures preserves the four together.
LEMMA NoFailureStays ==
  ASSUME IInv, ~Faults, NoFailureInv, NEW q \in Req, RequestStep(q)
  PROVE  NoFailureInv'
BY CreatedHasKeyStays, ReviewShowsStays, DecisionReadsReviewStays, DecidedEventsStay
DEF NoFailureInv

\* Nothing is in flight at first.
LEMMA InitNoFailure == Init => NoFailureInv
BY DEF Init, NoFailureInv, CreatedHasKey, ReviewShows, DecisionReadsReview,
   DecidedEventsAreReviewed

\* A listed transaction is "pending" in Mongo, so its review has not shown.
LEMMA QueueFollows == NoFailureInv /\ IInv => QueueIsReviewable
<1> SUFFICES ASSUME NoFailureInv, IInv, NEW t \in Listed, "created" \in acked[t]
             PROVE  \/ key[t] = "pending"
                    \/ \E r \in Req : AboutToReview(r, t)
                    \/ Overridden(t)
  BY DEF QueueIsReviewable, AboutToReview
<1>1. t \in Tx /\ doc[t] = "pending" /\ key[t] \in KeyStatus
  BY DEF Listed, IInv, TypeOK
<1>2. key[t] # "none"
  BY <1>1 DEF NoFailureInv, CreatedHasKey
<1> QED
  BY <1>1, <1>2 DEF NoFailureInv, ReviewShows

\* The same along a behaviour without failures.
LEMMA NoFailureInvariance == Spec => [](~Faults => NoFailureInv)
<1> DEFINE P == ~Faults => NoFailureInv
<1>1. Init => P
  BY InitNoFailure
<1>2. IInv /\ P /\ [Next]_vars => P'
  <2> SUFFICES ASSUME IInv, ~Faults, NoFailureInv, [Next]_vars PROVE NoFailureInv'
    OBVIOUS
  <2>1. CASE \E q \in Req : RequestStep(q)
    BY <2>1, NoFailureStays
  <2>2. CASE UNCHANGED vars
    BY <2>2 DEF vars, NoFailureInv, CreatedHasKey, ReviewShows, DecisionReadsReview,
       DecidedEventsAreReviewed, AboutToReview, Overridden
  <2>3. ~Crash
    BY DEF Crash
  <2> QED
    BY <2>1, <2>2, <2>3 DEF Next
<1> HIDE DEF P
<1>3. Spec => []P
  BY <1>1, <1>2, Invariance, PTL DEF Spec
<1> QED
  BY <1>3, PTL DEF P

\* When no call fails, the queue the front end shows tells the truth, for any
\* number of requests: what it lists can be reviewed, or soon is, or an override
\* put it there.
THEOREM QueueIsTrue == Spec => [](~Faults => QueueIsReviewable)
<1>1. IInv /\ (~Faults => NoFailureInv) => (~Faults => QueueIsReviewable)
  BY QueueFollows
<1> QED
  BY <1>1, Invariance, NoFailureInvariance, PTL

\* When no call fails, an approved or rejected event carries the document with
\* the verdict or with a late review's status, unless an override came.
THEOREM VerdictsAreReviewed == Spec => [](~Faults => DecidedEventsAreReviewed)
<1>1. (~Faults => NoFailureInv) => (~Faults => DecidedEventsAreReviewed)
  BY DEF NoFailureInv
<1> QED
  BY <1>1, NoFailureInvariance, PTL
=============================================================================
