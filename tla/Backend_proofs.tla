---------------------------- MODULE Backend_proofs ----------------------------
(***************************************************************************)
(* Proofs about the server process, for any number of transactions and     *)
(* requests, any client texts, any batch size and any number of deaths.    *)
(***************************************************************************)
EXTENDS Backend, Transactions_proofs, SequenceTheorems, FiniteSetTheorems

USE DEF Decision, MongoStatus, KeyStatus, EventType, Reviewed

-----------------------------------------------------------------------------
(***************************************************************************)
(* The inductive invariant: that of the endpoints, what they published,    *)
(* and the worker's.                                                       *)
(***************************************************************************)
\* What a client types: the status of a creation or of an override in flight.
Typing == Creating \cup {"status.publish"}

\* The documents in the events, those about to be published, and the overrides'
\* notifications are grounded.
DocumentsAreGrounded ==
  /\ \A i \in DOMAIN stream : Grounded(stream[i].tx, stream[i].status)
  /\ \A k \in DOMAIN notes : notes[k].status \in typed[notes[k].tx]
  /\ \A r \in Req : /\ at[r] \in Typing => job[r].want \in typed[job[r].tx]
                    /\ at[r] = "decide.publish" => Grounded(job[r].tx, job[r].seen)

PublishedInv ==
  /\ AckedCreateIsPublished
  /\ NotifyIsPublished
  /\ ~Faults => AckedIsPublished

\* The worker holds the rest of a batch: an interval of what was delivered, no
\* longer than a batch.
Held == batch["server"]

WorkerHoldsRest ==
  /\ delivered \in Nat /\ delivered <= Len(stream)
  /\ worker \in [{"server"} -> {"down", "read", "process", "ack"}]
  /\ batch \in [{"server"} -> SUBSET Nat]
  /\ \E a \in 1..(delivered + 1), b \in 0..delivered : Held = a..b /\ b < a + BatchSize
  /\ worker["server"] \in {"process", "ack"} <=> Held # {}

\* The document of an event, as its notification carries it.
Document(e) == [tx |-> e.tx, status |-> e.status]

Sent == [src : Nat, by : {"server"}, copy : BOOLEAN,
         note : [type : {"transaction.pending"}, data : [tx : Tx, status : MongoStatus]]]

\* The document a notification carries.
Carried(k) == sent[k].note.data

\* It is that of its event.
NotificationsCarryDocuments ==
  /\ sent \in Seq(Sent)
  /\ \A k \in DOMAIN sent : /\ sent[k].src \in 1..delivered
                            /\ Carried(k) = Document(stream[sent[k].src])

\* Without failures what was delivered is pending until it is notified.
NothingIsDropped ==
  /\ \A i \in 1..delivered : i \in pel \/ W!Notified(i)
  /\ worker["server"] = "ack" => W!Notified(W!Current("server"))

\* What no worker announces any more.
Gone == {i \in 1..delivered : Lost(i)}

\* The endpoints' half of the invariant, and the worker's.
EndpointInv ==
  /\ IInv
  /\ DocumentsAreGrounded
  /\ PublishedInv
  /\ deaths = 0 /\ ~Faults => NoFailureInv
  /\ deaths \in Nat

WorkerInv ==
  /\ WorkerHoldsRest
  /\ NotificationsCarryDocuments
  /\ ~Faults => NothingIsDropped

BInv ==
  /\ EndpointInv
  /\ WorkerInv
  /\ ~Faults => DeathCostsOneBatch

-----------------------------------------------------------------------------
(***************************************************************************)
(* The endpoints' statuses are grounded.                                   *)
(***************************************************************************)
\* What a client has typed is not forgotten.
LEMMA TypedStays ==
  ASSUME IInv, NEW q \in Req, RequestStep(q), NEW t \in Tx
  PROVE  typed[t] \subseteq typed'[t]
<1>1. typed \in [Tx -> SUBSET ClientStatus]
  BY DEF IInv, TypeOK
<1>2. CASE \E u \in Tx, s \in ClientStatus : Store(u, s)
  BY <1>1, <1>2 DEF Store
<1>3. CASE UNCHANGED typed
  BY <1>3
<1>4. (\E u \in Tx, s \in ClientStatus : Store(u, s)) \/ UNCHANGED typed
  BY DEF RequestStep, Arrive, CreateInsert, StatusWrite, ReviewCas, DecideCas, DatabaseStep,
     CreateKey, CreatePublish, ReviewLoad, ReviewPublish, DecideWrite, DecideLoad, DecidePublish,
     StatusPublish, ReviewWrite, DecideNotify, HandlerError, DriverResend, stores
<1> QED
  BY <1>2, <1>3, <1>4

\* A status once grounded stays so: keys go forward.
LEMMA GroundedStays ==
  ASSUME IInv, NEW q \in Req, RequestStep(q), NEW t \in Tx, NEW s, Grounded(t, s)
  PROVE  Grounded(t, s)'
BY KeyChanges, TypedStays DEF Grounded

\* How a request comes to publish a text, or what it has read back.
LEMMA JobChanges ==
  ASSUME IInv, NEW q \in Req, RequestStep(q), NEW r \in Req
  PROVE  /\ at'[r] \in Typing =>
              \/ at[r] \in Typing /\ job'[r] = job[r]
              \/ \E t \in Tx, s \in ClientStatus :
                   Store(t, s) /\ job'[r].tx = t /\ job'[r].want = s
         /\ at'[r] = "decide.publish" => \/ at[r] = "decide.publish" /\ job'[r] = job[r]
                                         \/ r = q /\ DecideLoad(q)
<1>1. at \in [Req -> Stage] /\ job \in [Req -> Job]
  BY DEF IInv, TypeOK
<1> USE <1>1 DEF Begin, Goto, Finish, Answer, Creating, Typing
<1>2. CASE \E t \in Tx, s \in ClientStatus : CreateInsert(q, t, s) \/ StatusWrite(q, t, s)
  <2>1. PICK t \in Tx, s \in ClientStatus : CreateInsert(q, t, s) \/ StatusWrite(q, t, s)
    BY <1>2
  <2>2. Store(t, s) /\ at'[q] # "decide.publish"
    BY <2>1 DEF CreateInsert, StatusWrite
  <2>3. job'[q].tx = t /\ job'[q].want = s
    BY <2>1 DEF CreateInsert, StatusWrite
  <2>4. r # q => at'[r] = at[r] /\ job'[r] = job[r]
    BY <2>1 DEF CreateInsert, StatusWrite
  <2> QED
    BY <2>2, <2>3, <2>4
<1>3. CASE \E t \in Tx : ReviewCas(q, t) \/ \E v \in Decision : DecideCas(q, t, v)
  BY <1>3 DEF ReviewCas, DecideCas
<1>4. CASE CreateKey(q)
  BY <1>4 DEF CreateKey
<1>5. CASE CreatePublish(q) \/ ReviewPublish(q) \/ DecideNotify(q) \/ StatusPublish(q)
  BY <1>5 DEF CreatePublish, ReviewPublish, DecideNotify, StatusPublish
<1>6. CASE ReviewLoad(q) \/ ReviewWrite(q) \/ DecideWrite(q) \/ DecidePublish(q)
  BY <1>6 DEF ReviewLoad, ReviewWrite, DecideWrite, DecidePublish
<1>7. CASE DecideLoad(q)
  BY <1>7 DEF DecideLoad
<1>8. CASE HandlerError(q)
  BY <1>8 DEF HandlerError
<1>9. CASE DriverResend(q)
  BY <1>9 DEF DriverResend
<1> QED
  BY <1>2, <1>3, <1>4, <1>5, <1>6, <1>7, <1>8, <1>9 DEF RequestStep, DatabaseStep, Arrive

\* The document a request is about to publish is grounded.
LEMMA PublishedIsGrounded ==
  ASSUME IInv, DocumentsAreGrounded, NEW r \in Req, at[r] \in Publishing
  PROVE  /\ EventOf(r) \in Event
         /\ Grounded(EventOf(r).tx, EventOf(r).status)
<1>1. EventOf(r) \in Event
  BY EventIsReached
<1>2. ASSUME NEW t \in Tx, NEW s, t = job[r].tx, s = EventOf(r).status PROVE Grounded(t, s)
  <2>1. CASE at[r] = "create.publish"
    <3>1. s = job[r].want
      BY <1>2, <2>1, Zenon DEF EventOf
    <3> QED
      BY <1>2, <2>1, <3>1 DEF Grounded, DocumentsAreGrounded, Typing, Creating
  <2>2. CASE at[r] = "review.publish"
    <3>1. s = "review"
      BY <1>2, <2>2, Zenon DEF EventOf
    <3> QED
      BY <1>2, <2>2, <3>1 DEF Grounded, IInv, RequestsFollowKey, Reviewing
  <2>3. CASE at[r] = "decide.publish"
    <3>1. s = job[r].seen
      BY <1>2, <2>3, Zenon DEF EventOf
    <3> QED
      BY <1>2, <2>3, <3>1 DEF DocumentsAreGrounded
  <2> QED
    BY <2>1, <2>2, <2>3 DEF Publishing
<1>3. EventOf(r).tx = job[r].tx /\ job[r].tx \in Tx
  <2>1. EventOf(r).tx = job[r].tx
    BY Zenon DEF EventOf
  <2>2. at[r] # "idle"
    BY DEF Publishing
  <2> QED
    BY <2>1, <2>2 DEF IInv, RequestsFollowKey
<1> QED
  BY <1>1, <1>2, <1>3

\* An override more: its notification is what its client typed.
LEMMA NotesStayTyped ==
  ASSUME IInv, DocumentsAreGrounded, NEW q \in Req, RequestStep(q)
  PROVE  \A k \in DOMAIN notes' : notes'[k].status \in typed'[notes'[k].tx]
<1> DEFINE n == [tx |-> job[q].tx, status |-> job[q].want]
<1>1. notes \in Seq(Override)
  BY DEF IInv, TypeOK
<1>2. \A k \in DOMAIN notes : notes[k] \in Override
  BY <1>1, ElementOfSeq, LenProperties
<1>3. ASSUME NEW k \in DOMAIN notes PROVE notes[k].status \in typed'[notes[k].tx]
  <2>1. notes[k].tx \in Tx
    BY <1>2 DEF Override
  <2> QED
    BY <2>1, TypedStays DEF DocumentsAreGrounded
<1>4. UNCHANGED notes \/ (at[q] = "status.publish" /\ Notify(q) /\ UNCHANGED typed)
  BY DEF RequestStep, Arrive, CreateInsert, StatusWrite, ReviewCas, DecideCas, DatabaseStep,
     CreateKey, CreatePublish, ReviewLoad, ReviewPublish, DecideWrite, DecideLoad, DecidePublish,
     StatusPublish, ReviewWrite, DecideNotify, HandlerError, DriverResend, stores
<1>5. CASE at[q] = "status.publish" /\ Notify(q) /\ UNCHANGED typed
  <2>1. n \in Override
    BY <1>5 DEF IInv, RequestsFollowKey, Override
  <2>2. n.status \in typed'[n.tx]
    BY <1>5 DEF DocumentsAreGrounded, Typing
  <2>3. notes' = Append(notes, n)
    BY <1>5 DEF Notify
  <2> HIDE DEF n
  <2>4. /\ DOMAIN notes' = 1..(Len(notes) + 1)
        /\ DOMAIN notes = 1..Len(notes)
        /\ \A k \in 1..Len(notes) : notes'[k] = notes[k]
        /\ notes'[Len(notes) + 1] = n
        /\ Len(notes) \in Nat
    BY <1>1, <2>1, <2>3, AppendProperties, LenProperties
  <2>5. \A k \in DOMAIN notes' : k \in DOMAIN notes \/ k = Len(notes) + 1
    BY <2>4
  <2> QED
    BY <1>3, <2>2, <2>4, <2>5
<1> QED
  BY <1>3, <1>4, <1>5

\* One step of a request keeps documents grounded, whatever fails.
LEMMA DocumentsStayGrounded ==
  ASSUME IInv, DocumentsAreGrounded, NEW q \in Req, RequestStep(q)
  PROVE  DocumentsAreGrounded'
<1>1. IInv'
  BY StepKeepsIInv DEF Next
<1>2. ASSUME NEW i \in DOMAIN stream', NEW t \in Tx, NEW s, t = stream'[i].tx, s = stream'[i].status
      PROVE  Grounded(t, s)'
  <2>1. CASE i \in DOMAIN stream /\ stream'[i] = stream[i]
    BY <1>2, <2>1, GroundedStays DEF DocumentsAreGrounded
  <2>2. CASE \E r \in Req : at[r] \in Publishing /\ stream'[i] = EventOf(r)
    BY <1>2, <2>2, PublishedIsGrounded, GroundedStays
  <2>3. [Next]_vars /\ stream \in Seq(Event)
    BY DEF Next, IInv, TypeOK
  <2>4. CASE stream' = stream
    BY <1>2, <2>1, <2>4
  <2>5. CASE \E r \in Req : at[r] \in Publishing /\ stream' = Append(stream, EventOf(r))
    <3>1. PICK r \in Req : at[r] \in Publishing /\ stream' = Append(stream, EventOf(r))
      BY <2>5
    <3>2. PICK e \in Event : e = EventOf(r)
      BY <3>1, EventIsReached
    <3>3. (i \in DOMAIN stream /\ stream'[i] = stream[i]) \/ stream'[i] = e
      BY <1>2, <2>3, <3>1, <3>2, AppendEvent
    <3> QED
      BY <2>1, <2>2, <3>1, <3>2, <3>3
  <2> QED
    BY <2>3, <2>4, <2>5, StreamGrows
<1>3. ASSUME NEW r \in Req, at'[r] \in Typing PROVE job'[r].want \in typed'[job'[r].tx]
  <2>1. CASE at[r] \in Typing /\ job'[r] = job[r]
    <3>1. job[r].tx \in Tx
      BY <2>1 DEF IInv, RequestsFollowKey, Typing, Creating
    <3>2. typed[job[r].tx] \subseteq typed'[job[r].tx]
      BY <3>1, TypedStays
    <3> QED
      BY <2>1, <3>2 DEF DocumentsAreGrounded
  <2>2. CASE \E t \in Tx, s \in ClientStatus :
               Store(t, s) /\ job'[r].tx = t /\ job'[r].want = s
    <3>1. PICK t \in Tx, s \in ClientStatus :
            Store(t, s) /\ job'[r].tx = t /\ job'[r].want = s
      BY <2>2
    <3>2. s \in typed'[t]
      BY <3>1 DEF Store, IInv, TypeOK
    <3> QED
      BY <3>1, <3>2
  <2> QED
    BY <1>3, <2>1, <2>2, JobChanges
<1>4. ASSUME NEW r \in Req, at'[r] = "decide.publish", NEW t \in Tx, NEW s,
             t = job'[r].tx, s = job'[r].seen
      PROVE  Grounded(t, s)'
  <2>1. CASE at[r] = "decide.publish" /\ job'[r] = job[r]
    BY <1>4, <2>1, GroundedStays DEF DocumentsAreGrounded
  <2>2. CASE r = q /\ DecideLoad(q)
    <3>1. t = job[q].tx /\ s = doc[t] /\ doc[t] # None
      BY <1>4, <2>2 DEF DecideLoad, IInv, TypeOK, Job
    <3>2. Grounded(t, s)
      BY <3>1 DEF IInv, MongoNeverAhead
    <3> QED
      BY <3>2, GroundedStays
  <2> QED
    BY <1>4, <2>1, <2>2, JobChanges
<1>5. /\ \A i \in DOMAIN stream' : stream'[i].tx \in Tx
      /\ \A r \in Req : at'[r] = "decide.publish" => job'[r].tx \in Tx
  <2>1. stream' \in Seq(Event) /\ RequestsFollowKey'
    BY <1>1 DEF IInv, TypeOK
  <2> QED
    BY <2>1, EventsAreTyped DEF RequestsFollowKey
<1>6. \A i \in DOMAIN stream' : Grounded(stream[i].tx, stream[i].status)'
  BY <1>2, <1>5 DEF Grounded
<1>7. \A r \in Req : at'[r] = "decide.publish" => Grounded(job[r].tx, job[r].seen)'
  BY <1>4, <1>5 DEF Grounded
<1> QED
  BY <1>3, <1>6, <1>7, NotesStayTyped DEF DocumentsAreGrounded

\* The events are typed, one by one.
LEMMA StreamIsTyped ==
  ASSUME IInv
  PROVE  /\ Len(stream) \in Nat
         /\ DOMAIN stream = 1..Len(stream)
         /\ \A i \in DOMAIN stream : stream[i] \in Event
<1>1. stream \in Seq(Event)
  BY DEF IInv, TypeOK
<1> QED
  BY <1>1, LenProperties, ElementOfSeq

\* The stream is only appended to: what the worker has read stays what it was.
LEMMA StreamStays ==
  ASSUME IInv, [Next]_vars
  PROVE  /\ Len(stream) <= Len(stream')
         /\ \A i \in 1..Len(stream) : stream'[i] = stream[i]
<1>1. stream \in Seq(Event)
  BY DEF IInv, TypeOK
<1>2. CASE \E r \in Req : at[r] \in Publishing /\ stream' = Append(stream, EventOf(r))
  <2>1. PICK r \in Req : at[r] \in Publishing /\ stream' = Append(stream, EventOf(r))
    BY <1>2
  <2>2. EventOf(r) \in Event
    BY <2>1, EventIsReached
  <2>3. /\ Len(stream') = Len(stream) + 1
        /\ \A i \in 1..Len(stream) : stream'[i] = stream[i]
    BY <1>1, <2>1, <2>2, AppendProperties
  <2> QED
    BY <2>3, StreamIsTyped
<1>3. CASE UNCHANGED stream
  BY <1>3, StreamIsTyped
<1> QED
  BY <1>2, <1>3, StreamGrows

-----------------------------------------------------------------------------
(***************************************************************************)
(* What the three kinds of steps do to the endpoints' half.                *)
(***************************************************************************)
\* A request's step.
LEMMA ServeKeepsEndpoints == EndpointInv /\ Serve => EndpointInv'
<1> SUFFICES ASSUME EndpointInv, Serve PROVE EndpointInv'
  OBVIOUS
<1>1. PICK q \in Req : RequestStep(q)
  BY DEF Serve
<1>2. [Next]_vars
  BY <1>1 DEF Next
<1>3. IInv'
  BY <1>2, StepKeepsIInv DEF EndpointInv
<1>4. DocumentsAreGrounded'
  BY <1>1, DocumentsStayGrounded DEF EndpointInv
<1>5. PublishedInv'
  BY <1>2, StepKeepsPublished DEF EndpointInv, PublishedInv
<1>6. UNCHANGED deaths
  BY DEF Serve
<1>7. (deaths = 0 /\ ~Faults => NoFailureInv)'
  BY <1>1, <1>6, NoFailureStays DEF EndpointInv
<1> QED
  BY <1>3, <1>4, <1>5, <1>6, <1>7 DEF EndpointInv

\* The worker's steps leave it alone.
LEMMA WorkKeepsEndpoints == EndpointInv /\ UNCHANGED <<vars, deaths>> => EndpointInv'
<1> SUFFICES ASSUME EndpointInv, UNCHANGED vars, UNCHANGED deaths PROVE EndpointInv'
  OBVIOUS
<1>1. IInv'
  BY StepKeepsIInv DEF EndpointInv
<1>2. PublishedInv'
  BY StepKeepsPublished DEF EndpointInv, PublishedInv
<1>3. DocumentsAreGrounded'
  BY DEF EndpointInv, DocumentsAreGrounded, Grounded, vars
<1>4. NoFailureInv => NoFailureInv'
  BY DEF NoFailureInv, CreatedHasKey, ReviewShows, AboutToReview, DecisionReadsReview,
         DecidedEventsAreReviewed, Overridden, vars
<1> QED
  BY <1>1, <1>2, <1>3, <1>4 DEF EndpointInv

\* Nor does a death lose anything a database holds.
LEMMA DeathKeepsEndpoints == EndpointInv /\ ProcessDies => EndpointInv'
<1> SUFFICES ASSUME EndpointInv, ProcessDies PROVE EndpointInv'
  OBVIOUS
<1> USE DEF ProcessDies
<1>1. IInv'
  BY DeathKeeps DEF EndpointInv
<1>2. DocumentsAreGrounded'
  BY DEF EndpointInv, DocumentsAreGrounded, Grounded, stores, Typing, Creating
<1>3. PublishedInv'
  BY DEF EndpointInv, PublishedInv, AckedCreateIsPublished, NotifyIsPublished,
         AckedIsPublished, Published, stores
<1>4. deaths' \in Nat /\ deaths' # 0
  BY DEF EndpointInv
<1> QED
  BY <1>1, <1>2, <1>3, <1>4 DEF EndpointInv

-----------------------------------------------------------------------------
(***************************************************************************)
(* The worker's steps, in the terms of this process.                       *)
(***************************************************************************)
\* The worker's log is as long as the stream.
LEMMA LogLength ==
  ASSUME NEW s \in Seq(Event)
  PROVE  Len([i \in DOMAIN s |-> Fields(s[i])]) = Len(s)
OBVIOUS

\* The steps of the one worker; nothing else appends to its log, and its
\* process dies with the requests only.
LEMMA WorkSteps ==
  ASSUME Work
  PROVE  /\ UNCHANGED <<vars, deaths>>
         /\ \/ W!Start("server") \/ W!ReadGroup("server") \/ W!ReadLost("server")
            \/ W!Process("server") \/ W!DriverResend("server") \/ W!Ack("server")
BY DEF Work, W!Next, W!Step, W!Crash

\* The first position of an interval.
LEMMA MinOfInterval ==
  ASSUME NEW a \in Nat, NEW b \in Nat, a <= b
  PROVE  W!Min(a..b) = a
BY DEF W!Min

\* The last position of an interval.
LEMMA MaxOfInterval ==
  ASSUME NEW a \in Nat, NEW b \in Nat, a <= b
  PROVE  W!Max(a..b) = b
BY DEF W!Max

\* The smaller of two bounds.
LEMMA MinOfTwo ==
  ASSUME NEW a \in Nat, NEW b \in Nat
  PROVE  W!Min({a, b}) = IF a <= b THEN a ELSE b
BY DEF W!Min

\* XREADGROUP hands out the entries that follow the last one delivered.
LEMMA DeliverFollows ==
  ASSUME IInv, WorkerHoldsRest, W!Deliver("server")
  PROVE  /\ delivered' \in Nat
         /\ delivered < delivered'
         /\ delivered' <= Len(stream)
         /\ delivered' <= delivered + BatchSize
         /\ W!NextBatch = (delivered + 1)..delivered'
         /\ pel' = pel \cup W!NextBatch
         /\ sent' = sent
         /\ worker["server"] = "read"
<1> DEFINE last == W!Min({delivered + BatchSize, Len(stream)})
<1>1. /\ delivered \in Nat
      /\ Len(stream) \in Nat
      /\ delivered + BatchSize \in Nat
  BY BackendAssumption, StreamIsTyped DEF WorkerHoldsRest
<1>2. last \in Nat /\ last <= Len(stream) /\ last <= delivered + BatchSize
  BY <1>1, MinOfTwo
<1>3. stream \in Seq(Event)
  BY DEF IInv, TypeOK
<1>4. W!NextBatch = (delivered + 1)..last
  BY <1>3, LogLength DEF W!NextBatch
<1> HIDE DEF last
<1>5. delivered + 1 <= last
  BY <1>1, <1>2, <1>4 DEF W!Deliver
<1>6. delivered' = last
  BY <1>1, <1>2, <1>4, <1>5, MaxOfInterval DEF W!Deliver
<1> QED
  BY <1>1, <1>2, <1>4, <1>5, <1>6 DEF W!Deliver

\* A busy worker's current entry is the first of those it holds, and when it is
\* done with it the rest is an interval again.
LEMMA CurrentIsFirst ==
  ASSUME WorkerHoldsRest, worker["server"] \in {"process", "ack"}
  PROVE  /\ W!Current("server") \in 1..delivered
         /\ \E a \in 1..(delivered + 1), b \in 0..delivered :
              Held \ {W!Current("server")} = a..b /\ b < a + BatchSize
<1>1. delivered \in Nat /\ BatchSize \in Nat
  BY BackendAssumption DEF WorkerHoldsRest
<1>2. PICK a \in 1..(delivered + 1), b \in 0..delivered : Held = a..b /\ b < a + BatchSize
  BY DEF WorkerHoldsRest
<1>3. a <= b
  BY <1>1, <1>2 DEF WorkerHoldsRest
<1>4. W!Current("server") = a
  BY <1>1, <1>2, <1>3, MinOfInterval DEF W!Current, Held
<1>5. Held \ {a} = (a + 1)..b
  BY <1>1, <1>2
<1>6. a + 1 \in 1..(delivered + 1) /\ b < (a + 1) + BatchSize
  BY <1>1, <1>2, <1>3
<1> QED
  BY <1>1, <1>2, <1>3, <1>4, <1>5, <1>6

\* worker.go:247: the notification of an event carries its document, since no
\* document is an absent field.
LEMMA NotificationCarries ==
  ASSUME NEW e \in Event
  PROVE  W!NotificationOf(Fields(e)) = [type |-> "transaction.pending", data |-> Document(e)]
<1>1. Fields(e).data = Document(e)
  BY DEF Fields, Document
<1>2. Document(e) # None
  BY BackendAssumption DEF Document, Event
<1> QED
  BY <1>1, <1>2, Zenon DEF W!NotificationOf

\* What the worker appends to the notification stream.
LEMMA NotifyAppends ==
  ASSUME IInv, WorkerHoldsRest, worker["server"] = "process",
         NEW copy \in BOOLEAN, W!Notify("server", copy)
  PROVE  \E n \in Sent : /\ sent' = Append(sent, n)
                         /\ n.src = W!Current("server")
                         /\ n.note.data = Document(stream[n.src])
<1>1. PICK c \in 1..delivered : c = W!Current("server")
  BY CurrentIsFirst
<1>2. c \in DOMAIN stream /\ stream[c] \in Event /\ c \in Nat
  BY <1>1, StreamIsTyped DEF WorkerHoldsRest
<1>3. PICK e \in Event : e = stream[c]
  BY <1>2
<1>4. [i \in DOMAIN stream |-> Fields(stream[i])][c] = Fields(e)
  BY <1>2, <1>3
<1>5. sent' = Append(sent, [src |-> c, by |-> "server", copy |-> copy,
                            note |-> W!NotificationOf(Fields(e))])
  BY <1>1, <1>4 DEF W!Notify
<1>6. PICK n : n = [src |-> c, by |-> "server", copy |-> copy,
                    note |-> [type |-> "transaction.pending", data |-> Document(e)]]
  OBVIOUS
<1>7. n \in Sent
  BY <1>2, <1>6 DEF Sent, Document, Event
<1>8. sent' = Append(sent, n)
  BY <1>5, <1>6, NotificationCarries
<1>9. n.src = c /\ n.note.data = Document(e)
  BY <1>6
<1> QED
  BY <1>1, <1>3, <1>7, <1>8, <1>9

\* A notification more keeps the documents, and its entry is notified.
LEMMA AppendKeepsDocuments ==
  ASSUME WorkerHoldsRest, NotificationsCarryDocuments, UNCHANGED <<stream, delivered>>,
         NEW n \in Sent, sent' = Append(sent, n), n.src \in 1..delivered,
         n.note.data = Document(stream[n.src])
  PROVE  /\ NotificationsCarryDocuments'
         /\ W!Notified(n.src)'
         /\ \A i : W!Notified(i) => W!Notified(i)'
<1>1. sent \in Seq(Sent)
  BY DEF NotificationsCarryDocuments
<1>2. /\ sent' \in Seq(Sent)
      /\ DOMAIN sent' = 1..(Len(sent) + 1)
      /\ DOMAIN sent = 1..Len(sent)
      /\ \A k \in 1..Len(sent) : sent'[k] = sent[k]
      /\ sent'[Len(sent) + 1] = n
      /\ Len(sent) \in Nat
  BY <1>1, AppendProperties, LenProperties
<1>3. ASSUME NEW k \in DOMAIN sent'
      PROVE  /\ sent'[k].src \in 1..delivered
             /\ sent'[k].note.data = Document(stream[sent'[k].src])
  <2>1. CASE k \in DOMAIN sent
    BY <1>2, <2>1 DEF NotificationsCarryDocuments, Carried
  <2>2. CASE k = Len(sent) + 1
    BY <1>2, <2>2
  <2> QED
    BY <1>2, <1>3, <2>1, <2>2
<1>4. W!Notified(n.src)'
  BY <1>2 DEF W!Notified
<1>5. ASSUME NEW i, W!Notified(i) PROVE W!Notified(i)'
  <2>1. PICK k \in DOMAIN sent : sent[k].src = i
    BY <1>5 DEF W!Notified
  <2>2. k \in DOMAIN sent' /\ sent'[k].src = i
    BY <1>2, <2>1
  <2> QED
    BY <2>2 DEF W!Notified
<1> QED
  BY <1>2, <1>3, <1>4, <1>5 DEF NotificationsCarryDocuments, Carried, Document

\* More delivered, nothing more notified.
LEMMA DeliverKeepsDocuments ==
  ASSUME NotificationsCarryDocuments, delivered \in Nat, delivered' \in Nat,
         delivered <= delivered', UNCHANGED <<stream, sent>>
  PROVE  NotificationsCarryDocuments'
BY DEF NotificationsCarryDocuments, Carried, Document

\* The worker starts, or fails to create its group.
LEMMA StartKeeps ==
  ASSUME IInv, WorkerInv, UNCHANGED stream, W!Start("server")
  PROVE  WorkerInv'
<1> USE DEF W!Start
<1>1. WorkerHoldsRest'
  BY DEF WorkerInv, WorkerHoldsRest, Held
<1>2. NotificationsCarryDocuments'
  BY DEF WorkerInv, NotificationsCarryDocuments, Carried, Document
<1>3. NothingIsDropped => NothingIsDropped'
  BY DEF WorkerInv, WorkerHoldsRest, NothingIsDropped, W!Notified
<1> QED
  BY <1>1, <1>2, <1>3 DEF WorkerInv

\* Positions within what was delivered stay within it.
LEMMA Widen ==
  ASSUME NEW d \in Nat, NEW e \in Nat, d < e
  PROVE  /\ \A a \in 1..(d + 1) : a \in 1..(e + 1)
         /\ \A b \in 0..d : b \in 0..e
         /\ d + 1 \in 1..(e + 1)
         /\ e \in 0..e
         /\ (d + 1)..e # {}
         /\ \A n \in Nat : e <= d + n => e < (d + 1) + n
OBVIOUS

\* A delivery, whether the reply arrives or is lost.
LEMMA DeliverKeeps ==
  ASSUME IInv, WorkerInv, UNCHANGED stream,
         W!ReadGroup("server") \/ W!ReadLost("server")
  PROVE  WorkerInv'
<1>1. W!Deliver("server")
  BY DEF W!ReadGroup, W!ReadLost
<1>2. /\ delivered \in Nat /\ delivered' \in Nat
      /\ delivered < delivered' /\ delivered' <= Len(stream)
      /\ delivered' <= delivered + BatchSize
      /\ W!NextBatch = (delivered + 1)..delivered'
      /\ pel' = pel \cup W!NextBatch
      /\ sent' = sent
      /\ worker["server"] = "read"
  BY <1>1, DeliverFollows DEF WorkerInv, WorkerHoldsRest
<1>3. worker["server"] = "read" /\ Held = {}
  BY <1>2 DEF WorkerInv, WorkerHoldsRest
<1>4. WorkerHoldsRest'
  <2>1. CASE W!ReadGroup("server")
    <3>1. /\ worker' = [worker EXCEPT !["server"] = "process"]
          /\ batch' = [batch EXCEPT !["server"] = (delivered + 1)..delivered']
      BY <1>2, <2>1 DEF W!ReadGroup
    <3>2. /\ worker' \in [{"server"} -> {"down", "read", "process", "ack"}]
          /\ worker'["server"] = "process"
          /\ batch' \in [{"server"} -> SUBSET Nat]
          /\ batch'["server"] = (delivered + 1)..delivered'
      BY <1>2, <3>1 DEF WorkerInv, WorkerHoldsRest
    <3>3. /\ delivered + 1 \in 1..(delivered' + 1)
          /\ delivered' \in 0..delivered'
          /\ (delivered + 1)..delivered' # {}
          /\ delivered' < (delivered + 1) + BatchSize
      BY <1>2, Widen, BackendAssumption
    <3> QED
      BY <1>2, <3>2, <3>3 DEF WorkerHoldsRest, Held
  <2>2. CASE W!ReadLost("server")
    <3>1. worker' = worker /\ batch' = batch
      BY <2>2 DEF W!ReadLost
    <3>2. PICK a \in 1..(delivered + 1), b \in 0..delivered :
            Held = a..b /\ b < a + BatchSize
      BY DEF WorkerInv, WorkerHoldsRest
    <3>3. a \in 1..(delivered' + 1) /\ b \in 0..delivered'
      BY <1>2, Widen
    <3> QED
      BY <1>2, <3>1, <3>2, <3>3 DEF WorkerInv, WorkerHoldsRest, Held
  <2> QED
    BY <2>1, <2>2
<1>5. NotificationsCarryDocuments'
  BY <1>2, DeliverKeepsDocuments DEF WorkerInv
<1>6. ~Faults /\ NothingIsDropped => NothingIsDropped'
  <2> SUFFICES ASSUME ~Faults, NothingIsDropped PROVE NothingIsDropped'
    OBVIOUS
  <2>1. ASSUME NEW i \in 1..delivered' PROVE i \in pel' \/ W!Notified(i)'
    <3>1. i \in 1..delivered \/ i \in (delivered + 1)..delivered'
      BY <1>2
    <3> QED
      BY <1>2, <3>1 DEF NothingIsDropped, W!Notified
  <2>2. worker'["server"] = "process"
    BY DEF W!ReadGroup, W!ReadLost, WorkerInv, WorkerHoldsRest
  <2> QED
    BY <2>1, <2>2 DEF NothingIsDropped
<1> QED
  BY <1>4, <1>5, <1>6 DEF WorkerInv

\* A notification, the driver's first attempt at one, or a failed one.
LEMMA ProcessKeeps ==
  ASSUME IInv, WorkerInv, UNCHANGED stream,
         W!Process("server") \/ W!DriverResend("server")
  PROVE  WorkerInv'
<1> USE DEF WorkerInv
<1>1. /\ worker["server"] = "process"
      /\ UNCHANGED <<delivered, pel, batch>>
      /\ worker' = worker \/ worker' = [worker EXCEPT !["server"] = "ack"]
  BY DEF W!Process, W!DriverResend
<1>2. WorkerHoldsRest'
  BY <1>1 DEF WorkerHoldsRest, Held
<1>3. W!Current("server") \in 1..delivered /\ UNCHANGED W!Current("server")
  BY <1>1, CurrentIsFirst DEF W!Current
<1>4. CASE \E copy \in BOOLEAN : W!Notify("server", copy)
  <2>1. PICK n \in Sent : /\ sent' = Append(sent, n)
                          /\ n.src = W!Current("server")
                          /\ n.note.data = Document(stream[n.src])
    BY <1>1, <1>4, NotifyAppends
  <2>2. /\ NotificationsCarryDocuments'
        /\ W!Notified(n.src)'
        /\ \A i : W!Notified(i) => W!Notified(i)'
    BY <1>1, <1>3, <2>1, AppendKeepsDocuments
  <2>3. NothingIsDropped => NothingIsDropped'
    BY <1>1, <1>3, <2>1, <2>2 DEF NothingIsDropped
  <2> QED
    BY <1>2, <2>2, <2>3
<1>5. CASE Faults /\ UNCHANGED sent
  BY <1>1, <1>2, <1>5 DEF NotificationsCarryDocuments, Carried, Document
<1> QED
  BY <1>4, <1>5 DEF W!Process, W!DriverResend

\* An acknowledgement, or a failed one.
LEMMA AckKeeps ==
  ASSUME IInv, WorkerInv, UNCHANGED stream, W!Ack("server")
  PROVE  WorkerInv'
<1> DEFINE c == W!Current("server")
<1>1. /\ worker["server"] = "ack"
      /\ UNCHANGED <<delivered, sent>>
      /\ pel' = pel \ {c} \/ Faults
      /\ batch' = [batch EXCEPT !["server"] = batch["server"] \ {c}]
      /\ worker' = [worker EXCEPT !["server"] =
                      IF batch["server"] = {c} THEN "read" ELSE "process"]
  BY DEF W!Ack
<1>2. PICK a \in 1..(delivered + 1), b \in 0..delivered :
        Held \ {c} = a..b /\ b < a + BatchSize
  BY <1>1, CurrentIsFirst DEF WorkerInv
<1> HIDE DEF c
<1>3. WorkerHoldsRest'
  <2>1. /\ batch' \in [{"server"} -> SUBSET Nat]
        /\ batch'["server"] = Held \ {c}
        /\ worker' \in [{"server"} -> {"down", "read", "process", "ack"}]
        /\ worker'["server"] = IF Held = {c} THEN "read" ELSE "process"
    BY <1>1 DEF WorkerInv, WorkerHoldsRest, Held
  <2>2. Held # {}
    BY <1>1 DEF WorkerInv, WorkerHoldsRest
  <2>3. worker'["server"] \in {"process", "ack"} <=> Held \ {c} # {}
    BY <2>1, <2>2
  <2> QED
    BY <1>1, <1>2, <2>1, <2>3 DEF WorkerInv, WorkerHoldsRest, Held
<1>4. NotificationsCarryDocuments'
  BY <1>1 DEF WorkerInv, NotificationsCarryDocuments, Carried, Document
<1>5. ~Faults /\ NothingIsDropped => NothingIsDropped'
  <2> SUFFICES ASSUME ~Faults, NothingIsDropped PROVE NothingIsDropped'
    OBVIOUS
  <2>1. W!Notified(c)
    BY <1>1 DEF NothingIsDropped, c
  <2>2. worker'["server"] # "ack"
    BY <1>1 DEF WorkerInv, WorkerHoldsRest
  <2> QED
    BY <1>1, <2>1, <2>2 DEF NothingIsDropped, W!Notified
<1> QED
  BY <1>3, <1>4, <1>5 DEF WorkerInv

-----------------------------------------------------------------------------
(***************************************************************************)
(* What a death costs.                                                     *)
(***************************************************************************)
\* An entry is lost for good once no worker holds it and none has announced it.
LEMMA LostIsUnheld ==
  ASSUME NEW i
  PROVE  Lost(i) <=> i \in pel /\ i \notin Held /\ ~W!Notified(i)
BY DEF Lost, W!Stranded, Held

\* Nothing more lost, nothing more to pay.
LEMMA LessIsCheaper ==
  ASSUME NEW d \in Nat, NEW S \in SUBSET (1..d), NEW T \in SUBSET S,
         NEW n \in Nat, Cardinality(S) <= n
  PROVE  Cardinality(T) <= n
<1>1. IsFiniteSet(1..d)
  BY FS_Interval
<1>2. IsFiniteSet(S)
  BY <1>1, FS_Subset
<1>3. IsFiniteSet(T) /\ Cardinality(T) <= Cardinality(S)
  BY <1>2, FS_Subset
<1>4. Cardinality(S) \in Nat /\ Cardinality(T) \in Nat
  BY <1>2, <1>3, FS_CardinalityType
<1> QED
  BY <1>3, <1>4

\* One batch more lost costs one batch more.
LEMMA BatchCostsBatch ==
  ASSUME NEW d \in Nat, NEW S \in SUBSET (1..d), NEW n \in Nat, Cardinality(S) <= n,
         NEW a \in Nat, NEW b \in Nat, NEW k \in Nat, b < a + k,
         NEW T \in SUBSET (S \cup (a..b))
  PROVE  Cardinality(T) <= n + k
<1>1. IsFiniteSet(S)
  <2>1. IsFiniteSet(1..d)
    BY FS_Interval
  <2> QED
    BY <2>1, FS_Subset
<1>2. IsFiniteSet(a..b) /\ Cardinality(a..b) <= k
  <2>1. a \in Int /\ b \in Int
    OBVIOUS
  <2>2. IsFiniteSet(a..b) /\ Cardinality(a..b) = IF a > b THEN 0 ELSE b - a + 1
    BY <2>1, FS_Interval
  <2> QED
    BY <2>2
<1>3. /\ IsFiniteSet(S \cup (a..b))
      /\ Cardinality(S \cup (a..b)) = Cardinality(S) + Cardinality(a..b) - Cardinality(S \cap (a..b))
  BY <1>1, <1>2, FS_Union
<1>4. IsFiniteSet(S \cap (a..b))
  BY <1>1, FS_Subset
<1>5. IsFiniteSet(T) /\ Cardinality(T) <= Cardinality(S \cup (a..b))
  BY <1>3, FS_Subset
<1>6. /\ Cardinality(S) \in Nat /\ Cardinality(a..b) \in Nat
      /\ Cardinality(S \cap (a..b)) \in Nat /\ Cardinality(T) \in Nat
      /\ Cardinality(S \cup (a..b)) \in Nat
  BY <1>1, <1>2, <1>3, <1>4, <1>5, FS_CardinalityType
<1> QED
  BY <1>2, <1>3, <1>5, <1>6

\* A worker that lives loses nothing, unless a call fails.
LEMMA WorkLosesNothing ==
  ASSUME IInv, WorkerInv, Work, ~Faults
  PROVE  Gone' \subseteq Gone
<1>1. UNCHANGED stream
  BY WorkSteps DEF vars
<1>2. WorkerHoldsRest /\ NotificationsCarryDocuments
  BY DEF WorkerInv
<1>3. CASE W!Start("server")
  BY <1>3 DEF W!Start, Gone, Lost, W!Stranded, W!Notified
<1>4. CASE W!ReadGroup("server")
  <2>1. W!Deliver("server") /\ batch' = [batch EXCEPT !["server"] = W!NextBatch]
    BY <1>4 DEF W!ReadGroup
  <2>2. /\ W!NextBatch = (delivered + 1)..delivered'
        /\ pel' = pel \cup W!NextBatch
        /\ sent' = sent
        /\ worker["server"] = "read"
        /\ delivered \in Nat /\ delivered' \in Nat
    BY <1>2, <2>1, DeliverFollows DEF WorkerHoldsRest
  <2>3. Held = {} /\ batch'["server"] = W!NextBatch
    BY <1>2, <2>1, <2>2 DEF WorkerHoldsRest
  <2> QED
    BY <2>2, <2>3 DEF Gone, Lost, W!Stranded, W!Notified, Held
<1>5. CASE W!Process("server")
  <2>1. UNCHANGED <<delivered, pel, batch>> /\ W!Notify("server", FALSE)
        /\ worker["server"] = "process"
    BY <1>5 DEF W!Process
  <2>2. PICK n \in Sent : /\ sent' = Append(sent, n)
                          /\ n.src = W!Current("server")
                          /\ n.note.data = Document(stream[n.src])
    BY <1>2, <2>1, NotifyAppends
  <2>3. n.src \in 1..delivered
    BY <1>2, <2>1, <2>2, CurrentIsFirst
  <2>4. \A i : W!Notified(i) => W!Notified(i)'
    BY <1>1, <1>2, <2>1, <2>2, <2>3, AppendKeepsDocuments
  <2> QED
    BY <2>1, <2>4 DEF Gone, Lost, W!Stranded
<1>6. CASE W!Ack("server")
  BY <1>6 DEF W!Ack, Gone, Lost, W!Stranded, W!Notified
<1> QED
  BY <1>3, <1>4, <1>5, <1>6, WorkSteps DEF W!ReadLost, W!DriverResend

\* A death loses what the worker holds.
LEMMA DeathLosesBatch ==
  ASSUME ProcessDies
  PROVE  Gone' \subseteq Gone \cup Held
BY DEF ProcessDies, Gone, Lost, W!Stranded, W!Notified, Held

\* When nothing more is lost, a death costs what it did.
LEMMA CostStays ==
  ASSUME BInv, WorkerHoldsRest', Gone' \subseteq Gone, UNCHANGED deaths, DeathCostsOneBatch
  PROVE  DeathCostsOneBatch'
<1>1. /\ delivered \in Nat /\ deaths * BatchSize \in Nat
      /\ Gone \in SUBSET (1..delivered)
  BY BackendAssumption DEF BInv, EndpointInv, WorkerInv, WorkerHoldsRest, Gone
<1>2. Cardinality(Gone) <= deaths * BatchSize
  BY DEF DeathCostsOneBatch, Gone
<1>3. Cardinality(Gone') <= deaths * BatchSize
  BY <1>1, <1>2, LessIsCheaper
<1> QED
  BY <1>3 DEF DeathCostsOneBatch, Gone

-----------------------------------------------------------------------------
(***************************************************************************)
(* The three kinds of steps keep the invariant.                            *)
(***************************************************************************)
\* A worker's step.
LEMMA WorkKeeps ==
  ASSUME BInv, Work
  PROVE  BInv'
<1>1. EndpointInv'
  BY WorkSteps, WorkKeepsEndpoints DEF BInv
<1>2. WorkerInv'
  <2>1. IInv /\ WorkerInv
    BY DEF BInv, EndpointInv
  <2>2. UNCHANGED stream
    BY WorkSteps DEF vars
  <2> QED
    BY <2>1, <2>2, WorkSteps, StartKeeps, DeliverKeeps, ProcessKeeps, AckKeeps
<1>3. ~Faults /\ DeathCostsOneBatch => DeathCostsOneBatch'
  <2>1. IInv /\ WorkerInv /\ UNCHANGED deaths /\ WorkerHoldsRest'
    BY <1>2, WorkSteps DEF BInv, EndpointInv, WorkerInv
  <2> QED
    BY <2>1, WorkLosesNothing, CostStays
<1> QED
  BY <1>1, <1>2, <1>3 DEF BInv

\* A request's step: what the worker has read is not touched.
LEMMA ServeKeeps ==
  ASSUME BInv, Serve
  PROVE  BInv'
<1>1. EndpointInv'
  BY ServeKeepsEndpoints DEF BInv
<1>2. IInv /\ WorkerInv /\ IInv'
  BY <1>1 DEF BInv, EndpointInv
<1>3. UNCHANGED workerVars /\ [Next]_vars
  BY DEF Serve, Next
<1>4. /\ Len(stream) \in Nat /\ Len(stream') \in Nat
      /\ Len(stream) <= Len(stream')
      /\ \A i \in 1..Len(stream) : stream'[i] = stream[i]
  <2>1. stream' \in Seq(Event)
    BY <1>2 DEF IInv, TypeOK
  <2> QED
    BY <1>2, <1>3, <2>1, StreamStays, StreamIsTyped, LenProperties
<1>5. WorkerHoldsRest'
  <2>1. UNCHANGED <<delivered, worker, batch>>
    BY <1>3 DEF workerVars
  <2>2. delivered \in Nat /\ delivered <= Len(stream')
    BY <1>2, <1>4 DEF WorkerInv, WorkerHoldsRest
  <2> QED
    BY <1>2, <2>1, <2>2 DEF WorkerInv, WorkerHoldsRest, Held
<1>6. NotificationsCarryDocuments'
  <2>1. ASSUME NEW k \in DOMAIN sent PROVE stream'[sent[k].src] = stream[sent[k].src]
    <3>1. sent[k].src \in 1..delivered
      BY <1>2 DEF WorkerInv, NotificationsCarryDocuments
    <3>2. delivered \in Nat /\ delivered <= Len(stream)
      BY <1>2 DEF WorkerInv, WorkerHoldsRest
    <3> QED
      BY <1>4, <3>1, <3>2
  <2> QED
    BY <1>2, <1>3, <2>1
    DEF WorkerInv, NotificationsCarryDocuments, Carried, Document, workerVars
<1>7. NothingIsDropped => NothingIsDropped'
  BY <1>3 DEF NothingIsDropped, W!Notified, W!Current, workerVars
<1>8. DeathCostsOneBatch => DeathCostsOneBatch'
  BY <1>3 DEF Serve, DeathCostsOneBatch, Lost, W!Stranded, W!Notified, workerVars
<1> QED
  BY <1>1, <1>2, <1>5, <1>6, <1>7, <1>8 DEF BInv, WorkerInv

\* A death: the worker's batch is lost, what it had notified is not.
LEMMA DeathKeepsBoth ==
  ASSUME BInv, ProcessDies
  PROVE  BInv'
<1>1. EndpointInv'
  BY DeathKeepsEndpoints DEF BInv
<1>2. WorkerInv
  BY DEF BInv
<1>3. UNCHANGED <<stream, delivered, pel, sent>>
  BY DEF ProcessDies, stores
<1>4. worker'["server"] = "down" /\ batch'["server"] = {}
  BY DEF ProcessDies
<1>5. WorkerHoldsRest'
  <2>1. delivered \in Nat
    BY <1>2 DEF WorkerInv, WorkerHoldsRest
  <2>2. 1 \in 1..(delivered + 1) /\ 0 \in 0..delivered /\ {} = 1..0 /\ 0 < 1 + BatchSize
    BY <2>1, BackendAssumption
  <2> QED
    BY <1>2, <1>3, <1>4, <2>2 DEF WorkerInv, WorkerHoldsRest, Held, ProcessDies
<1>6. NotificationsCarryDocuments'
  BY <1>2, <1>3 DEF WorkerInv, NotificationsCarryDocuments, Carried, Document
<1>7. NothingIsDropped => NothingIsDropped'
  BY <1>3, <1>4 DEF NothingIsDropped, W!Notified
<1>8. DeathCostsOneBatch => DeathCostsOneBatch'
  <2> SUFFICES ASSUME DeathCostsOneBatch PROVE DeathCostsOneBatch'
    OBVIOUS
  <2>1. /\ delivered \in Nat /\ BatchSize \in Nat /\ deaths \in Nat
        /\ deaths * BatchSize \in Nat
        /\ Gone \in SUBSET (1..delivered)
    BY <1>2, BackendAssumption DEF BInv, EndpointInv, WorkerInv, WorkerHoldsRest, Gone
  <2>2. PICK a \in Nat, b \in Nat : Held = a..b /\ b < a + BatchSize
    BY <1>2 DEF WorkerInv, WorkerHoldsRest
  <2>3. Cardinality(Gone) <= deaths * BatchSize
    BY DEF DeathCostsOneBatch, Gone
  <2>4. Cardinality(Gone') <= deaths * BatchSize + BatchSize
    BY <2>1, <2>2, <2>3, DeathLosesBatch, BatchCostsBatch
  <2>5. deaths' * BatchSize = deaths * BatchSize + BatchSize
    <3>1. deaths' = deaths + 1
      BY DEF ProcessDies
    <3> QED
      BY <2>1, <3>1
  <2> QED
    BY <2>4, <2>5 DEF DeathCostsOneBatch, Gone
<1> QED
  BY <1>1, <1>2, <1>5, <1>6, <1>7, <1>8 DEF BInv, WorkerInv

\* Nothing is stored, published or delivered at first.
LEMMA BInitBInv == BInit => BInv
<1> SUFFICES ASSUME BInit PROVE BInv
  OBVIOUS
<1>1. IInv /\ NoFailureInv
  BY InitIInv, InitNoFailure DEF BInit
<1>2. DocumentsAreGrounded
  BY DEF BInit, Init, DocumentsAreGrounded, Typing, Creating
<1>3. PublishedInv
  BY DEF BInit, Init, PublishedInv, AckedCreateIsPublished, NotifyIsPublished, AckedIsPublished
<1>4. WorkerHoldsRest
  <2>1. 1 \in 1..(0 + 1) /\ 0 \in 0..0 /\ {} = 1..0 /\ 0 < 1 + BatchSize
    BY BackendAssumption
  <2> QED
    BY <2>1 DEF BInit, Init, W!Init, WorkerHoldsRest, Held
<1>5. NotificationsCarryDocuments /\ NothingIsDropped
  BY DEF BInit, W!Init, NotificationsCarryDocuments, NothingIsDropped
<1>6. DeathCostsOneBatch
  <2>1. delivered = 0 /\ deaths = 0
    BY DEF BInit, W!Init
  <2>2. {i \in 1..delivered : Lost(i)} = {}
    BY <2>1
  <2>3. deaths * BatchSize = 0
    BY <2>1, BackendAssumption
  <2> QED
    BY <2>2, <2>3, FS_EmptySet DEF DeathCostsOneBatch
<1> QED
  BY <1>1, <1>2, <1>3, <1>4, <1>5, <1>6 DEF BInv, EndpointInv, WorkerInv, BInit

-----------------------------------------------------------------------------
(***************************************************************************)
(* Theorems.                                                               *)
(***************************************************************************)
\* The invariant of requests, worker and deaths together.
THEOREM BInvariance == BSpec => []BInv
<1>1. BInv /\ [BNext]_allVars => BInv'
  <2> SUFFICES ASSUME BInv, [BNext]_allVars PROVE BInv'
    OBVIOUS
  <2>1. CASE UNCHANGED allVars
    <3>1. EndpointInv'
      BY <2>1, WorkKeepsEndpoints DEF BInv, allVars
    <3>2. WorkerInv'
      BY <2>1 DEF BInv, WorkerInv, WorkerHoldsRest, NotificationsCarryDocuments, Carried,
                  Document, NothingIsDropped, Held, W!Notified, W!Current,
                  allVars, vars, workerVars
    <3>3. DeathCostsOneBatch => DeathCostsOneBatch'
      BY <2>1 DEF DeathCostsOneBatch, Lost, W!Stranded, W!Notified, allVars, workerVars
    <3> QED
      BY <3>1, <3>2, <3>3 DEF BInv
  <2> QED
    BY <2>1, ServeKeeps, WorkKeeps, DeathKeepsBoth DEF BNext
<1> QED
  BY <1>1, BInitBInv, PTL DEF BSpec

\* Whichever producer wrote it, what the browsers are shown was typed for that
\* transaction or reached by its key, however far the worker lags, whatever
\* fails and whatever dies.
THEOREM FeedsAreGrounded == BSpec => []FeedIsGrounded
<1>1. BInv => FeedIsGrounded
  <2> SUFFICES ASSUME BInv PROVE FeedIsGrounded
    OBVIOUS
  <2>1. IInv /\ DocumentsAreGrounded /\ WorkerHoldsRest /\ NotificationsCarryDocuments
    BY DEF BInv, EndpointInv, WorkerInv
  <2>2. ASSUME NEW k \in DOMAIN sent PROVE Grounded(Carried(k).tx, Carried(k).status)
    <3>1. sent[k].src \in 1..delivered /\ Carried(k) = Document(stream[sent[k].src])
      BY <2>1 DEF NotificationsCarryDocuments
    <3>2. sent[k].src \in DOMAIN stream
      BY <2>1, <3>1, StreamIsTyped DEF WorkerHoldsRest
    <3>3. /\ Carried(k).tx = stream[sent[k].src].tx
          /\ Carried(k).status = stream[sent[k].src].status
      BY <3>1 DEF Document
    <3> QED
      BY <2>1, <3>2, <3>3 DEF DocumentsAreGrounded
  <2>3. ASSUME NEW k \in DOMAIN notes PROVE Grounded(notes[k].tx, notes[k].status)
    BY <2>1 DEF DocumentsAreGrounded, Grounded
  <2> QED
    BY <2>2, <2>3 DEF FeedIsGrounded, Shown, Carried
<1> QED
  BY <1>1, BInvariance, PTL

\* When no call fails, no more events are lost to the browsers than the batches
\* the dead workers held.
THEOREM DeathsCostBatches == BSpec => [](~Faults => DeathCostsOneBatch)
<1>1. BInv => (~Faults => DeathCostsOneBatch)
  BY DEF BInv
<1> QED
  BY <1>1, BInvariance, PTL

\* When no call fails, the event of an answered operation is announced, or waits
\* to be, unless the process has died with it.
THEOREM OnlyDeathsLose == BSpec => [](~Faults => OnlyDeathLosesEvents)
<1>1. BInv => (~Faults => OnlyDeathLosesEvents)
  <2> SUFFICES ASSUME BInv, ~Faults, NEW t \in Tx, NEW op \in acked[t]
               PROVE  \E i \in DOMAIN stream : /\ stream[i].tx = t
                                               /\ stream[i].type = op
                                               /\ \/ W!Notified(i)
                                                  \/ i > delivered
                                                  \/ i \in W!Unprocessed("server")
                                                  \/ Lost(i) /\ deaths > 0
    BY DEF OnlyDeathLosesEvents
  <2>1. /\ IInv /\ AckedIsPublished /\ NothingIsDropped /\ DeathCostsOneBatch
        /\ delivered \in Nat /\ deaths \in Nat
    BY DEF BInv, EndpointInv, PublishedInv, WorkerInv, WorkerHoldsRest
  <2>2. PICK i \in DOMAIN stream : stream[i].tx = t /\ stream[i].type = op
    BY <2>1 DEF AckedIsPublished, Published
  <2>3. i > delivered \/ i \in 1..delivered
    BY <2>1, <2>2, StreamIsTyped
  <2>4. CASE i \in 1..delivered /\ ~W!Notified(i) /\ i \in Held
    <3>1. ~(worker["server"] = "ack" /\ i = W!Current("server"))
      BY <2>1, <2>4 DEF NothingIsDropped
    <3>2. i \in W!Unprocessed("server")
      BY <2>4, <3>1 DEF W!Unprocessed, Held
    <3> QED
      BY <2>2, <3>2
  <2>5. CASE i \in 1..delivered /\ ~W!Notified(i) /\ i \notin Held
    <3>1. Lost(i)
      BY <2>1, <2>5, LostIsUnheld DEF NothingIsDropped
    <3>2. deaths > 0
      <4>1. SUFFICES ASSUME deaths = 0 PROVE FALSE
        BY <2>1
      <4>2. IsFiniteSet(Gone) /\ Gone # {}
        <5>1. IsFiniteSet(1..delivered)
          BY <2>1, FS_Interval
        <5>2. IsFiniteSet(Gone)
          BY <5>1, FS_Subset DEF Gone
        <5> QED
          BY <2>5, <3>1, <5>2 DEF Gone
      <4>3. Cardinality(Gone) \in Nat /\ Cardinality(Gone) # 0
        BY <4>2, FS_CardinalityType, FS_EmptySet
      <4>4. Cardinality(Gone) <= 0
        BY <2>1, <4>1, BackendAssumption DEF DeathCostsOneBatch, Gone
      <4> QED
        BY <4>3, <4>4
    <3> QED
      BY <2>2, <3>1, <3>2
  <2> QED
    BY <2>2, <2>3, <2>4, <2>5
<1> QED
  BY <1>1, BInvariance, PTL

\* When no call fails and nothing has died, a listed transaction can be reviewed.
THEOREM QueueIsTold == BSpec => [](~Faults => QueueTellsTruth)
<1>1. BInv => (~Faults => QueueTellsTruth)
  BY QueueFollows DEF BInv, EndpointInv, QueueTellsTruth
<1> QED
  BY <1>1, BInvariance, PTL

\* When no call fails and nothing has died, verdicts carry reviewed documents.
THEOREM VerdictsAreCarried == BSpec => [](~Faults => VerdictsCarryReviews)
<1>1. BInv => (~Faults => VerdictsCarryReviews)
  BY DEF BInv, EndpointInv, VerdictsCarryReviews, NoFailureInv
<1> QED
  BY <1>1, BInvariance, PTL

\* Deaths are no exception to what Transactions promises: a document shows what a
\* client typed or the key reached, and the key contradicts no event and no answer.
THEOREM DeathsContradictNothing ==
  BSpec => [](MongoNeverAhead /\ EventsFollowKey /\ AckedDecisionHolds /\ AckedCreateIsPublished)
<1>1. BInv => MongoNeverAhead /\ EventsFollowKey /\ AckedDecisionHolds /\ AckedCreateIsPublished
  BY DEF BInv, EndpointInv, IInv, PublishedInv
<1> QED
  BY <1>1, BInvariance, PTL

\* Nor to the lifecycle: a process that dies and is started again decides no
\* transaction twice and tells no merchant twice.
THEOREM DeathsKeepLifecycle == BSpec => ImplementsStatusMachine
<1>1. BInit => SM!Init
  BY InitRefines DEF BInit
<1>2. BInv /\ [BNext]_allVars => [SM!Next]_<<key, posted>>
  <2> SUFFICES ASSUME BInv, [BNext]_allVars PROVE [SM!Next]_<<key, posted>>
    OBVIOUS
  <2>1. CASE Serve
    <3>1. IInv /\ [Next]_vars
      BY <2>1 DEF Serve, Next, BInv, EndpointInv
    <3> QED
      BY <3>1, StepRefines
  <2>2. CASE Work \/ ProcessDies \/ UNCHANGED allVars
    BY <2>2 DEF Work, ProcessDies, stores, vars, allVars
  <2> QED
    BY <2>1, <2>2 DEF BNext
<1> QED
  BY <1>1, <1>2, BInvariance, PTL DEF BSpec, ImplementsStatusMachine, SM!Spec
=============================================================================
