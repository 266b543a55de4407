---------------------------- MODULE Transactions -----------------------------
(***************************************************************************)
(* The transaction endpoints of internal/routes/transactions.go: create,   *)
(* review, approve, reject and the status override, as concurrent requests *)
(* over two databases that share no transaction.  MongoDB keeps the        *)
(* document, Redis keeps the key tx:<id>:status that arbitrates the        *)
(* transitions with a compare-and-set script, and two Redis streams carry  *)
(* the events.                                                             *)
(*                                                                         *)
(* A request is cut at its external calls: one action performs one call    *)
(* and the local code up to the next one.  An early return that changes    *)
(* nothing (400, 401, 404, 409, 503) is a stuttering step.  The user       *)
(* lookup of create, the merchant lookup of approve and reject, and the    *)
(* image download of review only read: the first two are nondeterministic  *)
(* outcomes, the third is the delay between ReviewLoad and ReviewWrite.    *)
(* db.Rdb is assumed set: without it create and the override stop after    *)
(* their Mongo call and the transitions answer 503.                        *)
(***************************************************************************)
EXTENDS Integers, Sequences

CONSTANTS
  Tx,            \* object ids the database can hand out
  Req,           \* slots for concurrent HTTP requests
  ClientStatus,  \* texts a client may send as "estado" or as {"status": ...}
  None,          \* absent document, unused field
  Faults,        \* calls may fail and the process may die
  StreamBound,   \* bound: the driver resends an XADD only below this length
  NotesBound     \* bound: overrides and their resends stop at this many notifications

Decision == {"approved", "rejected"}

ASSUME ConstantAssumption ==
  /\ None \notin Tx
  /\ None \notin ClientStatus \cup {"review"} \cup Decision
  /\ Faults \in BOOLEAN
  /\ StreamBound \in Nat
  /\ NotesBound \in Nat

VARIABLES
  doc,      \* Mongo "transactions": the status field of each document
  key,      \* Redis tx:<id>:status
  stream,   \* Redis stream valpago:transactions, the processing events
  notes,    \* Redis stream valpago:notifications, as far as overrides write it
  posted,   \* verdicts posted to the merchant webhook, per transaction
  acked,    \* operations whose handler returned 200 or 201, per transaction
  typed,    \* history: the statuses clients have stored themselves, per transaction
  at,       \* the external call each request waits for, or "idle"
  job       \* the local variables of each request

stores == <<doc, key, stream, notes, posted, acked, typed>>
vars == <<doc, key, stream, notes, posted, acked, typed, at, job>>

MongoStatus == ClientStatus \cup {"review"} \cup Decision
KeyStatus == {"none", "pending", "review"} \cup Decision
EventType == {"created", "review"} \cup Decision

\* A processing event: its type and the document marshalled into "data".
Event == [type : EventType, tx : Tx, status : MongoStatus]
Override == [tx : Tx, status : MongoStatus]

Creating == {"create.key", "create.publish"}
Reviewing == {"review.load", "review.write", "review.publish"}
Deciding == {"decide.write", "decide.load", "decide.publish", "decide.notify"}
Publishing == {"create.publish", "review.publish", "decide.publish"}
Stage == {"idle", "status.publish"} \cup Creating \cup Reviewing \cup Deciding

Job == [tx : Tx \cup {None},
        want : MongoStatus \cup {None},
        seen : MongoStatus \cup {None}]
NoJob == [tx |-> None, want |-> None, seen |-> None]

Init ==
  /\ doc = [t \in Tx |-> None]
  /\ key = [t \in Tx |-> "none"]
  /\ stream = << >>
  /\ notes = << >>
  /\ posted = [t \in Tx |-> << >>]
  /\ acked = [t \in Tx |-> {}]
  /\ typed = [t \in Tx |-> {}]
  /\ at = [r \in Req |-> "idle"]
  /\ job = [r \in Req |-> NoJob]

-----------------------------------------------------------------------------
(***************************************************************************)
(* How a request moves.                                                    *)
(***************************************************************************)
Begin(r, t, s, stage) ==
  /\ at' = [at EXCEPT ![r] = stage]
  /\ job' = [job EXCEPT ![r] = [tx |-> t, want |-> s, seen |-> None]]

Goto(r, from, to) ==
  /\ at[r] = from
  /\ at' = [at EXCEPT ![r] = to]

Finish(r) ==
  /\ at' = [at EXCEPT ![r] = "idle"]
  /\ job' = [job EXCEPT ![r] = NoJob]

\* The last step of a handler.  The answer is lost if the client has gone or
\* the process dies before it is written.
Answer(r, op) ==
  /\ \/ acked' = [acked EXCEPT ![job[r].tx] = @ \cup {op}]
     \/ Faults /\ UNCHANGED acked
  /\ Finish(r)

\* The event a request publishes to the processing stream.
EventOf(r) ==
  LET j == job[r] IN
  CASE at[r] = "create.publish" -> [type |-> "created", tx |-> j.tx, status |-> j.want]
    [] at[r] = "review.publish" -> [type |-> "review", tx |-> j.tx, status |-> "review"]
    [] OTHER -> [type |-> j.want, tx |-> j.tx, status |-> j.seen]

Publish(r) == stream' = Append(stream, EventOf(r))

\* An XADD whose error the handler drops.
TryPublish(r) == Publish(r) \/ (Faults /\ UNCHANGED stream)

\* A client's own text goes into the document.
Store(t, s) ==
  /\ doc' = [doc EXCEPT ![t] = s]
  /\ typed' = [typed EXCEPT ![t] = @ \cup {s}]

-----------------------------------------------------------------------------
(***************************************************************************)
(* POST /api/transactions/create.  The stored status is the client's text. *)
(***************************************************************************)
\* Mutant: the key is not initialised.
CreateInsertNoKey(r, t, s) ==
  /\ at[r] = "idle"
  /\ doc[t] = None
  /\ Store(t, s)
  /\ Begin(r, t, s, "create.publish")
  /\ UNCHANGED <<key, stream, notes, posted, acked>>

CreateInsert(r, t, s) ==
  /\ at[r] = "idle"
  /\ doc[t] = None
  /\ Store(t, s)
  /\ Begin(r, t, s, "create.key")
  /\ UNCHANGED <<key, stream, notes, posted, acked>>

\* SETNX; its error is dropped.
CreateKey(r) ==
  LET t == job[r].tx IN
  /\ Goto(r, "create.key", "create.publish")
  /\ \/ key' = [key EXCEPT ![t] = IF @ = "none" THEN "pending" ELSE @]
     \/ Faults /\ UNCHANGED key
  /\ UNCHANGED <<doc, stream, notes, posted, acked, typed, job>>

\* Mutant: the XADD error is dropped here too.
CreatePublishUnchecked(r) ==
  /\ at[r] = "create.publish"
  /\ TryPublish(r)
  /\ Answer(r, "created")
  /\ UNCHANGED <<doc, key, notes, posted, typed>>

\* The only XADD whose error is answered with 500 (HandlerError).
CreatePublish(r) ==
  /\ at[r] = "create.publish"
  /\ Publish(r)
  /\ Answer(r, "created")
  /\ UNCHANGED <<doc, key, notes, posted, typed>>

-----------------------------------------------------------------------------
(***************************************************************************)
(* PUT /api/transactions/:id/review                                        *)
(***************************************************************************)
\* Mutant: the script does not compare.
KeyCasUnchecked(t, from, to) ==
  /\ key[t] # "none"
  /\ key' = [key EXCEPT ![t] = to]

\* The Lua script: one atomic step in Redis.
KeyCas(t, from, to) ==
  /\ key[t] = from
  /\ key' = [key EXCEPT ![t] = to]

ReviewCas(r, t) ==
  /\ at[r] = "idle"
  /\ KeyCas(t, "pending", "review")
  /\ Begin(r, t, "review", "review.load")
  /\ UNCHANGED <<doc, stream, notes, posted, acked, typed>>

\* FindOne; then the image is downloaded, for as long as it takes.
ReviewLoad(r) ==
  /\ Goto(r, "review.load", "review.write")
  /\ doc[job[r].tx] # None
  /\ UNCHANGED <<stores, job>>

\* UpdateOne filters by _id only: it overwrites whatever status is there.
ReviewWrite(r) ==
  /\ Goto(r, "review.write", "review.publish")
  /\ doc' = [doc EXCEPT ![job[r].tx] = "review"]
  /\ UNCHANGED <<key, stream, notes, posted, acked, typed, job>>

ReviewPublish(r) ==
  /\ at[r] = "review.publish"
  /\ TryPublish(r)
  /\ Answer(r, "review")
  /\ UNCHANGED <<doc, key, notes, posted, typed>>

-----------------------------------------------------------------------------
(***************************************************************************)
(* PUT /api/transactions/:id/approve and /reject: the same code with       *)
(* another verdict.                                                        *)
(***************************************************************************)
\* Mutant: the decision does not wait for a review.
DecideCasFromPending(r, t, v) ==
  /\ at[r] = "idle"
  /\ KeyCas(t, "pending", v)
  /\ Begin(r, t, v, "decide.write")
  /\ UNCHANGED <<doc, stream, notes, posted, acked, typed>>

\* Mutant: the update of the document is forgotten.
DecideCasNoWrite(r, t, v) ==
  /\ at[r] = "idle"
  /\ KeyCas(t, "review", v)
  /\ Begin(r, t, v, "decide.load")
  /\ UNCHANGED <<doc, stream, notes, posted, acked, typed>>

DecideCas(r, t, v) ==
  /\ at[r] = "idle"
  /\ KeyCas(t, "review", v)
  /\ Begin(r, t, v, "decide.write")
  /\ UNCHANGED <<doc, stream, notes, posted, acked, typed>>

\* Mutant: the document is not read back.
DecideWriteNoLoad(r) ==
  /\ Goto(r, "decide.write", "decide.publish")
  /\ doc' = [doc EXCEPT ![job[r].tx] = job[r].want]
  /\ UNCHANGED <<key, stream, notes, posted, acked, typed, job>>

DecideWrite(r) ==
  /\ Goto(r, "decide.write", "decide.load")
  /\ doc' = [doc EXCEPT ![job[r].tx] = job[r].want]
  /\ UNCHANGED <<key, stream, notes, posted, acked, typed, job>>

\* The document is read back and published as it is now.
DecideLoad(r) ==
  /\ Goto(r, "decide.load", "decide.publish")
  /\ doc[job[r].tx] # None
  /\ job' = [job EXCEPT ![r].seen = doc[job[r].tx]]
  /\ UNCHANGED stores

\* Mutant: the event is forgotten.
DecidePublishForgotten(r) ==
  /\ Goto(r, "decide.publish", "decide.notify")
  /\ UNCHANGED <<stores, job>>

DecidePublish(r) ==
  /\ Goto(r, "decide.publish", "decide.notify")
  /\ TryPublish(r)
  /\ UNCHANGED <<doc, key, notes, posted, acked, typed, job>>

\* The webhook is posted if a merchant with a phone owns the account and the
\* lookup succeeds; its own failure is ignored.
DecideNotify(r) ==
  /\ at[r] = "decide.notify"
  /\ \/ posted' = [posted EXCEPT ![job[r].tx] = Append(@, job[r].want)]
     \/ UNCHANGED posted
  /\ Answer(r, job[r].want)
  /\ UNCHANGED <<doc, key, stream, notes, typed>>

-----------------------------------------------------------------------------
(***************************************************************************)
(* PUT /api/transactions/:id/status: Mongo only, any text, no Redis key.   *)
(***************************************************************************)
StatusWrite(r, t, s) ==
  /\ at[r] = "idle"
  /\ doc[t] # None
  /\ Len(notes) < NotesBound
  /\ Store(t, s)
  /\ Begin(r, t, s, "status.publish")
  /\ UNCHANGED <<key, stream, notes, posted, acked>>

\* Straight to the notification stream, past the worker.
Notify(r) == notes' = Append(notes, [tx |-> job[r].tx, status |-> job[r].want])

\* The last step; the XADD error is dropped.
StatusPublish(r) ==
  /\ at[r] = "status.publish"
  /\ Notify(r) \/ (Faults /\ UNCHANGED notes)
  /\ Finish(r)
  /\ UNCHANGED <<doc, key, stream, posted, acked, typed>>

\* GET /api/transactions: what the front end shows as the queue.
Listed == {t \in Tx : doc[t] = "pending"}

-----------------------------------------------------------------------------
(***************************************************************************)
(* Failures.  A call that fails after taking effect is the successful step *)
(* followed by HandlerError: so is a script whose reply is lost, which the *)
(* driver runs again and which then answers 409.                           *)
(***************************************************************************)
\* Mutant: the handler undoes its compare-and-set, so that a retry can succeed.
HandlerErrorUndoes(r) ==
  /\ Faults
  /\ at[r] \in Reviewing \cup {"decide.write", "decide.load"}
  /\ key' = [key EXCEPT ![job[r].tx] = IF at[r] \in Reviewing THEN "pending" ELSE "review"]
  /\ Finish(r)
  /\ UNCHANGED <<doc, stream, notes, posted, acked, typed>>

\* An error, or the client's disconnection (it cancels the request context),
\* ends the handler with the rest undone.  Past decide.load only dropped
\* errors remain.
HandlerError(r) ==
  /\ Faults
  /\ at[r] \notin {"idle", "decide.publish", "decide.notify"}
  /\ Finish(r)
  /\ UNCHANGED stores

\* The process dies with every request it was serving.
Crash ==
  /\ Faults
  /\ at' = [r \in Req |-> "idle"]
  /\ job' = [r \in Req |-> NoJob]
  /\ UNCHANGED stores

\* go-redis resends a command whose reply timed out: the first one stays.
DriverResend(r) ==
  /\ Faults
  /\ \/ at[r] \in Publishing /\ Len(stream) < StreamBound /\ Publish(r) /\ UNCHANGED notes
     \/ at[r] = "status.publish" /\ Len(notes) < NotesBound /\ Notify(r) /\ UNCHANGED stream
  /\ UNCHANGED <<doc, key, posted, acked, typed, at, job>>

Arrive(r) ==
  \E t \in Tx :
    \/ \E s \in ClientStatus : CreateInsert(r, t, s) \/ StatusWrite(r, t, s)
    \/ ReviewCas(r, t)
    \/ \E v \in Decision : DecideCas(r, t, v)

\* The steps that wait for a database only.
DatabaseStep(r) ==
  \/ CreateKey(r) \/ CreatePublish(r)
  \/ ReviewLoad(r) \/ ReviewPublish(r)
  \/ DecideWrite(r) \/ DecideLoad(r) \/ DecidePublish(r)
  \/ StatusPublish(r)

RequestStep(r) ==
  \/ Arrive(r) \/ DatabaseStep(r)
  \/ ReviewWrite(r) \/ DecideNotify(r)
  \/ HandlerError(r) \/ DriverResend(r)

Next == (\E r \in Req : RequestStep(r)) \/ Crash

Spec == Init /\ [][Next]_vars

(***************************************************************************)
(* A database call returns: the drivers have timeouts.  ReviewWrite waits  *)
(* for Meta and DecideNotify for the webhook through clients with none, so *)
(* nothing is assumed of them.                                             *)
(***************************************************************************)
FairSpec == Spec /\ \A r \in Req : WF_vars(DatabaseStep(r))

-----------------------------------------------------------------------------
(***************************************************************************)
(* Properties.                                                             *)
(***************************************************************************)
TypeOK ==
  /\ doc \in [Tx -> MongoStatus \cup {None}]
  /\ key \in [Tx -> KeyStatus]
  /\ stream \in Seq(Event)
  /\ notes \in Seq(Override)
  /\ posted \in [Tx -> Seq(Decision)]
  /\ acked \in [Tx -> SUBSET EventType]
  /\ typed \in [Tx -> SUBSET ClientStatus]
  /\ at \in [Req -> Stage]
  /\ job \in [Req -> Job]

\* The statuses from which no request can fall back before a review.
Reviewed == {"review"} \cup Decision

Published(t, type) == \E i \in DOMAIN stream : stream[i].tx = t /\ stream[i].type = type

\* Whatever the requests interleave with and wherever they fail, the Redis key
\* goes through the lifecycle once and the webhook is posted at most once, with
\* the verdict of the key.
SM == INSTANCE StatusMachine WITH status <- key, told <- posted
ImplementsStatusMachine == SM!Spec

\* A status of a transaction is grounded if its client typed it, or else the key
\* has reached it: a verdict that no client typed is the key's verdict.
Grounded(t, s) ==
  s \notin typed[t] => /\ key[t] \in Reviewed
                       /\ s \in Decision => key[t] = s

\* Mongo may lag behind Redis, but nothing except a client's own text, sent for
\* this very transaction, ever puts it ahead: no handler writes a status the key
\* has not reached, however late its write comes.
MongoNeverAhead == \A t \in Tx : doc[t] # None => Grounded(t, doc[t])

\* No event announces a transition that the key has not made, however often
\* the driver resends it: the worker never sees both verdicts of a transaction.
EventsFollowKey ==
  \A i \in DOMAIN stream :
    LET e == stream[i] IN
    /\ doc[e.tx] # None
    /\ e.type # "created" => key[e.tx] \in Reviewed
    /\ e.type \in Decision => key[e.tx] = e.type

\* A client that was told 200 by approve or reject is not contradicted: no
\* other client is ever told the opposite, and the key agrees.
AckedDecisionHolds ==
  \A t \in Tx : /\ acked[t] \cap Decision \subseteq {key[t]}
                /\ "review" \in acked[t] => key[t] \in Reviewed

\* A create answered 201 has its event in the processing stream, even when
\* calls fail: it is the one XADD whose error is not dropped.
AckedCreateIsPublished ==
  \A t \in Tx : "created" \in acked[t] => Published(t, "created")

\* When no call fails, every answered operation has its event in the stream.
AckedIsPublished ==
  \A t \in Tx : \A op \in acked[t] : Published(t, op)

Overridden(t) ==
  \/ \E i \in DOMAIN notes : notes[i].tx = t
  \/ \E r \in Req : at[r] = "status.publish" /\ job[r].tx = t

\* When no call fails, the queue the front end shows tells the truth: a listed
\* transaction can be reviewed, its review is about to take it off the list, or
\* an override put it there.
QueueIsReviewable ==
  \A t \in Listed : "created" \in acked[t] =>
    \/ key[t] = "pending"
    \/ \E r \in Req : at[r] \in {"review.load", "review.write"} /\ job[r].tx = t
    \/ Overridden(t)

\* When no call fails, the approved and rejected events carry a document that has
\* been reviewed: the verdict, or a late review over it, unless an override came.
DecidedEventsAreReviewed ==
  \A i \in DOMAIN stream : stream[i].type \in Decision =>
    \/ stream[i].status \in {"review", stream[i].type}
    \/ Overridden(stream[i].tx)

\* A decision taken in Redis is eventually written to the document (where a
\* slow review or an override may then replace it).
DecisionReachesMongo ==
  \A r \in Req : \A t \in Tx : \A v \in Decision :
    at[r] = "decide.write" /\ job[r].tx = t /\ job[r].want = v ~> doc[t] = v

(***************************************************************************)
(* The invariant the properties above rest on: why a request that passed   *)
(* its compare-and-set may still act on what the script answered.          *)
(***************************************************************************)
\* A request past its compare-and-set is never overtaken by the key: a review
\* in flight finds it at review or beyond, a decision in flight finds its own
\* verdict, is the only decision in flight on its transaction, and the
\* merchant has not been told yet.
RequestsFollowKey ==
  \A r \in Req : at[r] # "idle" =>
    LET j == job[r] IN
    /\ j.tx \in Tx
    /\ doc[j.tx] # None
    /\ j.want \in MongoStatus
    /\ at[r] \in Reviewing => key[j.tx] \in Reviewed
    /\ at[r] \in Deciding =>
         /\ j.want \in Decision
         /\ key[j.tx] = j.want
         /\ posted[j.tx] = << >>
         /\ \A q \in Req \ {r} : at[q] \in Deciding => job[q].tx # j.tx
    /\ at[r] = "decide.publish" => j.seen \in MongoStatus

\* A key belongs to a stored document, and what the merchant was told is it.
KeyIsAccounted ==
  \A t \in Tx : /\ key[t] # "none" => doc[t] # None
                /\ posted[t] # << >> => key[t] \in Decision /\ posted[t] = << key[t] >>

IInv ==
  /\ TypeOK
  /\ RequestsFollowKey
  /\ KeyIsAccounted
  /\ MongoNeverAhead
  /\ EventsFollowKey
  /\ AckedDecisionHolds

(***************************************************************************)
(* What the repository says of these endpoints and the code does not do.   *)
(***************************************************************************)
\* README.md:160, "pending -> review -> approved/rejected": a decided document
\* does not change again.
VerdictIsFinal ==
  [][\A t \in Tx : doc[t] \in Decision => doc'[t] = doc[t]]_vars
=============================================================================
