------------------------------- MODULE Backend -------------------------------
(***************************************************************************)
(* The server process: the transaction endpoints (Transactions) and the    *)
(* worker (Worker) run in one process, over the same processing stream.    *)
(* What the endpoints append is what the worker is handed; the worker's    *)
(* notifications and those of the overrides are what GET /api/sse sends.   *)
(* A verdict is followed from the script to the notification stream.       *)
(*                                                                         *)
(* The process may die, with its requests and its worker's batch, and is   *)
(* started again at once: nothing of it runs in between.                   *)
(***************************************************************************)
EXTENDS Transactions, FiniteSets

CONSTANTS
  BatchSize,   \* XREADGROUP COUNT
  DeathBound   \* bound: deaths of the process

ASSUME BackendAssumption ==
  /\ BatchSize \in Nat \ {0}
  /\ DeathBound \in Nat
  /\ \A t \in Tx, s \in MongoStatus : [tx |-> t, status |-> s] # None

VARIABLES
  group, delivered, pel,  \* the consumer group, as in Worker
  worker, batch,          \* what the worker does and holds
  sent,                   \* the worker's notifications
  dropped,                \* positions whose notification failed
  deaths                  \* how often the process has died

workerVars == <<group, delivered, pel, worker, batch, sent, dropped>>
allVars == <<vars, workerVars, deaths>>

\* The fields of an entry: "type", and the document as JSON in "data".
Fields(e) == [type |-> e.type, data |-> [tx |-> e.tx, status |-> e.status]]

W == INSTANCE Worker WITH
       Workers <- {"server"}, Entry <- {}, Absent <- None,
       Errors <- Faults, Crashes <- FALSE, LogBound <- 0,
       log <- [i \in DOMAIN stream |-> Fields(stream[i])],
       at <- worker, notes <- sent

BInit ==
  /\ Init
  /\ W!Init
  /\ deaths = 0

Serve == (\E r \in Req : RequestStep(r)) /\ UNCHANGED <<workerVars, deaths>>

Work == UNCHANGED <<vars, deaths>> /\ W!Next

ProcessDies ==
  /\ deaths < DeathBound
  /\ deaths' = deaths + 1
  /\ at' = [r \in Req |-> "idle"]
  /\ job' = [r \in Req |-> NoJob]
  /\ worker' = [w \in {"server"} |-> "down"]
  /\ batch' = [w \in {"server"} |-> {}]
  /\ UNCHANGED <<stores, group, delivered, pel, sent, dropped>>

BNext == Serve \/ Work \/ ProcessDies

(***************************************************************************)
(* As in Transactions and Worker.  Deaths are bounded, so weak fairness of *)
(* the worker's steps is enough.                                           *)
(***************************************************************************)
BSpec ==
  /\ BInit
  /\ [][BNext]_allVars
  /\ \A r \in Req : WF_allVars(DatabaseStep(r) /\ UNCHANGED <<workerVars, deaths>>)
  /\ WF_allVars(UNCHANGED <<vars, deaths>> /\ W!Step("server"))

-----------------------------------------------------------------------------
(***************************************************************************)
(* Properties.                                                             *)
(***************************************************************************)
\* What the browsers are sent, by sse.go's two branches: the document in "data"
\* of a worker's notification, the fields of an override's.
Shown == {sent[k].note.data : k \in DOMAIN sent} \cup {notes[k] : k \in DOMAIN notes}

\* No browser is shown a status out of the blue: whichever producer wrote it, a
\* client typed it for this very transaction, or the key has reached it, and a
\* verdict is then the key's, however far the worker lags and whatever dies.
FeedIsGrounded == \A n \in Shown : Grounded(n.tx, n.status)

\* Delivered, then left in the pending list by a worker that is gone.
Lost(i) == W!Stranded(i) /\ ~W!Notified(i)

\* When no call fails, only a death of the process keeps an answered operation from
\* the browsers: its event is notified, or waits in the stream or with the
\* worker; if it is lost, the process has died.
OnlyDeathLosesEvents ==
  \A t \in Tx : \A op \in acked[t] : \E i \in DOMAIN stream :
    /\ stream[i].tx = t
    /\ stream[i].type = op
    /\ \/ W!Notified(i)
       \/ i > delivered
       \/ i \in W!Unprocessed("server")
       \/ Lost(i) /\ deaths > 0

\* When no call fails, a death costs at most one batch: the events that no later
\* worker announces are no more than the dead ones were handed at once.
DeathCostsOneBatch == Cardinality({i \in 1..delivered : Lost(i)}) <= deaths * BatchSize

\* Until the process dies, the queue tells the truth (QueueIsReviewable).
QueueTellsTruth == deaths = 0 => QueueIsReviewable

\* Until the process dies, a verdict is announced with a document that the
\* decision or a review has written (DecidedEventsAreReviewed).
VerdictsCarryReviews == deaths = 0 => DecidedEventsAreReviewed

Announced(t, type) ==
  \E k \in DOMAIN sent : stream[sent[k].src].tx = t /\ stream[sent[k].src].type = type

Downloading(t) == \E r \in Req : at[r] = "review.write" /\ job[r].tx = t

\* The transitions of a transaction that the browsers have to hear of; a review
\* only when it does not wait for the image server, which may never answer.
Due(t) ==
  {op \in EventType : CASE op = "created" -> doc[t] # None
                        [] op = "review" -> key[t] \in Reviewed /\ ~Downloading(t)
                        [] OTHER -> key[t] = op}

\* Every transition reaches the notification stream unless the process dies,
\* through the handler's remaining calls, the processing stream and the worker:
\* a hanging download holds up its own review at most, not the verdict that
\* overtakes it, and a hanging webhook holds up nothing.
TransitionIsNotified ==
  []<>(deaths > 0 \/ \A t \in Tx : \A op \in Due(t) : Announced(t, op))
=============================================================================
