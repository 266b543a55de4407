--------------------------------- MODULE Sse ---------------------------------
(***************************************************************************)
(* GET /api/sse, internal/sse/sse.go.  For every client a goroutine reads  *)
(* the notification stream with XREAD and puts what it reads in a buffered *)
(* channel, dropping what does not fit; the handler writes what is in the  *)
(* channel to the response.  Notifications are their positions.            *)
(*                                                                         *)
(* XREAD from "$" means from the stream's end at the time of the call, and *)
(* the goroutine asks for "$" again until it has read something.           *)
(***************************************************************************)
EXTENDS Naturals, Sequences, SequencesExt

CONSTANTS
  Client,      \* connections
  Dollar,      \* the id "$"
  Capacity,    \* capacity of messageChan
  BatchSize,   \* XREAD COUNT
  Errors,      \* XREAD and the response's Write may fail
  TailBound    \* bound: notifications published

ASSUME SseAssumption ==
  /\ Dollar \notin Nat
  /\ Capacity \in Nat \ {0}
  /\ BatchSize \in Nat \ {0}
  /\ Errors \in BOOLEAN
  /\ TailBound \in Nat

VARIABLES
  tail,      \* number of notifications in the stream
  lastID,    \* per client: the goroutine's lastID
  from,      \* per client: the position its XREAD in flight reads after
  batch,     \* per client: positions read and not yet offered to the channel
  reader,    \* per client: "none", "poll", "blocked", "push", "exited"
  chan,      \* per client: messageChan
  handler,   \* per client: "none", "serving", "returned"
  done,      \* per client: the request's context is done
  got,       \* per client: positions written to the response
  dropped,   \* per client: positions the full channel refused
  opened,    \* per client: tail when the connection was accepted
  since      \* per client: tail when its first XREAD was issued

readerVars == <<lastID, from, batch, reader, dropped, since>>
handlerVars == <<handler, done, got, opened>>
vars == <<tail, chan, readerVars, handlerVars>>

Init ==
  /\ tail = 0
  /\ lastID = [c \in Client |-> Dollar]
  /\ from = [c \in Client |-> 0]
  /\ batch = [c \in Client |-> << >>]
  /\ reader = [c \in Client |-> "none"]
  /\ chan = [c \in Client |-> << >>]
  /\ handler = [c \in Client |-> "none"]
  /\ done = [c \in Client |-> FALSE]
  /\ got = [c \in Client |-> << >>]
  /\ dropped = [c \in Client |-> {}]
  /\ opened = [c \in Client |-> 0]
  /\ since = [c \in Client |-> Dollar]

-----------------------------------------------------------------------------
\* The worker or an override appends a notification.
Publish ==
  /\ tail < TailBound
  /\ tail' = tail + 1
  /\ UNCHANGED <<chan, readerVars, handlerVars>>

Connect(c) ==
  /\ handler[c] = "none"
  /\ handler' = [handler EXCEPT ![c] = "serving"]
  /\ opened' = [opened EXCEPT ![c] = tail]
  /\ reader' = [reader EXCEPT ![c] = "poll"]
  /\ UNCHANGED <<tail, chan, lastID, from, batch, dropped, since, done, got>>

-----------------------------------------------------------------------------
(***************************************************************************)
(* The goroutine.                                                          *)
(***************************************************************************)
\* Top of the loop, the client gone.
Stop(c) ==
  /\ reader[c] = "poll"
  /\ done[c]
  /\ reader' = [reader EXCEPT ![c] = "exited"]
  /\ UNCHANGED <<tail, chan, lastID, from, batch, dropped, since, handlerVars>>

\* Mutant: "$" is kept as the position to read after.
PollUnresolved(c) ==
  /\ reader[c] = "poll"
  /\ ~done[c]
  /\ from' = [from EXCEPT ![c] = lastID[c]]
  /\ since' = [since EXCEPT ![c] = IF @ = Dollar THEN tail ELSE @]
  /\ reader' = [reader EXCEPT ![c] = "blocked"]
  /\ UNCHANGED <<tail, chan, lastID, batch, dropped, handlerVars>>

\* Mutant: the client's departure is not looked at.
PollAlways(c) ==
  /\ reader[c] = "poll"
  /\ from' = [from EXCEPT ![c] = IF lastID[c] = Dollar THEN tail ELSE lastID[c]]
  /\ since' = [since EXCEPT ![c] = IF @ = Dollar THEN tail ELSE @]
  /\ reader' = [reader EXCEPT ![c] = "blocked"]
  /\ UNCHANGED <<tail, chan, lastID, batch, dropped, handlerVars>>

\* Mutant: every read starts from "$".
PollFromEnd(c) ==
  /\ reader[c] = "poll"
  /\ ~done[c]
  /\ from' = [from EXCEPT ![c] = tail]
  /\ since' = [since EXCEPT ![c] = IF @ = Dollar THEN tail ELSE @]
  /\ reader' = [reader EXCEPT ![c] = "blocked"]
  /\ UNCHANGED <<tail, chan, lastID, batch, dropped, handlerVars>>

\* Redis receives the XREAD and resolves "$".
Poll(c) ==
  /\ reader[c] = "poll"
  /\ ~done[c]
  /\ from' = [from EXCEPT ![c] = IF lastID[c] = Dollar THEN tail ELSE lastID[c]]
  /\ since' = [since EXCEPT ![c] = IF @ = Dollar THEN tail ELSE @]
  /\ reader' = [reader EXCEPT ![c] = "blocked"]
  /\ UNCHANGED <<tail, chan, lastID, batch, dropped, handlerVars>>

\* The XREAD returns what has been published since, at most BatchSize entries.
Answer(c) ==
  /\ reader[c] = "blocked"
  /\ from[c] < tail
  /\ LET n == IF tail - from[c] < BatchSize THEN tail - from[c] ELSE BatchSize
     IN  batch' = [batch EXCEPT ![c] = [i \in 1..n |-> from[c] + i]]
  /\ reader' = [reader EXCEPT ![c] = "push"]
  /\ UNCHANGED <<tail, chan, lastID, from, dropped, since, handlerVars>>

\* redis.Nil after five seconds without a notification.
Timeout(c) ==
  /\ reader[c] = "blocked"
  /\ from[c] = tail
  /\ reader' = [reader EXCEPT ![c] = "poll"]
  /\ UNCHANGED <<tail, chan, lastID, from, batch, dropped, since, handlerVars>>

\* Any other error: logged, and the loop goes on unless the client has gone.
ReadError(c) ==
  /\ Errors
  /\ reader[c] = "blocked"
  /\ reader' = [reader EXCEPT ![c] = IF done[c] THEN "exited" ELSE "poll"]
  /\ UNCHANGED <<tail, chan, lastID, from, batch, dropped, since, handlerVars>>

\* Mutant: lastID is not advanced.
PushSameID(c) ==
  LET i == Head(batch[c]) IN
  /\ reader[c] = "push"
  /\ chan' = [chan EXCEPT ![c] = IF Len(@) < Capacity THEN Append(@, i) ELSE @]
  /\ lastID' = [lastID EXCEPT ![c] = from[c]]
  /\ batch' = [batch EXCEPT ![c] = Tail(@)]
  /\ reader' = [reader EXCEPT ![c] = IF Len(batch[c]) = 1 THEN "poll" ELSE @]
  /\ UNCHANGED <<tail, from, since, dropped, handlerVars>>

\* One message of the batch: the channel takes it or it is skipped; lastID
\* advances in both cases.
Push(c) ==
  LET i == Head(batch[c]) IN
  /\ reader[c] = "push"
  /\ IF Len(chan[c]) < Capacity
     THEN chan' = [chan EXCEPT ![c] = Append(@, i)] /\ UNCHANGED dropped
     ELSE dropped' = [dropped EXCEPT ![c] = @ \cup {i}] /\ UNCHANGED chan
  /\ lastID' = [lastID EXCEPT ![c] = i]
  /\ batch' = [batch EXCEPT ![c] = Tail(@)]
  /\ reader' = [reader EXCEPT ![c] = IF Len(batch[c]) = 1 THEN "poll" ELSE @]
  /\ UNCHANGED <<tail, from, since, handlerVars>>

-----------------------------------------------------------------------------
(***************************************************************************)
(* The handler.                                                            *)
(***************************************************************************)
\* The client goes away at any time.
Disconnect(c) ==
  /\ handler[c] = "serving"
  /\ ~done[c]
  /\ done' = [done EXCEPT ![c] = TRUE]
  /\ UNCHANGED <<tail, chan, readerVars, handler, got, opened>>

\* The select takes a message, even when the context is done too.
Write(c) ==
  /\ handler[c] = "serving"
  /\ chan[c] # << >>
  /\ chan' = [chan EXCEPT ![c] = Tail(@)]
  /\ got' = [got EXCEPT ![c] = Append(@, Head(chan[c]))]
  /\ UNCHANGED <<tail, readerVars, handler, done, opened>>

\* The deferred cancel stops the goroutine.
WriteError(c) ==
  /\ Errors
  /\ handler[c] = "serving"
  /\ chan[c] # << >>
  /\ chan' = [chan EXCEPT ![c] = Tail(@)]
  /\ handler' = [handler EXCEPT ![c] = "returned"]
  /\ done' = [done EXCEPT ![c] = TRUE]
  /\ UNCHANGED <<tail, readerVars, got, opened>>

Return(c) ==
  /\ handler[c] = "serving"
  /\ done[c]
  /\ handler' = [handler EXCEPT ![c] = "returned"]
  /\ UNCHANGED <<tail, chan, readerVars, done, got, opened>>

ReaderStep(c) == Stop(c) \/ Poll(c) \/ Answer(c) \/ Timeout(c) \/ Push(c)
HandlerStep(c) == Write(c) \/ Return(c)

Next ==
  \/ Publish
  \/ \E c \in Client : \/ Connect(c) \/ Disconnect(c)
                       \/ ReaderStep(c) \/ ReadError(c)
                       \/ HandlerStep(c) \/ WriteError(c)

Spec == Init /\ [][Next]_vars

(***************************************************************************)
(* The goroutine always goes on: XREAD blocks five seconds at most and the *)
(* push never blocks; and its reads do not fail for ever.  A write to a    *)
(* connected client may block for ever; once the connection is gone it     *)
(* cannot.                                                                 *)
(***************************************************************************)
FairSpec ==
  /\ Spec
  /\ \A c \in Client : /\ WF_vars(ReaderStep(c))
                       /\ SF_vars(Answer(c))
                       /\ WF_vars(done[c] /\ HandlerStep(c))

-----------------------------------------------------------------------------
(***************************************************************************)
(* Properties.                                                             *)
(***************************************************************************)
TypeOK ==
  /\ tail \in Nat
  /\ lastID \in [Client -> Nat \cup {Dollar}]
  /\ from \in [Client -> Nat]
  /\ batch \in [Client -> Seq(Nat)]
  /\ reader \in [Client -> {"none", "poll", "blocked", "push", "exited"}]
  /\ chan \in [Client -> Seq(Nat)]
  /\ handler \in [Client -> {"none", "serving", "returned"}]
  /\ done \in [Client -> BOOLEAN]
  /\ got \in [Client -> Seq(Nat)]
  /\ dropped \in [Client -> SUBSET Nat]
  /\ opened \in [Client -> Nat]
  /\ since \in [Client -> Nat \cup {Dollar}]

Past(c) ==
  IF handler[c] = "none" THEN Dollar
  ELSE IF got[c] = << >> THEN opened[c] ELSE Last(got[c])

\* Whatever the goroutine, the handler and Redis interleave or fail, a client
\* receives notifications in order, at most once, and none that is older than
\* its connection.
F == INSTANCE Feed WITH Offline <- Dollar, past <- [c \in Client |-> Past(c)]
ImplementsFeed == F!Spec

Accounted(c) == ToSet(got[c]) \cup ToSet(chan[c]) \cup dropped[c]

\* Once the goroutine has read a notification, no later one is passed over
\* silently: it is received, waits in the channel, or the channel was full,
\* even if reads fail in between.
OnlyOverflowSkips ==
  \A c \in Client : handler[c] = "serving" /\ lastID[c] # Dollar =>
    /\ lastID[c] \in Accounted(c)
    /\ \A i \in Accounted(c) : (i..lastID[c]) \subseteq Accounted(c)

\* A client that goes away leaves neither its goroutine nor its handler behind,
\* whatever waits in the channel.
EverythingStops ==
  \A c \in Client : done[c] ~> reader[c] = "exited" /\ handler[c] = "returned"

\* A goroutine that has read a notification gets to every later one, unless
\* the client goes away.
ReaderKeepsUp ==
  \A c \in Client : \A i \in 1..TailBound :
    lastID[c] # Dollar /\ i <= tail ~> done[c] \/ (lastID[c] # Dollar /\ i <= lastID[c])

(***************************************************************************)
(* What the repository says of the stream and the code does not do.        *)
(***************************************************************************)
\* sse.go:38, "start from new messages": a message that is new to the
\* goroutine's first XREAD is not passed over.
NewMessagesAreRead ==
  \A c \in Client : handler[c] = "serving" /\ lastID[c] # Dollar =>
    ((since[c] + 1)..lastID[c]) \subseteq Accounted(c)
=============================================================================
