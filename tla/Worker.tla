------------------------------- MODULE Worker --------------------------------
(***************************************************************************)
(* The background worker of internal/worker/worker.go: it reads the        *)
(* processing stream through a Redis consumer group, turns every entry     *)
(* into a notification and acknowledges it.  Each running process has one, *)
(* under a consumer name of its own.                                       *)
(*                                                                         *)
(* Redis is modelled from how the worker uses it: the group remembers the  *)
(* last entry it delivered and the entries delivered but not acknowledged  *)
(* (its pending list); ">" asks for entries never delivered, so what is in *)
(* the pending list is never read again.  A read that times out, a read    *)
(* without a group and the pause after an error change nothing.            *)
(***************************************************************************)
EXTENDS Naturals, Sequences, FiniteSetsExt

CONSTANTS
  Workers,     \* processes that may run the worker
  Entry,       \* entries the producers append: [type, data] records
  Absent,      \* the value of a field an entry does not have
  BatchSize,   \* XREADGROUP COUNT
  Errors,      \* Redis calls may fail
  Crashes,     \* processes may die
  LogBound,    \* bound: entries appended
  NotesBound   \* bound: the driver resends an XADD only below this length

ASSUME WorkerAssumption ==
  /\ BatchSize \in Nat \ {0}
  /\ Errors \in BOOLEAN
  /\ Crashes \in BOOLEAN
  /\ LogBound \in Nat
  /\ NotesBound \in Nat

VARIABLES
  log,         \* the processing stream
  group,       \* the consumer group exists
  delivered,   \* position of the group's last-delivered-id
  pel,         \* positions delivered and not acknowledged
  at,          \* what each worker does: "down", "read", "process", "ack"
  batch,       \* positions each worker still holds in memory
  notes,       \* the notification stream; each entry with the position it comes
               \* from and the worker that wrote it
  dropped      \* positions whose XADD failed, its error dropped

vars == <<log, group, delivered, pel, at, batch, notes, dropped>>

Init ==
  /\ log = << >>
  /\ group = FALSE
  /\ delivered = 0
  /\ pel = {}
  /\ at = [w \in Workers |-> "down"]
  /\ batch = [w \in Workers |-> {}]
  /\ notes = << >>
  /\ dropped = {}

-----------------------------------------------------------------------------
\* The handlers append an entry.
Publish(m) ==
  /\ Len(log) < LogBound
  /\ log' = Append(log, m)
  /\ UNCHANGED <<group, delivered, pel, at, batch, notes, dropped>>

\* Mutant: the group is created anew at every start.
StartRecreates(w) ==
  /\ at[w] = "down"
  /\ at' = [at EXCEPT ![w] = "read"]
  /\ group' = TRUE
  /\ delivered' = 0
  /\ UNCHANGED <<log, pel, batch, notes, dropped>>

\* Mutant: the group starts at the stream's end.
StartAtEnd(w) ==
  /\ at[w] = "down"
  /\ at' = [at EXCEPT ![w] = "read"]
  /\ group' = TRUE
  /\ delivered' = IF group THEN delivered ELSE Len(log)
  /\ UNCHANGED <<log, pel, batch, notes, dropped>>

\* XGROUP CREATE MKSTREAM from position 0, BUSYGROUP accepted; any other error
\* is logged and the loop is entered all the same.
Start(w) ==
  /\ at[w] = "down"
  /\ at' = [at EXCEPT ![w] = "read"]
  /\ group' = TRUE \/ (Errors /\ UNCHANGED group)
  /\ UNCHANGED <<log, delivered, pel, batch, notes, dropped>>

\* Mutant: COUNT is forgotten.
NextBatchUncounted == (delivered + 1) .. Len(log)

\* What the group hands out next.
NextBatch == (delivered + 1) .. Min({delivered + BatchSize, Len(log)})

\* Mutant: the group is read with NOACK.
DeliverNoAck(w) ==
  /\ at[w] = "read"
  /\ group
  /\ NextBatch # {}
  /\ delivered' = Max(NextBatch)
  /\ UNCHANGED <<log, group, pel, notes, dropped>>

Deliver(w) ==
  /\ at[w] = "read"
  /\ group
  /\ NextBatch # {}
  /\ delivered' = Max(NextBatch)
  /\ pel' = pel \cup NextBatch
  /\ UNCHANGED <<log, group, notes, dropped>>

ReadGroup(w) ==
  /\ Deliver(w)
  /\ batch' = [batch EXCEPT ![w] = NextBatch]
  /\ at' = [at EXCEPT ![w] = "process"]

\* The reply is lost after the group has recorded the delivery.
ReadLost(w) ==
  /\ Errors
  /\ Deliver(w)
  /\ UNCHANGED <<at, batch>>

\* Mutant: the payload is taken from the wrong field.
NotificationSwapped(m) == [type |-> "transaction.pending", data |-> m.type]

\* The notification processTransaction builds: by its "data" field first, by
\* its "type" field otherwise, a bare one if it has neither.
NotificationOf(m) ==
  CASE m.data # Absent -> [type |-> "transaction.pending", data |-> m.data]
    [] m.data = Absent /\ m.type # Absent -> [type |-> m.type, data |-> ""]
    [] OTHER -> [type |-> Absent, data |-> Absent]

\* Mutant: the batch is walked backwards.
CurrentNewest(w) == Max(batch[w])

Current(w) == Min(batch[w])

Notify(w, copy) ==
  notes' = Append(notes, [src |-> Current(w), by |-> w, copy |-> copy,
                          note |-> NotificationOf(log[Current(w)])])

\* Mutant: processTransaction returns early, as its commented-out error path does.
ProcessReturns(w) ==
  /\ at[w] = "process"
  /\ at' = [at EXCEPT ![w] = "ack"]
  /\ UNCHANGED <<log, group, delivered, pel, batch, notes, dropped>>

\* processTransaction; the XADD error is dropped.
Process(w) ==
  /\ at[w] = "process"
  /\ \/ Notify(w, FALSE) /\ UNCHANGED dropped
     \/ Errors /\ dropped' = dropped \cup {Current(w)} /\ UNCHANGED notes
  /\ at' = [at EXCEPT ![w] = "ack"]
  /\ UNCHANGED <<log, group, delivered, pel, batch>>

\* go-redis resends an XADD whose reply timed out: the first one stays.
DriverResend(w) ==
  /\ Errors
  /\ at[w] = "process"
  /\ Len(notes) < NotesBound
  /\ Notify(w, TRUE)
  /\ UNCHANGED <<log, group, delivered, pel, at, batch, dropped>>

\* XACK, its error dropped as well; then the next message or the next read.
Ack(w) ==
  /\ at[w] = "ack"
  /\ pel' = pel \ {Current(w)} \/ (Errors /\ UNCHANGED pel)
  /\ batch' = [batch EXCEPT ![w] = @ \ {Current(w)}]
  /\ at' = [at EXCEPT ![w] = IF batch[w] = {Current(w)} THEN "read" ELSE "process"]
  /\ UNCHANGED <<log, group, delivered, notes, dropped>>

\* The process dies with what it holds; the next one has another name and does
\* not ask for the pending list.
Crash(w) ==
  /\ Crashes
  /\ at[w] # "down"
  /\ at' = [at EXCEPT ![w] = "down"]
  /\ batch' = [batch EXCEPT ![w] = {}]
  /\ UNCHANGED <<log, group, delivered, pel, notes, dropped>>

Step(w) == Start(w) \/ ReadGroup(w) \/ Process(w) \/ Ack(w)

Next ==
  \/ \E m \in Entry : Publish(m)
  \/ \E w \in Workers : Step(w) \/ ReadLost(w) \/ DriverResend(w) \/ Crash(w)

Spec == Init /\ [][Next]_vars

(***************************************************************************)
(* main starts the worker and its loop never returns; a process that dies  *)
(* is started again, and does not die or lose the reply for ever before it *)
(* has read anything.                                                      *)
(***************************************************************************)
FairSpec ==
  /\ Spec
  /\ \A w \in Workers : WF_vars(Step(w)) /\ SF_vars(ReadGroup(w))

-----------------------------------------------------------------------------
(***************************************************************************)
(* Properties.                                                             *)
(***************************************************************************)
Busy(w) == at[w] \in {"process", "ack"}

Note == [src : Nat,
         by : Workers,
         note : [type : {"transaction.pending", Absent} \cup {m.type : m \in Entry},
                 data : {"", Absent} \cup {m.data : m \in Entry}],
         copy : BOOLEAN]

TypeOK ==
  /\ log \in Seq(Entry)
  /\ group \in BOOLEAN
  /\ delivered \in Nat
  /\ pel \in SUBSET Nat
  /\ at \in [Workers -> {"down", "read", "process", "ack"}]
  /\ batch \in [Workers -> SUBSET Nat]
  /\ notes \in Seq(Note)
  /\ dropped \in SUBSET Nat

\* The positions a worker holds and has not turned into a notification yet.
Unprocessed(w) == IF at[w] = "ack" THEN batch[w] \ {Current(w)} ELSE batch[w]

Notified(i) == \E k \in DOMAIN notes : notes[k].src = i

\* Whatever dies or fails, no entry is processed twice: a second notification
\* of an entry is the driver's resend of the first.
ProcessedOnce ==
  \A k, l \in DOMAIN notes :
    notes[k].src = notes[l].src /\ ~notes[k].copy /\ ~notes[l].copy => k = l

\* Two workers never hold the same entry, and what they hold has been delivered
\* and is not acknowledged.
HeldByOne ==
  /\ \A w \in Workers : batch[w] \subseteq pel
  /\ pel \subseteq 1..delivered
  /\ \A v, w \in Workers : v # w => batch[v] \cap batch[w] = {}

\* In the pending list and in no worker's memory.
Stranded(i) == i \in pel /\ \A w \in Workers : i \notin batch[w]

\* A delivered entry without a notification is about to get one, was stranded in
\* the pending list by a crash or a lost reply, or its XADD failed: nothing else
\* loses an entry.
MissingIsStranded ==
  \A i \in 1..delivered :
    \/ Notified(i)
    \/ i \in dropped
    \/ Stranded(i)
    \/ \E w \in Workers : i \in Unprocessed(w)

\* What became of an entry.
Fate(i) ==
  CASE Notified(i) -> "announced"
    [] ~Notified(i) /\ (i \in dropped \/ Stranded(i)) -> "lost"
    [] OTHER -> "waiting"

\* Whatever dies or fails, what became of an entry is final: one that is left in
\* the pending list by a dead worker or a lost reply is announced by no later
\* worker, however many are started, and an announced one stays so.
R == INSTANCE Relay WITH fate <- [i \in DOMAIN log |-> Fate(i)]
ImplementsRelay == R!Spec

\* A worker keeps the order of the stream, across its restarts.
InOrder ==
  \A k, l \in DOMAIN notes :
    k < l /\ notes[k].by = notes[l].by => notes[k].src <= notes[l].src

\* Once there is a group (nothing creates it if the first attempt fails), every
\* entry is settled: notified, given up with its error, or stranded.  Without
\* errors and crashes only the first is left.
EntrySettles ==
  \A i \in 1..LogBound :
    group /\ i <= Len(log) ~> Notified(i) \/ i \in dropped \/ Stranded(i)
=============================================================================
