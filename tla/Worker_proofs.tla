---------------------------- MODULE Worker_proofs ----------------------------
(***************************************************************************)
(* Proofs about the worker, for any number of processes, any batch size    *)
(* and any entries.                                                        *)
(***************************************************************************)
EXTENDS Worker, SequenceTheorems, TLAPS

-----------------------------------------------------------------------------
(***************************************************************************)
(* The inductive invariant.                                                *)
(***************************************************************************)
\* The group hands out entries that exist, and a worker that is busy holds the
\* rest of what it was handed, an interval.
BatchesAreRests ==
  /\ delivered <= Len(log)
  /\ \A w \in Workers : /\ \E a \in 1..(delivered + 1), b \in 0..delivered : batch[w] = a..b
                        /\ Busy(w) <=> batch[w] # {}

\* Nothing is notified or given up before it was delivered.
NothingIsEarly ==
  /\ \A k \in DOMAIN notes : notes[k].src \in 1..delivered
  /\ dropped \subseteq 1..delivered

\* What is written of an entry so far is the driver's first attempt.
OnlyCopies(i) == \A k \in DOMAIN notes : notes[k].src = i => notes[k].copy

\* An entry about to be processed may have been notified by the driver's first
\* attempt, not otherwise; one about to be acknowledged was processed.
ProcessingIsFirst ==
  \A w \in Workers :
    /\ \A i \in Unprocessed(w) : i \notin dropped /\ OnlyCopies(i)
    /\ at[w] = "ack" => Notified(Current(w)) \/ Current(w) \in dropped

\* What a worker has notified is not past what it holds.
NotesLeadBatch ==
  \A k \in DOMAIN notes : \A i \in batch[notes[k].by] : notes[k].src <= i

IInv ==
  /\ TypeOK
  /\ HeldByOne
  /\ BatchesAreRests
  /\ NothingIsEarly
  /\ ProcessingIsFirst
  /\ NotesLeadBatch
  /\ ProcessedOnce
  /\ MissingIsStranded
  /\ InOrder

-----------------------------------------------------------------------------
(***************************************************************************)
(* What the group hands out, and what a worker takes next.                 *)
(***************************************************************************)
\* The first position of an interval.
LEMMA MinOfInterval ==
  ASSUME NEW a \in Nat, NEW b \in Nat, a <= b
  PROVE  Min(a..b) = a
BY DEF Min

\* The last position of an interval.
LEMMA MaxOfInterval ==
  ASSUME NEW a \in Nat, NEW b \in Nat, a <= b
  PROVE  Max(a..b) = b
BY DEF Max

\* The smaller of two bounds.
LEMMA MinOfTwo ==
  ASSUME NEW a \in Nat, NEW b \in Nat
  PROVE  Min({a, b}) = IF a <= b THEN a ELSE b
BY DEF Min

\* XREADGROUP hands out the entries that follow the last one delivered, at most
\* BatchSize of them and none that does not exist.
LEMMA NextBatchFollows ==
  ASSUME TypeOK, NextBatch # {}
  PROVE  /\ Max(NextBatch) \in Nat
         /\ delivered < Max(NextBatch)
         /\ Max(NextBatch) <= Len(log)
         /\ NextBatch = (delivered + 1)..Max(NextBatch)
<1> DEFINE last == Min({delivered + BatchSize, Len(log)})
<1>1. /\ delivered \in Nat
      /\ Len(log) \in Nat
      /\ delivered + BatchSize \in Nat
  BY WorkerAssumption, LenProperties DEF TypeOK
<1>2. last \in Nat /\ last <= Len(log)
  BY <1>1, MinOfTwo
<1>3. NextBatch = (delivered + 1)..last
  BY DEF NextBatch
<1> HIDE DEF last
<1>4. delivered + 1 <= last
  BY <1>1, <1>2, <1>3
<1>5. Max(NextBatch) = last
  BY <1>1, <1>2, <1>3, <1>4, MaxOfInterval
<1> QED
  BY <1>1, <1>2, <1>3, <1>4, <1>5

\* A busy worker's current entry is the first of those it holds, and when it is
\* done with it the rest is an interval again.
LEMMA CurrentIsFirst ==
  ASSUME TypeOK, HeldByOne, BatchesAreRests, NEW w \in Workers, Busy(w)
  PROVE  /\ Current(w) \in batch[w]
         /\ Current(w) \in 1..delivered
         /\ \A i \in batch[w] : Current(w) <= i
         /\ \E a \in 1..(delivered + 1), b \in 0..delivered :
              batch[w] \ {Current(w)} = a..b
<1>1. delivered \in Nat
  BY DEF TypeOK
<1>2. PICK a \in 1..(delivered + 1), b \in 0..delivered : batch[w] = a..b
  BY DEF BatchesAreRests
<1>3. a <= b
  BY <1>1, <1>2 DEF BatchesAreRests
<1>4. Current(w) = a
  BY <1>1, <1>2, <1>3, MinOfInterval DEF Current
<1>5. batch[w] \ {a} = (a + 1)..b
  BY <1>1, <1>2
<1>6. a + 1 \in 1..(delivered + 1)
  BY <1>1, <1>3
<1> QED
  BY <1>1, <1>2, <1>3, <1>4, <1>5, <1>6

\* The notification of an entry has the fields a notification can have.
LEMMA NotificationIsTyped ==
  ASSUME NEW m \in Entry
  PROVE  NotificationOf(m) \in
           [type : {"transaction.pending", Absent} \cup {n.type : n \in Entry},
            data : {"", Absent} \cup {n.data : n \in Entry}]
BY DEF NotificationOf

\* One notification more: the others stay where they are.
LEMMA NotifyAppends ==
  ASSUME TypeOK, HeldByOne, BatchesAreRests,
         NEW w \in Workers, Busy(w), NEW copy \in BOOLEAN, Notify(w, copy)
  PROVE  /\ notes' \in Seq(Note)
         /\ DOMAIN notes' = DOMAIN notes \cup {Len(notes) + 1}
         /\ Len(notes) + 1 \notin DOMAIN notes
         /\ \A k \in DOMAIN notes : notes'[k] = notes[k] /\ k < Len(notes) + 1
         /\ notes'[Len(notes) + 1].src = Current(w)
         /\ notes'[Len(notes) + 1].by = w
         /\ notes'[Len(notes) + 1].copy = copy
         /\ notes'[Len(notes) + 1].note = NotificationOf(log[Current(w)])
<1> DEFINE n == [src |-> Current(w), by |-> w, copy |-> copy,
                 note |-> NotificationOf(log[Current(w)])]
<1>1. Current(w) \in 1..delivered
  BY CurrentIsFirst
<1>2. Current(w) \in 1..Len(log) /\ Current(w) \in Nat
  BY <1>1, LenProperties DEF TypeOK, BatchesAreRests
<1>3. log[Current(w)] \in Entry
  BY <1>2, ElementOfSeq DEF TypeOK
<1>4. n \in Note
  BY <1>2, <1>3, NotificationIsTyped DEF Note
<1>5. notes' = Append(notes, n) /\ notes \in Seq(Note)
  BY DEF Notify, TypeOK
<1> HIDE DEF n
<1>6. /\ notes' \in Seq(Note)
      /\ Len(notes') = Len(notes) + 1
      /\ \A k \in 1..Len(notes) : notes'[k] = notes[k]
      /\ notes'[Len(notes) + 1] = n
  BY <1>4, <1>5, AppendProperties
<1>7. /\ DOMAIN notes = 1..Len(notes)
      /\ Len(notes) \in Nat
      /\ DOMAIN notes' = 1..(Len(notes) + 1)
  BY <1>5, <1>6, LenProperties
<1> QED
  BY <1>6, <1>7 DEF n

-----------------------------------------------------------------------------
(***************************************************************************)
(* Every step preserves the invariant.                                     *)
(***************************************************************************)
\* Nothing is delivered, held or notified yet.
LEMMA InitIInv == Init => IInv
<1> SUFFICES ASSUME Init PROVE IInv
  OBVIOUS
<1>1. TypeOK
  BY EmptySeq DEF Init, TypeOK
<1>2. BatchesAreRests
  <2>1. \A w \in Workers : batch[w] = 1..0
    BY DEF Init
  <2> QED
    BY <2>1 DEF Init, BatchesAreRests, Busy
<1> QED
  BY <1>1, <1>2 DEF Init, IInv, HeldByOne, NothingIsEarly, ProcessingIsFirst,
     Unprocessed, NotesLeadBatch, ProcessedOnce, MissingIsStranded, InOrder

\* A new entry is past everything delivered, and says nothing of the others.
LEMMA PublishKeeps ==
  ASSUME IInv, NEW m \in Entry, Publish(m)
  PROVE  IInv'
<1> USE DEF IInv, Publish
<1>1. log' \in Seq(Entry) /\ Len(log') = Len(log) + 1 /\ Len(log) \in Nat
  BY AppendProperties, LenProperties DEF TypeOK
<1>2. TypeOK'
  BY <1>1 DEF TypeOK
<1>3. BatchesAreRests'
  BY <1>1 DEF BatchesAreRests, TypeOK, Busy
<1> QED
  BY <1>2, <1>3 DEF HeldByOne, NothingIsEarly, ProcessingIsFirst, OnlyCopies, Unprocessed,
     Current, Notified, NotesLeadBatch, ProcessedOnce, MissingIsStranded, Stranded, InOrder

\* A worker that starts holds nothing.
LEMMA StartKeeps ==
  ASSUME IInv, NEW w \in Workers, Start(w)
  PROVE  IInv'
<1> USE DEF IInv
<1>1. /\ at[w] = "down"
      /\ at' = [at EXCEPT ![w] = "read"]
      /\ group' \in BOOLEAN
      /\ UNCHANGED <<log, delivered, pel, batch, notes, dropped>>
  BY DEF Start, TypeOK
<1>2. \A v \in Workers : at'[v] = at[v] \/ (v = w /\ at'[v] = "read" /\ at[v] = "down")
  BY <1>1 DEF TypeOK
<1>3. \A v \in Workers : Unprocessed(v)' = Unprocessed(v) /\ (Busy(v)' <=> Busy(v))
  BY <1>1, <1>2 DEF Unprocessed, Current, Busy
<1>4. TypeOK'
  BY <1>1 DEF TypeOK
<1>5. BatchesAreRests'
  BY <1>1, <1>3 DEF BatchesAreRests
<1>6. ProcessingIsFirst'
  BY <1>1, <1>2, <1>3 DEF ProcessingIsFirst, OnlyCopies, Notified, Current
<1>7. MissingIsStranded'
  BY <1>1, <1>3 DEF MissingIsStranded, Notified, Stranded
<1> QED
  BY <1>1, <1>4, <1>5, <1>6, <1>7
  DEF HeldByOne, NothingIsEarly, NotesLeadBatch, ProcessedOnce, InOrder

\* What the group delivers is new: to the group, to the workers, to the
\* notifications.
LEMMA DeliverIsNew ==
  ASSUME IInv, NEW w \in Workers, Deliver(w)
  PROVE  /\ delivered' \in Nat
         /\ delivered < delivered'
         /\ delivered' <= Len(log)
         /\ NextBatch = (delivered + 1)..delivered'
         /\ 1..delivered' = 1..delivered \cup NextBatch
         /\ pel' = pel \cup NextBatch
         /\ pel' \in SUBSET Nat
         /\ NextBatch \in SUBSET Nat
         /\ UNCHANGED <<log, group, notes, dropped>>
         /\ \A i \in NextBatch : /\ i \notin pel
                                 /\ i \notin dropped
                                 /\ ~Notified(i)
                                 /\ \A v \in Workers : i \notin batch[v]
<1> USE DEF IInv
<1>1. /\ delivered' \in Nat
      /\ delivered < delivered'
      /\ delivered' <= Len(log)
      /\ NextBatch = (delivered + 1)..delivered'
  BY NextBatchFollows DEF Deliver
<1>2. delivered \in Nat
  BY DEF TypeOK
<1>3. 1..delivered' = 1..delivered \cup NextBatch
  BY <1>1, <1>2
<1>4. \A i \in NextBatch : i \notin 1..delivered
  BY <1>1, <1>2
<1>5. NextBatch \in SUBSET Nat
  BY <1>1, <1>2
<1>6. pel' = pel \cup NextBatch /\ pel' \in SUBSET Nat
  BY <1>5 DEF Deliver, TypeOK
<1> QED
  BY <1>1, <1>3, <1>4, <1>5, <1>6 DEF Deliver, HeldByOne, NothingIsEarly, Notified

\* The batch goes to the worker that asked, whole and to nobody else.
LEMMA ReadGroupKeeps ==
  ASSUME IInv, NEW w \in Workers, ReadGroup(w)
  PROVE  IInv'
<1> USE DEF IInv
<1>1. /\ at[w] = "read"
      /\ at' = [at EXCEPT ![w] = "process"]
      /\ batch' = [batch EXCEPT ![w] = NextBatch]
      /\ Deliver(w)
      /\ delivered \in Nat
  BY DEF ReadGroup, Deliver, TypeOK
<1>2. /\ batch[w] = {}
      /\ batch'[w] = NextBatch
      /\ at'[w] = "process"
      /\ \A v \in Workers \ {w} : batch'[v] = batch[v] /\ at'[v] = at[v]
      /\ NextBatch # {}
  BY <1>1 DEF TypeOK, BatchesAreRests, Busy, Deliver
<1>3. TypeOK'
  BY <1>1, DeliverIsNew DEF TypeOK
<1>4. HeldByOne'
  <2>1. \A v \in Workers : batch'[v] \subseteq pel'
    BY <1>2, <1>1, DeliverIsNew DEF HeldByOne
  <2>2. pel' \subseteq 1..delivered'
    BY <1>1, DeliverIsNew DEF HeldByOne
  <2>3. \A u, v \in Workers : u # v => batch'[u] \cap batch'[v] = {}
    BY <1>1, <1>2, DeliverIsNew DEF HeldByOne
  <2> QED
    BY <2>1, <2>2, <2>3 DEF HeldByOne
<1>5. BatchesAreRests'
  <2>1. \A v \in Workers \ {w} :
          \E a \in 1..(delivered' + 1), b \in 0..delivered' : batch'[v] = a..b
    BY <1>1, <1>2, DeliverIsNew DEF BatchesAreRests
  <2>2. \E a \in 1..(delivered' + 1), b \in 0..delivered' : batch'[w] = a..b
    BY <1>1, <1>2, DeliverIsNew
  <2>3. \A v \in Workers : \E a \in 1..(delivered' + 1), b \in 0..delivered' : batch'[v] = a..b
    BY <2>1, <2>2, Zenon
  <2>4. \A v \in Workers : Busy(v)' <=> batch'[v] # {}
    BY <1>2 DEF BatchesAreRests, Busy
  <2>5. delivered' <= Len(log)'
    BY <1>1, DeliverIsNew
  <2> QED
    BY <2>3, <2>4, <2>5, Zenon DEF BatchesAreRests
<1>6. NothingIsEarly'
  BY <1>1, DeliverIsNew DEF NothingIsEarly
<1>7. \A v \in Workers \ {w} : Unprocessed(v)' = Unprocessed(v) /\ Current(v)' = Current(v)
  BY <1>2 DEF Unprocessed, Current
<1>8. Unprocessed(w)' = NextBatch
  BY <1>2 DEF Unprocessed
<1>9. ProcessingIsFirst'
  BY <1>1, <1>2, <1>7, <1>8, DeliverIsNew DEF ProcessingIsFirst, OnlyCopies, Notified
<1>10. NotesLeadBatch'
  <2>1. \A k \in DOMAIN notes : \A i \in NextBatch : notes[k].src <= i
    BY <1>1, DeliverIsNew DEF NothingIsEarly
  <2>2. \A k \in DOMAIN notes : notes[k].by \in Workers
    <3>1. \A k \in DOMAIN notes : notes[k] \in Note
      BY ElementOfSeq, LenProperties DEF TypeOK
    <3> QED
      BY <3>1 DEF Note
  <2> QED
    BY <1>1, <1>2, <2>1, <2>2, DeliverIsNew DEF NotesLeadBatch
<1>11. MissingIsStranded'
  <2>1. \A i \in 1..delivered : Stranded(i) => Stranded(i)'
    BY <1>1, <1>2, DeliverIsNew DEF Stranded
  <2>2. \A i \in 1..delivered, v \in Workers : i \in Unprocessed(v) => i \in Unprocessed(v)'
    BY <1>2, <1>7 DEF Unprocessed
  <2> QED
    BY <1>1, <1>8, <2>1, <2>2, DeliverIsNew DEF MissingIsStranded, Notified
<1> QED
  BY <1>1, <1>3, <1>4, <1>5, <1>6, <1>9, <1>10, <1>11, DeliverIsNew
  DEF ProcessedOnce, InOrder

\* A delivery whose reply is lost is stranded: no worker holds it.
LEMMA ReadLostKeeps ==
  ASSUME IInv, NEW w \in Workers, ReadLost(w)
  PROVE  IInv'
<1> USE DEF IInv
<1>1. Deliver(w) /\ UNCHANGED <<at, batch>> /\ delivered \in Nat
  BY DEF ReadLost, TypeOK
<1>2. TypeOK'
  BY <1>1, DeliverIsNew DEF TypeOK
<1>3. HeldByOne'
  BY <1>1, DeliverIsNew DEF HeldByOne
<1>4. BatchesAreRests'
  BY <1>1, DeliverIsNew DEF BatchesAreRests, Busy
<1>5. NothingIsEarly'
  BY <1>1, DeliverIsNew DEF NothingIsEarly
<1>6. ProcessingIsFirst'
  BY <1>1, DeliverIsNew DEF ProcessingIsFirst, OnlyCopies, Unprocessed, Current, Notified
<1>7. MissingIsStranded'
  BY <1>1, DeliverIsNew DEF MissingIsStranded, Unprocessed, Current, Notified, Stranded
<1> QED
  BY <1>1, <1>2, <1>3, <1>4, <1>5, <1>6, <1>7, DeliverIsNew
  DEF NotesLeadBatch, ProcessedOnce, InOrder

\* Who wrote a notification is a worker.
LEMMA WritersAreWorkers ==
  ASSUME TypeOK
  PROVE  \A k \in DOMAIN notes : notes[k].by \in Workers /\ notes[k].src \in Nat
<1>1. \A k \in DOMAIN notes : notes[k] \in Note
  BY ElementOfSeq, LenProperties DEF TypeOK
<1> QED
  BY <1>1 DEF Note

\* One notification more of the entry a worker is processing, the driver's or the
\* worker's own: everything that is said of the notifications alone stays true.
LEMMA NotifyKeeps ==
  ASSUME IInv, NEW w \in Workers, at[w] = "process", NEW copy \in BOOLEAN,
         Notify(w, copy), UNCHANGED <<log, group, delivered, pel, batch, dropped>>
  PROVE  /\ notes' \in Seq(Note)
         /\ HeldByOne'
         /\ NothingIsEarly'
         /\ NotesLeadBatch'
         /\ ProcessedOnce'
         /\ InOrder'
         /\ \A i : Notified(i)' <=> Notified(i) \/ i = Current(w)
         /\ \A i : OnlyCopies(i) /\ (copy \/ i # Current(w)) => OnlyCopies(i)'
<1> USE DEF IInv
<1> DEFINE n == Len(notes) + 1
<1>1. Busy(w)
  BY DEF Busy
<1>2. /\ notes' \in Seq(Note)
      /\ DOMAIN notes' = DOMAIN notes \cup {n}
      /\ n \notin DOMAIN notes
      /\ \A k \in DOMAIN notes : notes'[k] = notes[k] /\ k < n
      /\ notes'[n].src = Current(w)
      /\ notes'[n].by = w
      /\ notes'[n].copy = copy
  BY <1>1, NotifyAppends
<1>3. n \in Nat /\ DOMAIN notes \subseteq Nat
  BY LenProperties DEF TypeOK
<1>4. /\ Current(w) \in batch[w]
      /\ Current(w) \in 1..delivered
      /\ \A i \in batch[w] : Current(w) <= i
  BY <1>1, CurrentIsFirst
<1> HIDE DEF n
<1>5. HeldByOne'
  BY DEF HeldByOne
<1>6. NothingIsEarly'
  BY <1>2, <1>4 DEF NothingIsEarly
<1>7. NotesLeadBatch'
  BY <1>2, <1>4 DEF NotesLeadBatch
<1>8. ProcessedOnce'
  <2>1. OnlyCopies(Current(w))
    BY <1>4 DEF ProcessingIsFirst, Unprocessed
  <2> QED
    BY <1>2, <2>1 DEF ProcessedOnce, OnlyCopies
<1>9. InOrder'
  <2>1. \A k \in DOMAIN notes : notes[k].by = w => notes[k].src <= Current(w)
    BY <1>4 DEF NotesLeadBatch
  <2>2. \A k, l \in DOMAIN notes' :
          k < l /\ notes'[k].by = notes'[l].by => notes'[k].src <= notes'[l].src
    <3> SUFFICES ASSUME NEW k \in DOMAIN notes', NEW l \in DOMAIN notes', k < l,
                        notes'[k].by = notes'[l].by
                 PROVE  notes'[k].src <= notes'[l].src
      OBVIOUS
    <3>1. k \in DOMAIN notes
      BY <1>2, <1>3
    <3>2. CASE l \in DOMAIN notes
      BY <1>2, <3>1, <3>2 DEF InOrder
    <3>3. CASE l = n
      BY <1>2, <2>1, <3>1, <3>3
    <3> QED
      BY <1>2, <3>2, <3>3
  <2> QED
    BY <2>2 DEF InOrder
<1>10. \A i : Notified(i)' <=> Notified(i) \/ i = Current(w)
  BY <1>2 DEF Notified
<1>11. \A i : OnlyCopies(i) /\ (copy \/ i # Current(w)) => OnlyCopies(i)'
  BY <1>2 DEF OnlyCopies
<1> QED
  BY <1>2, <1>5, <1>6, <1>7, <1>8, <1>9, <1>10, <1>11

\* The driver's first attempt is a copy, so the worker's own is still the only one.
LEMMA DriverResendKeeps ==
  ASSUME IInv, NEW w \in Workers, DriverResend(w)
  PROVE  IInv'
<1> USE DEF IInv
<1>1. /\ at[w] = "process"
      /\ Notify(w, TRUE)
      /\ UNCHANGED <<log, group, delivered, pel, at, batch, dropped>>
  BY DEF DriverResend
<1>2. TypeOK'
  BY <1>1, NotifyKeeps DEF TypeOK
<1>3. BatchesAreRests'
  BY <1>1 DEF BatchesAreRests, Busy
<1>4. /\ \A i : OnlyCopies(i) => OnlyCopies(i)'
      /\ \A i : Notified(i) => Notified(i)'
  BY <1>1, NotifyKeeps
<1>5. ProcessingIsFirst'
  BY <1>1, <1>4 DEF ProcessingIsFirst, Unprocessed, Current
<1>6. MissingIsStranded'
  BY <1>1, <1>4 DEF MissingIsStranded, Unprocessed, Current, Stranded
<1> QED
  BY <1>1, <1>2, <1>3, <1>5, <1>6, NotifyKeeps

\* The entry is notified or given up, and is not processed by anyone any more.
LEMMA ProcessKeeps ==
  ASSUME IInv, NEW w \in Workers, Process(w)
  PROVE  IInv'
<1> USE DEF IInv
<1> DEFINE c == Current(w)
<1>1. /\ at[w] = "process"
      /\ at' = [at EXCEPT ![w] = "ack"]
      /\ UNCHANGED <<log, group, delivered, pel, batch>>
  BY DEF Process
<1>2. /\ at'[w] = "ack"
      /\ \A v \in Workers \ {w} : at'[v] = at[v]
      /\ \A v \in Workers : batch[v] \subseteq Nat
  BY <1>1 DEF TypeOK
<1>3. c \in batch[w] /\ c \in 1..delivered /\ c \in Nat
  BY <1>1, CurrentIsFirst DEF Busy
<1>4. \A v \in Workers \ {w} : c \notin batch[v]
  BY <1>3 DEF HeldByOne
<1>5. \A v \in Workers : Current(v)' = Current(v)
  BY <1>1 DEF Current
<1>6. /\ \A v \in Workers \ {w} : Unprocessed(v)' = Unprocessed(v)
      /\ Unprocessed(w)' = Unprocessed(w) \ {c}
      /\ c \in Unprocessed(w)
      /\ \A v \in Workers : Unprocessed(v) \subseteq batch[v]
  BY <1>1, <1>2, <1>3, <1>5 DEF Unprocessed
<1>7. \A v \in Workers : c \notin Unprocessed(v)'
  BY <1>4, <1>6
<1>8. BatchesAreRests'
  BY <1>1, <1>2 DEF BatchesAreRests, Busy
<1> HIDE DEF c
<1>10. CASE Notify(w, FALSE) /\ UNCHANGED dropped
  <2>1. TypeOK'
    BY <1>1, <1>10, NotifyKeeps DEF TypeOK
  <2>2. \A i : Notified(i) \/ i = c => Notified(i)'
    BY <1>1, <1>10, NotifyKeeps DEF c
  <2>3. \A i : OnlyCopies(i) /\ i # c => OnlyCopies(i)'
    BY <1>1, <1>10, NotifyKeeps DEF c
  <2>4. ProcessingIsFirst'
    <3>1. \A v \in Workers : \A i \in Unprocessed(v)' : i \notin dropped' /\ OnlyCopies(i)'
      BY <1>6, <1>7, <1>10, <2>3 DEF ProcessingIsFirst
    <3>2. \A v \in Workers : at'[v] = "ack" => Notified(Current(v))' \/ Current(v)' \in dropped'
      BY <1>2, <1>5, <1>10, <2>2 DEF ProcessingIsFirst, c
    <3> QED
      BY <3>1, <3>2 DEF ProcessingIsFirst
  <2>5. MissingIsStranded'
    BY <1>1, <1>6, <1>10, <2>2 DEF MissingIsStranded, Stranded
  <2> QED
    BY <1>1, <1>8, <1>10, <2>1, <2>4, <2>5, NotifyKeeps
<1>11. CASE dropped' = dropped \cup {c} /\ UNCHANGED notes
  <2>1. TypeOK'
    BY <1>1, <1>3, <1>11 DEF TypeOK
  <2>2. ProcessingIsFirst'
    <3>1. \A v \in Workers : \A i \in Unprocessed(v)' : i \notin dropped' /\ OnlyCopies(i)'
      BY <1>6, <1>7, <1>11 DEF ProcessingIsFirst, OnlyCopies
    <3>2. \A v \in Workers : at'[v] = "ack" => Notified(Current(v))' \/ Current(v)' \in dropped'
      BY <1>2, <1>5, <1>11 DEF ProcessingIsFirst, Notified, c
    <3> QED
      BY <3>1, <3>2 DEF ProcessingIsFirst
  <2>3. MissingIsStranded'
    BY <1>1, <1>6, <1>11 DEF MissingIsStranded, Stranded, Notified
  <2> QED
    BY <1>1, <1>3, <1>8, <1>11, <2>1, <2>2, <2>3
    DEF HeldByOne, NothingIsEarly, NotesLeadBatch, ProcessedOnce, InOrder
<1> QED
  BY <1>10, <1>11 DEF Process, c

\* An entry leaves a worker's memory only when it is notified or given up,
\* whether Redis hears of it or not.
LEMMA AckKeeps ==
  ASSUME IInv, NEW w \in Workers, Ack(w)
  PROVE  IInv'
<1> USE DEF IInv
<1> DEFINE c == Current(w)
           rest == batch[w] \ {c}
<1>1. /\ at[w] = "ack"
      /\ at' = [at EXCEPT ![w] = IF batch[w] = {c} THEN "read" ELSE "process"]
      /\ batch' = [batch EXCEPT ![w] = rest]
      /\ pel' = pel \ {c} \/ pel' = pel
      /\ UNCHANGED <<log, group, delivered, notes, dropped>>
  BY DEF Ack
<1>2. /\ c \in batch[w]
      /\ c \in 1..delivered
      /\ \A i \in batch[w] : c <= i
      /\ \E a \in 1..(delivered + 1), b \in 0..delivered : rest = a..b
  BY <1>1, CurrentIsFirst DEF Busy
<1>3. Notified(c) \/ c \in dropped
  BY <1>1 DEF ProcessingIsFirst
<1> HIDE DEF c
<1>4. /\ batch'[w] = rest
      /\ at'[w] = IF rest = {} THEN "read" ELSE "process"
      /\ \A v \in Workers \ {w} : batch'[v] = batch[v] /\ at'[v] = at[v]
  BY <1>1, <1>2 DEF TypeOK
<1>5. \A v \in Workers : batch'[v] \subseteq batch[v]
  BY <1>4
<1>6. /\ Unprocessed(w) = rest
      /\ \A v \in Workers : Unprocessed(v)' = Unprocessed(v)
      /\ \A v \in Workers \ {w} : Current(v)' = Current(v)
  BY <1>1, <1>4 DEF Unprocessed, Current, c
<1>7. \A v \in Workers \ {w} : c \notin batch[v]
  BY <1>2 DEF HeldByOne
<1>8. TypeOK'
  <2>1. batch' \in [Workers -> SUBSET Nat]
    BY <1>1 DEF TypeOK
  <2> QED
    BY <1>1, <2>1 DEF TypeOK
<1>9. HeldByOne'
  <2>1. \A v \in Workers : c \notin batch'[v]
    BY <1>4, <1>7
  <2>2. pel' \subseteq 1..delivered'
    BY <1>1 DEF HeldByOne
  <2>3. \A v \in Workers : batch'[v] \subseteq pel'
    BY <1>1, <1>5, <2>1 DEF HeldByOne
  <2>4. \A u, v \in Workers : u # v => batch'[u] \cap batch'[v] = {}
    BY <1>5 DEF HeldByOne
  <2> QED
    BY <2>2, <2>3, <2>4 DEF HeldByOne
<1>10. BatchesAreRests'
  <2>1. \A v \in Workers :
          \E a \in 1..(delivered + 1), b \in 0..delivered : batch'[v] = a..b
    BY <1>2, <1>4 DEF BatchesAreRests
  <2>2. \A v \in Workers : Busy(v)' <=> batch'[v] # {}
    BY <1>4 DEF BatchesAreRests, Busy
  <2> QED
    BY <1>1, <2>1, <2>2 DEF BatchesAreRests
<1>11. ProcessingIsFirst'
  BY <1>1, <1>4, <1>6 DEF ProcessingIsFirst, OnlyCopies, Notified
<1>12. NotesLeadBatch'
  BY <1>1, <1>5, WritersAreWorkers DEF NotesLeadBatch
<1>13. MissingIsStranded'
  <2>1. \A i \in 1..delivered : i # c => (Stranded(i) => Stranded(i)')
    BY <1>1, <1>5 DEF Stranded
  <2> QED
    BY <1>1, <1>3, <1>6, <2>1 DEF MissingIsStranded, Notified
<1> QED
  BY <1>1, <1>8, <1>9, <1>10, <1>11, <1>12, <1>13 DEF NothingIsEarly, ProcessedOnce, InOrder

\* What a dying process holds stays in the pending list.
LEMMA CrashKeeps ==
  ASSUME IInv, NEW w \in Workers, Crash(w)
  PROVE  IInv'
<1> USE DEF IInv
<1>1. /\ at' = [at EXCEPT ![w] = "down"]
      /\ batch' = [batch EXCEPT ![w] = {}]
      /\ UNCHANGED <<log, group, delivered, pel, notes, dropped>>
  BY DEF Crash
<1>2. /\ batch'[w] = {}
      /\ at'[w] = "down"
      /\ \A v \in Workers \ {w} : batch'[v] = batch[v] /\ at'[v] = at[v]
  BY <1>1 DEF TypeOK
<1>3. /\ Unprocessed(w)' = {}
      /\ \A v \in Workers \ {w} : Unprocessed(v)' = Unprocessed(v) /\ Current(v)' = Current(v)
  BY <1>2 DEF Unprocessed, Current
<1>4. TypeOK'
  BY <1>1 DEF TypeOK
<1>5. HeldByOne'
  BY <1>1, <1>2 DEF HeldByOne
<1>6. BatchesAreRests'
  <2>1. delivered \in Nat /\ batch'[w] = 1..0
    BY <1>2 DEF TypeOK
  <2> QED
    BY <1>1, <1>2, <2>1 DEF BatchesAreRests, Busy
<1>7. ProcessingIsFirst'
  BY <1>1, <1>2, <1>3 DEF ProcessingIsFirst, OnlyCopies, Notified
<1>8. NotesLeadBatch'
  BY <1>1, <1>2, WritersAreWorkers DEF NotesLeadBatch
<1>9. MissingIsStranded'
  <2>1. \A i \in 1..delivered : Stranded(i) => Stranded(i)'
    BY <1>1, <1>2 DEF Stranded
  <2>2. \A i \in 1..delivered : i \in batch[w] => Stranded(i)'
    BY <1>1, <1>2 DEF HeldByOne, Stranded
  <2>3. Unprocessed(w) \subseteq batch[w]
    BY DEF Unprocessed
  <2> QED
    BY <1>1, <1>3, <2>1, <2>2, <2>3 DEF MissingIsStranded, Notified
<1> QED
  BY <1>1, <1>4, <1>5, <1>6, <1>7, <1>8, <1>9 DEF NothingIsEarly, ProcessedOnce, InOrder

\* A step of anyone, or none.
LEMMA StepKeepsIInv == IInv /\ [Next]_vars => IInv'
<1> SUFFICES ASSUME IInv, [Next]_vars PROVE IInv'
  OBVIOUS
<1>1. ASSUME NEW m \in Entry, Publish(m) PROVE IInv'
  BY <1>1, PublishKeeps
<1>2. ASSUME NEW w \in Workers, Step(w) PROVE IInv'
  BY <1>2, StartKeeps, ReadGroupKeeps, ProcessKeeps, AckKeeps DEF Step
<1>3. ASSUME NEW w \in Workers, ReadLost(w) PROVE IInv'
  BY <1>3, ReadLostKeeps
<1>4. ASSUME NEW w \in Workers, DriverResend(w) PROVE IInv'
  BY <1>4, DriverResendKeeps
<1>5. ASSUME NEW w \in Workers, Crash(w) PROVE IInv'
  BY <1>5, CrashKeeps
<1>6. CASE UNCHANGED vars
  BY <1>6 DEF vars, IInv, TypeOK, HeldByOne, BatchesAreRests, Busy, NothingIsEarly,
     ProcessingIsFirst, OnlyCopies, Unprocessed, Current, Notified, NotesLeadBatch,
     ProcessedOnce, MissingIsStranded, Stranded, InOrder
<1> QED
  BY <1>1, <1>2, <1>3, <1>4, <1>5, <1>6 DEF Next

-----------------------------------------------------------------------------
(***************************************************************************)
(* The invariants.                                                         *)
(***************************************************************************)
\* The inductive invariant, from which the following ones are read off.
THEOREM Invariance == Spec => []IInv
<1> QED
  BY InitIInv, StepKeepsIInv, PTL DEF Spec

\* Every variable of the worker has its type.
THEOREM TypeCorrect == Spec => []TypeOK
<1>1. IInv => TypeOK
  BY DEF IInv
<1> QED
  BY <1>1, Invariance, PTL

\* However many processes run, an entry is in the memory of at most one, and is
\* in the group's pending list as long as it is.
THEOREM EntriesAreHeldByOne == Spec => []HeldByOne
<1>1. IInv => HeldByOne
  BY DEF IInv
<1> QED
  BY <1>1, Invariance, PTL

\* Whatever dies or fails, an entry is not processed twice: its notifications are
\* one and what the driver wrote before it.
THEOREM EntriesAreProcessedOnce == Spec => []ProcessedOnce
<1>1. IInv => ProcessedOnce
  BY DEF IInv
<1> QED
  BY <1>1, Invariance, PTL

\* A delivered entry is lost only in the two ways the code has: its XADD failed,
\* or it was left in the pending list, which nobody reads.
THEOREM LostEntriesAreStranded == Spec => []MissingIsStranded
<1>1. IInv => MissingIsStranded
  BY DEF IInv
<1> QED
  BY <1>1, Invariance, PTL

\* The notifications of one worker are in the order of the stream.
THEOREM NotificationsAreInOrder == Spec => []InOrder
<1>1. IInv => InOrder
  BY DEF IInv
<1> QED
  BY <1>1, Invariance, PTL

-----------------------------------------------------------------------------
(***************************************************************************)
(* Every step is a step of Relay, or changes what became of no entry.      *)
(***************************************************************************)
Fates == [i \in DOMAIN log |-> Fate(i)]

\* What became of an entry, case by case.
LEMMA FateCases ==
  ASSUME NEW i
  PROVE  /\ Notified(i) <=> Fate(i) = "announced"
         /\ ~Notified(i) /\ (i \in dropped \/ Stranded(i)) <=> Fate(i) = "lost"
         /\ ~Notified(i) /\ i \notin dropped /\ ~Stranded(i) <=> Fate(i) = "waiting"
<1>1. CASE Notified(i)
  BY <1>1, Zenon DEF Fate
<1>2. CASE ~Notified(i) /\ (i \in dropped \/ Stranded(i))
  BY <1>2, Zenon DEF Fate
<1>3. CASE ~Notified(i) /\ i \notin dropped /\ ~Stranded(i)
  BY <1>3, Zenon DEF Fate
<1> QED
  BY <1>1, <1>2, <1>3

\* Entries that were waiting and are lost together.
LEMMA LoseRefines ==
  ASSUME UNCHANGED log, NEW S \in SUBSET (DOMAIN log),
         \A i \in S : Fate(i) = "waiting" /\ Fate(i)' = "lost",
         \A i \in DOMAIN log \ S : Fate(i)' = Fate(i)
  PROVE  R!Next
<1>1. S \in SUBSET R!Waiting
  BY DEF R!Waiting
<1>2. R!Settle(S, "lost")
  BY DEF R!Settle
<1> QED
  BY <1>1, <1>2 DEF R!Next, R!Lose

\* An entry that was waiting and is announced.
LEMMA AnnounceRefines ==
  ASSUME UNCHANGED log, NEW c \in DOMAIN log,
         Fate(c) = "waiting" /\ Fate(c)' = "announced",
         \A i \in DOMAIN log \ {c} : Fate(i)' = Fate(i)
  PROVE  R!Next
<1>1. c \in R!Waiting
  BY DEF R!Waiting
<1>2. R!Settle({c}, "announced")
  BY DEF R!Settle
<1> QED
  BY <1>1, <1>2 DEF R!Next, R!Announce

\* Nothing happened to any entry.
LEMMA NothingRefines ==
  ASSUME UNCHANGED log, \A i \in DOMAIN log : Fate(i)' = Fate(i)
  PROVE  UNCHANGED Fates
BY DEF Fates

\* No entry yet.
LEMMA InitRefines == Init => R!Init
<1> SUFFICES ASSUME Init PROVE Fates = << >>
  BY DEF R!Init, Fates
<1>1. DOMAIN log = 1..0
  BY DEF Init
<1> QED
  BY <1>1 DEF Fates

\* A new entry waits: nothing can have been said of it.
LEMMA PublishRefines ==
  ASSUME IInv, NEW m \in Entry, Publish(m)
  PROVE  R!Next
<1> USE DEF IInv
<1> DEFINE n == Len(log) + 1
           after == [i \in DOMAIN log' |-> Fate(i)']
<1>1. /\ Len(log) \in Nat
      /\ DOMAIN log = 1..Len(log)
      /\ DOMAIN log' = 1..n
  BY AppendProperties, LenProperties DEF TypeOK, Publish
<1>2. \A i : Fate(i)' = Fate(i)
  BY DEF Publish, Fate, Notified, Stranded
<1>3. Fate(n) = "waiting"
  <2>1. n \notin 1..delivered
    BY <1>1 DEF TypeOK, BatchesAreRests
  <2> QED
    BY <2>1, FateCases DEF HeldByOne, NothingIsEarly, Notified, Stranded
<1> DEFINE S == {Fate(i) : i \in DOMAIN log} \cup {"waiting"}
<1>4. Fates \in Seq(S)
  <2>1. Fates \in [1..Len(log) -> S]
    BY <1>1 DEF Fates
  <2> QED
    BY <1>1, <2>1, SeqDef
<1>5. after \in Seq(S)
  <2>1. after \in [1..n -> S]
    BY <1>1, <1>2, <1>3
  <2> QED
    BY <1>1, <2>1, SeqDef
<1>6. Len(Fates) = Len(log)
  BY <1>1, <1>4, LenProperties DEF Fates
<1>7. Len(after) = n
  BY <1>1, <1>5, LenProperties
<1>8. /\ Append(Fates, "waiting") \in Seq(S)
      /\ Len(Append(Fates, "waiting")) = n
      /\ \A i \in 1..Len(log) : Append(Fates, "waiting")[i] = Fates[i]
      /\ Append(Fates, "waiting")[n] = "waiting"
  BY <1>4, <1>6, AppendProperties
<1>9. \A i \in 1..n : after[i] = Append(Fates, "waiting")[i]
  <2>1. \A i \in 1..Len(log) : after[i] = Fates[i]
    BY <1>1, <1>2 DEF Fates
  <2>2. after[n] = "waiting"
    BY <1>1, <1>2, <1>3
  <2>3. \A i \in 1..n : i \in 1..Len(log) \/ i = n
    BY <1>1
  <2> HIDE DEF after, n
  <2> QED
    BY <1>8, <2>1, <2>2, <2>3
<1>10. after = Append(Fates, "waiting")
  BY <1>5, <1>7, <1>8, <1>9, SeqEqual
<1> QED
  BY <1>10 DEF R!Next, R!Publish, Fates

\* A delivery with its reply changes nothing for an entry; one without it loses
\* the whole batch.
LEMMA DeliverRefines ==
  ASSUME IInv, NEW w \in Workers, ReadGroup(w) \/ ReadLost(w)
  PROVE  R!Next \/ UNCHANGED Fates
<1> USE DEF IInv
<1>1. /\ Deliver(w)
      /\ UNCHANGED <<log, notes, dropped>>
      /\ pel' = pel \cup NextBatch
      /\ NextBatch \in SUBSET (DOMAIN log)
      /\ \A i \in NextBatch : /\ i \notin pel /\ i \notin dropped
                              /\ ~Notified(i)
                              /\ \A v \in Workers : i \notin batch[v]
  BY DeliverIsNew, LenProperties DEF ReadGroup, ReadLost, TypeOK
<1>2. \A i : Notified(i)' <=> Notified(i)
  BY <1>1 DEF Notified
<1>3. \A i \in NextBatch : Fate(i) = "waiting"
  BY <1>1, FateCases DEF Stranded
<1>4. CASE ReadGroup(w)
  <2>1. batch[w] = {}
    BY <1>4 DEF ReadGroup, Deliver, BatchesAreRests, Busy
  <2>2. batch' = [batch EXCEPT ![w] = NextBatch]
    BY <1>4 DEF ReadGroup
  <2>3. \A i : Stranded(i)' <=> Stranded(i)
    BY <1>1, <2>1, <2>2 DEF Stranded, TypeOK
  <2>4. \A i : Fate(i)' = Fate(i)
    BY <1>1, <1>2, <2>3 DEF Fate
  <2> QED
    BY <1>1, <2>4, NothingRefines
<1>5. CASE ReadLost(w)
  <2>1. UNCHANGED batch
    BY <1>5 DEF ReadLost
  <2>2. \A i : Stranded(i)' <=> Stranded(i) \/ i \in NextBatch
    BY <1>1, <2>1 DEF Stranded
  <2>3. \A i \in NextBatch : Fate(i)' = "lost"
    <3> SUFFICES ASSUME NEW i \in NextBatch PROVE Fate(i)' = "lost"
      OBVIOUS
    <3>1. ~Notified(i)' /\ Stranded(i)'
      BY <1>1, <1>2, <2>2
    <3> QED
      BY <3>1, Zenon DEF Fate
  <2>4. \A i \in DOMAIN log \ NextBatch : Fate(i)' = Fate(i)
    BY <1>1, <1>2, <2>2 DEF Fate
  <2> QED
    BY <1>1, <1>3, <2>3, <2>4, LoseRefines
<1> QED
  BY <1>4, <1>5

\* A notification announces an entry that was waiting, or repeats an announcement.
LEMMA NotifyRefines ==
  ASSUME IInv, NEW w \in Workers, at[w] = "process", NEW copy \in BOOLEAN,
         Notify(w, copy), UNCHANGED <<log, group, delivered, pel, batch, dropped>>
  PROVE  R!Next \/ UNCHANGED Fates
<1> USE DEF IInv
<1> PICK c : c = Current(w)
  OBVIOUS
<1>1. /\ c \in batch[w]
      /\ c \in DOMAIN log
  BY CurrentIsFirst, LenProperties DEF Busy, TypeOK, BatchesAreRests
<1>2. \A i : Notified(i)' <=> Notified(i) \/ i = c
  BY NotifyKeeps
<1>3. \A i : Stranded(i)' <=> Stranded(i)
  BY DEF Stranded
<1>4. c \notin dropped /\ ~Stranded(c)
  BY <1>1 DEF ProcessingIsFirst, Unprocessed, Stranded
<1>5. \A i \in DOMAIN log \ {c} : Fate(i)' = Fate(i)
  BY <1>2, <1>3 DEF Fate
<1>6. Fate(c)' = "announced"
  <2>1. Notified(c)'
    BY <1>2
  <2> QED
    BY <2>1, Zenon DEF Fate
<1>7. CASE Notified(c)
  BY <1>5, <1>6, <1>7, FateCases, NothingRefines
<1>8. CASE ~Notified(c)
  BY <1>1, <1>4, <1>5, <1>6, <1>8, FateCases, AnnounceRefines
<1> QED
  BY <1>7, <1>8

\* An XADD that fails loses the entry, unless the driver's first attempt went
\* through.
LEMMA ProcessRefines ==
  ASSUME IInv, NEW w \in Workers, Process(w)
  PROVE  R!Next \/ UNCHANGED Fates
<1> USE DEF IInv
<1> PICK c : c = Current(w)
  OBVIOUS
<1>1. at[w] = "process" /\ UNCHANGED <<log, group, delivered, pel, batch>>
  BY DEF Process
<1>2. CASE Notify(w, FALSE) /\ UNCHANGED dropped
  BY <1>1, <1>2, NotifyRefines
<1>3. CASE dropped' = dropped \cup {c} /\ UNCHANGED notes
  <2>1. /\ c \in batch[w]
        /\ c \in DOMAIN log
    BY <1>1, CurrentIsFirst, LenProperties DEF Busy, TypeOK, BatchesAreRests
  <2>2. c \notin dropped /\ ~Stranded(c)
    BY <1>1, <2>1 DEF ProcessingIsFirst, Unprocessed, Stranded
  <2>3. \A i : (Notified(i)' <=> Notified(i)) /\ (Stranded(i)' <=> Stranded(i))
    BY <1>1, <1>3 DEF Notified, Stranded
  <2>4. \A i \in DOMAIN log \ {c} : Fate(i)' = Fate(i)
    BY <1>3, <2>3 DEF Fate
  <2>5. CASE Notified(c)
    <3>1. Fate(c)' = "announced"
      <4>1. Notified(c)'
        BY <2>3, <2>5
      <4> QED
        BY <4>1, Zenon DEF Fate
    <3> QED
      BY <1>1, <2>4, <2>5, <3>1, FateCases, NothingRefines
  <2>6. CASE ~Notified(c)
    <3>1. Fate(c)' = "lost"
      <4>1. ~Notified(c)' /\ c \in dropped'
        BY <1>3, <2>3, <2>6
      <4> QED
        BY <4>1, Zenon DEF Fate
    <3>2. Fate(c) = "waiting"
      BY <2>2, <2>6, FateCases
    <3> QED
      BY <1>1, <2>1, <2>4, <3>1, <3>2, LoseRefines
  <2> QED
    BY <2>5, <2>6
<1> QED
  BY <1>1, <1>2, <1>3 DEF Process

\* An acknowledgement, or its failure, changes nothing for an entry.
LEMMA AckRefines ==
  ASSUME IInv, NEW w \in Workers, Ack(w)
  PROVE  UNCHANGED Fates
<1> USE DEF IInv
<1> PICK c : c = Current(w)
  OBVIOUS
<1>1. /\ at[w] = "ack"
      /\ batch' = [batch EXCEPT ![w] = @ \ {c}]
      /\ pel' = pel \ {c} \/ pel' = pel
      /\ UNCHANGED <<log, notes, dropped>>
  BY DEF Ack
<1>2. Notified(c) \/ c \in dropped
  BY <1>1 DEF ProcessingIsFirst
<1>3. \A i : Notified(i)' <=> Notified(i)
  BY <1>1 DEF Notified
<1>4. \A i : i # c => (Stranded(i)' <=> Stranded(i))
  BY <1>1 DEF Stranded, TypeOK
<1>5. \A i : i # c => Fate(i)' = Fate(i)
  BY <1>1, <1>3, <1>4 DEF Fate
<1>6. Fate(c)' = Fate(c)
  <2>1. CASE Notified(c)
    <3>1. Notified(c)'
      BY <1>3, <2>1
    <3>2. Fate(c)' = "announced"
      BY <3>1, Zenon DEF Fate
    <3> QED
      BY <2>1, <3>2, FateCases
  <2>2. CASE ~Notified(c)
    <3>1. ~Notified(c)' /\ c \in dropped' /\ c \in dropped
      BY <1>1, <1>2, <1>3, <2>2
    <3>2. Fate(c)' = "lost"
      BY <3>1, Zenon DEF Fate
    <3> QED
      BY <2>2, <3>1, <3>2, FateCases
  <2> QED
    BY <2>1, <2>2
<1> QED
  BY <1>1, <1>5, <1>6, NothingRefines

\* A death loses what was held and not announced yet.
LEMMA CrashRefines ==
  ASSUME IInv, NEW w \in Workers, Crash(w)
  PROVE  R!Next
<1> USE DEF IInv
<1> DEFINE S == {i \in batch[w] : Fate(i) = "waiting"}
<1>1. /\ batch' = [batch EXCEPT ![w] = {}]
      /\ UNCHANGED <<log, pel, notes, dropped>>
  BY DEF Crash
<1>2. S \in SUBSET (DOMAIN log)
  BY LenProperties DEF TypeOK, HeldByOne, BatchesAreRests
<1>3. \A i : Notified(i)' <=> Notified(i)
  BY <1>1 DEF Notified
<1>4. \A i : Stranded(i)' <=> Stranded(i) \/ i \in batch[w]
  BY <1>1 DEF Stranded, TypeOK, HeldByOne
<1>5. \A i \in S : Fate(i)' = "lost"
  <2> SUFFICES ASSUME NEW i \in S PROVE Fate(i)' = "lost"
    OBVIOUS
  <2>1. ~Notified(i)' /\ Stranded(i)'
    BY <1>3, <1>4, FateCases
  <2> QED
    BY <2>1, Zenon DEF Fate
<1>6. \A i \in DOMAIN log \ S : Fate(i)' = Fate(i)
  <2> SUFFICES ASSUME NEW i \in DOMAIN log \ S PROVE Fate(i)' = Fate(i)
    OBVIOUS
  <2>1. CASE i \notin batch[w]
    BY <1>1, <1>3, <1>4, <2>1 DEF Fate
  <2>2. CASE i \in batch[w] /\ Notified(i)
    <3>1. Notified(i)'
      BY <1>3, <2>2
    <3>2. Fate(i)' = "announced"
      BY <3>1, Zenon DEF Fate
    <3> QED
      BY <2>2, <3>2, FateCases
  <2>3. CASE i \in batch[w] /\ ~Notified(i)
    <3>1. i \in dropped
      BY <2>3, FateCases DEF Stranded
    <3>2. ~Notified(i)' /\ i \in dropped'
      BY <1>1, <1>3, <2>3, <3>1
    <3>3. Fate(i)' = "lost"
      BY <3>2, Zenon DEF Fate
    <3> QED
      BY <2>3, <3>1, <3>3, FateCases
  <2> QED
    BY <2>1, <2>2, <2>3
<1> HIDE DEF S
<1>7. \A i \in S : Fate(i) = "waiting"
  BY DEF S
<1> QED
  BY <1>1, <1>2, <1>5, <1>6, <1>7, LoseRefines

\* A start changes nothing for an entry.
LEMMA StartRefines ==
  ASSUME NEW w \in Workers, Start(w)
  PROVE  UNCHANGED Fates
<1>1. UNCHANGED <<log, pel, batch, notes, dropped>>
  BY DEF Start
<1>2. \A i : Fate(i)' = Fate(i)
  BY <1>1 DEF Fate, Notified, Stranded
<1> QED
  BY <1>1, <1>2, NothingRefines

\* A step of anyone, or none, seen as what becomes of the entries.
LEMMA StepRefines == IInv /\ [Next]_vars => [R!Next]_Fates
<1> SUFFICES ASSUME IInv, [Next]_vars PROVE R!Next \/ UNCHANGED Fates
  OBVIOUS
<1>1. ASSUME NEW m \in Entry, Publish(m) PROVE R!Next
  BY <1>1, PublishRefines
<1>2. ASSUME NEW w \in Workers, Step(w) PROVE R!Next \/ UNCHANGED Fates
  BY <1>2, StartRefines, DeliverRefines, ProcessRefines, AckRefines DEF Step
<1>3. ASSUME NEW w \in Workers, ReadLost(w) PROVE R!Next \/ UNCHANGED Fates
  BY <1>3, DeliverRefines
<1>4. ASSUME NEW w \in Workers, DriverResend(w) PROVE R!Next \/ UNCHANGED Fates
  BY <1>4, NotifyRefines DEF DriverResend
<1>5. ASSUME NEW w \in Workers, Crash(w) PROVE R!Next
  BY <1>5, CrashRefines
<1>6. CASE UNCHANGED vars
  <2>1. UNCHANGED log /\ \A i : Fate(i)' = Fate(i)
    BY <1>6 DEF vars, Fate, Notified, Stranded
  <2> QED
    BY <2>1, NothingRefines
<1> QED
  BY <1>1, <1>2, <1>3, <1>4, <1>5, <1>6 DEF Next

\* Whatever dies or fails, however many processes run and however they are
\* restarted, what became of an entry is final: announced or lost, never both.
THEOREM Refinement == Spec => ImplementsRelay
<1>1. Init => R!Init
  BY InitRefines
<1>2. IInv /\ [Next]_vars => [R!Next]_[i \in DOMAIN log |-> Fate(i)]
  BY StepRefines DEF Fates
<1> QED
  BY <1>1, <1>2, Invariance, PTL DEF Spec, ImplementsRelay, R!Spec
=============================================================================
