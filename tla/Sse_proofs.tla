------------------------------ MODULE Sse_proofs ------------------------------
(***************************************************************************)
(* Proofs about the notification stream of the browsers, for any number of *)
(* clients, any channel and any batch.                                     *)
(***************************************************************************)
EXTENDS Sse, SequenceTheorems, TLAPS

-----------------------------------------------------------------------------
(***************************************************************************)
(* The inductive invariant, client by client.                              *)
(***************************************************************************)
\* The position before what is left of the batch.
Base(c) == IF lastID[c] = Dollar THEN from[c] ELSE lastID[c]

\* A read starts at the connection or later, where the last one ended.
ReaderOK(c) ==
  /\ handler[c] = "none" => reader[c] = "none"
  /\ reader[c] \in {"blocked", "push"} /\ lastID[c] = Dollar => opened[c] <= from[c]
  /\ reader[c] = "blocked" /\ lastID[c] # Dollar => from[c] = lastID[c]

\* A batch has no gaps.
BatchOK(c) ==
  reader[c] = "push" =>
    /\ batch[c] # << >>
    /\ \A k \in DOMAIN batch[c] : batch[c][k] = Base(c) + k
    /\ Base(c) + Len(batch[c]) <= tail

\* The goroutine is never behind the client.
PositionsOK(c) ==
  /\ opened[c] <= tail
  /\ lastID[c] = Dollar => got[c] = << >> /\ chan[c] = << >> /\ dropped[c] = {}
  /\ lastID[c] # Dollar => /\ handler[c] # "none"
                           /\ Past(c) <= lastID[c]
                           /\ lastID[c] <= tail

\* What waits in the channel is in order, and new to the client.
ChanOK(c) ==
  /\ \A k \in DOMAIN chan[c] : Past(c) < chan[c][k] /\ chan[c][k] <= lastID[c]
  /\ \A k, l \in DOMAIN chan[c] : k < l => chan[c][k] < chan[c][l]

NoGap(c) ==
  handler[c] = "serving" /\ lastID[c] # Dollar =>
    /\ lastID[c] \in Accounted(c)
    /\ \A i \in Accounted(c) : (i..lastID[c]) \subseteq Accounted(c)

ClientOK(c) == ReaderOK(c) /\ BatchOK(c) /\ PositionsOK(c) /\ ChanOK(c) /\ NoGap(c)

IInv == TypeOK /\ \A c \in Client : ClientOK(c)

\* Everything a client's connection keeps.
Connection(c) ==
  <<chan[c], lastID[c], from[c], batch[c], reader[c], dropped[c],
    handler[c], got[c], opened[c]>>

-----------------------------------------------------------------------------
(***************************************************************************)
(* Positions.                                                              *)
(***************************************************************************)
\* The types of one client's state.
LEMMA ClientTypes ==
  ASSUME TypeOK, NEW c \in Client
  PROVE  /\ lastID[c] \in Nat \cup {Dollar} /\ Dollar \notin Nat
         /\ from[c] \in Nat /\ opened[c] \in Nat /\ tail \in Nat
         /\ batch[c] \in Seq(Nat) /\ chan[c] \in Seq(Nat) /\ got[c] \in Seq(Nat)
         /\ dropped[c] \subseteq Nat
         /\ reader[c] \in {"none", "poll", "blocked", "push", "exited"}
         /\ handler[c] \in {"none", "serving", "returned"}
         /\ handler[c] # "none" => Past(c) \in Nat
<1>1. got[c] \in Seq(Nat) /\ opened[c] \in Nat
  BY DEF TypeOK
<1>2. got[c] # << >> => Last(got[c]) \in Nat
  BY <1>1, LenProperties, EmptySeq DEF Last
<1> QED
  BY <1>1, <1>2, SseAssumption DEF TypeOK, Past

\* Taking a sequence's first element leaves the others, in their order.
LEMMA TakingTheHead ==
  ASSUME NEW s \in Seq(Nat), s # << >>
  PROVE  /\ Head(s) = s[1] /\ s[1] \in Nat /\ Tail(s) \in Seq(Nat)
         /\ Len(s) \in Nat /\ Len(s) >= 1 /\ DOMAIN s = 1..Len(s)
         /\ Len(Tail(s)) = Len(s) - 1
         /\ Len(s) > 1 => Tail(s) # << >>
         /\ DOMAIN Tail(s) = 1..(Len(s) - 1)
         /\ \A k \in DOMAIN Tail(s) : k + 1 \in DOMAIN s /\ Tail(s)[k] = s[k + 1]
         /\ ToSet(s) = ToSet(Tail(s)) \cup {Head(s)}
<1>1. /\ Len(s) \in Nat /\ DOMAIN s = 1..Len(s)
      /\ Len(s) >= 1
  BY LenProperties, EmptySeq
<1>2. /\ Head(s) = s[1] /\ s[1] \in Nat /\ Tail(s) \in Seq(Nat)
      /\ Len(Tail(s)) = Len(s) - 1
      /\ \A k \in 1..Len(Tail(s)) : Tail(s)[k] = s[k + 1]
  BY <1>1, HeadTailProperties, ElementOfSeq
<1>3. DOMAIN Tail(s) = 1..(Len(s) - 1)
  BY <1>2, LenProperties
<1>4. ASSUME NEW x PROVE x \in ToSet(s) <=> x \in ToSet(Tail(s)) \/ x = Head(s)
  <2>1. x \in ToSet(s) <=> \E k \in 1..Len(s) : x = s[k]
    BY <1>1 DEF ToSet
  <2>2. x \in ToSet(Tail(s)) <=> \E k \in 1..(Len(s) - 1) : x = s[k + 1]
    BY <1>2, <1>3 DEF ToSet
  <2>3. \A k \in 1..Len(s) : k = 1 \/ (k - 1 \in 1..(Len(s) - 1) /\ (k - 1) + 1 = k)
    BY <1>1
  <2>4. \A k \in 1..(Len(s) - 1) : k + 1 \in 1..Len(s)
    BY <1>1
  <2>5. 1 \in 1..Len(s)
    BY <1>1
  <2> QED
    BY <1>2, <2>1, <2>2, <2>3, <2>4, <2>5
<1>5. Len(s) > 1 => Tail(s) # << >>
  BY <1>1, <1>2, EmptySeq
<1> QED
  BY <1>1, <1>2, <1>3, <1>4, <1>5

\* The rest of a batch without gaps has none.
LEMMA RestOfBatch ==
  ASSUME NEW s \in Seq(Nat), s # << >>, NEW n \in Nat, \A k \in DOMAIN s : s[k] = n + k
  PROVE  /\ Head(s) = n + 1 /\ Len(s) \in Nat /\ Len(s) >= 1
         /\ Len(s) # 1 => Tail(s) # << >>
         /\ \A k \in DOMAIN Tail(s) : Tail(s)[k] = (n + 1) + k
         /\ (n + 1) + Len(Tail(s)) = n + Len(s)
<1>1. /\ Head(s) = s[1] /\ Len(s) \in Nat /\ Len(s) >= 1 /\ DOMAIN s = 1..Len(s)
      /\ Len(Tail(s)) = Len(s) - 1
      /\ Len(s) > 1 => Tail(s) # << >>
      /\ DOMAIN Tail(s) = 1..(Len(s) - 1)
      /\ \A k \in DOMAIN Tail(s) : k + 1 \in DOMAIN s /\ Tail(s)[k] = s[k + 1]
  BY TakingTheHead
<1>2. Head(s) = n + 1 /\ (Len(s) # 1 => Tail(s) # << >>)
  BY <1>1, SMTT(30)
<1>3. (n + 1) + Len(Tail(s)) = n + Len(s)
  BY <1>1
<1>4. \A k \in DOMAIN Tail(s) : k \in Nat /\ Tail(s)[k] = n + (k + 1)
  BY <1>1
<1>5. \A k \in Nat : n + (k + 1) = (n + 1) + k
  OBVIOUS
<1>6. \A k \in DOMAIN Tail(s) : Tail(s)[k] = (n + 1) + k
  BY <1>4, <1>5, Zenon
<1> QED
  BY <1>1, <1>2, <1>3, <1>6

\* Appending an element adds it to the sequence's elements, at its end.
LEMMA AddingAtTheEnd ==
  ASSUME NEW s \in Seq(Nat), NEW e \in Nat
  PROVE  /\ Append(s, e) \in Seq(Nat) /\ Append(s, e) # << >>
         /\ Len(s) \in Nat /\ Len(Append(s, e)) = Len(s) + 1
         /\ DOMAIN s = 1..Len(s) /\ DOMAIN Append(s, e) = 1..(Len(s) + 1)
         /\ \A k \in DOMAIN s : Append(s, e)[k] = s[k]
         /\ Append(s, e)[Len(s) + 1] = e
         /\ Last(Append(s, e)) = e
         /\ ToSet(Append(s, e)) = ToSet(s) \cup {e}
<1>1. /\ Append(s, e) \in Seq(Nat) /\ Append(s, e) # << >>
      /\ Len(s) \in Nat /\ Len(Append(s, e)) = Len(s) + 1
      /\ DOMAIN s = 1..Len(s) /\ DOMAIN Append(s, e) = 1..(Len(s) + 1)
      /\ \A k \in DOMAIN s : Append(s, e)[k] = s[k]
      /\ Append(s, e)[Len(s) + 1] = e
  BY AppendProperties, LenProperties
<1>2. \A k : k \in DOMAIN Append(s, e) <=> k \in DOMAIN s \/ k = Len(s) + 1
  BY <1>1
<1>3. \A x : x \in ToSet(Append(s, e)) <=> x \in ToSet(s) \/ x = e
  BY <1>1, <1>2 DEF ToSet
<1> QED
  BY <1>1, <1>3 DEF Last

-----------------------------------------------------------------------------
(***************************************************************************)
(* Clients do not disturb each other, and publications disturb nobody.     *)
(***************************************************************************)
\* A client whose connection is left alone stays as it is.
LEMMA OthersKeep ==
  ASSUME TypeOK, NEW d \in Client, ClientOK(d), UNCHANGED Connection(d),
         tail' \in Nat, tail <= tail'
  PROVE  ClientOK(d)' /\ Past(d)' = Past(d)
<1>1. /\ chan'[d] = chan[d] /\ lastID'[d] = lastID[d] /\ from'[d] = from[d]
      /\ batch'[d] = batch[d] /\ reader'[d] = reader[d] /\ dropped'[d] = dropped[d]
      /\ handler'[d] = handler[d] /\ got'[d] = got[d] /\ opened'[d] = opened[d]
  BY DEF Connection
<1>2. /\ Past(d)' = Past(d) /\ Base(d)' = Base(d)
      /\ Accounted(d)' = Accounted(d) /\ Len(batch[d])' = Len(batch[d])
  BY <1>1, Zenon DEF Past, Base, Accounted
<1>3. /\ Base(d) \in Nat /\ Len(batch[d]) \in Nat /\ opened[d] \in Nat /\ from[d] \in Nat
      /\ tail \in Nat /\ lastID[d] \in Nat \cup {Dollar}
  BY ClientTypes, LenProperties DEF Base
<1>4. ReaderOK(d)'
  BY <1>1, <1>3 DEF ClientOK, ReaderOK
<1>5. BatchOK(d)'
  BY <1>1, <1>2, <1>3 DEF ClientOK, BatchOK
<1>6. PositionsOK(d)'
  BY <1>1, <1>2, <1>3, ClientTypes DEF ClientOK, PositionsOK
<1>7. ChanOK(d)' /\ NoGap(d)'
  BY <1>1, <1>2 DEF ClientOK, ChanOK, NoGap
<1> QED
  BY <1>2, <1>4, <1>5, <1>6, <1>7 DEF ClientOK

\* A step for one client leaves the others' connections alone.
LEMMA StepsAreLocal ==
  ASSUME TypeOK, NEW c \in Client, NEW d \in Client, d # c,
         \/ Connect(c) \/ Disconnect(c)
         \/ ReaderStep(c) \/ ReadError(c)
         \/ HandlerStep(c) \/ WriteError(c)
  PROVE  UNCHANGED Connection(d) /\ tail' = tail
<1>1. CASE Connect(c) \/ Disconnect(c) \/ ReadError(c) \/ WriteError(c)
  BY <1>1 DEF TypeOK, Connection, Connect, Disconnect, ReadError, WriteError, readerVars,
      handlerVars
<1>2. CASE Stop(c) \/ Poll(c) \/ Answer(c) \/ Timeout(c)
  BY <1>2 DEF TypeOK, Connection, Stop, Poll, Answer, Timeout, readerVars, handlerVars
<1>3. CASE Push(c)
  BY <1>3 DEF TypeOK, Connection, Push, readerVars, handlerVars
<1>4. CASE Write(c) \/ Return(c)
  BY <1>4 DEF TypeOK, Connection, Write, Return, readerVars, handlerVars
<1> QED
  BY <1>1, <1>2, <1>3, <1>4 DEF ReaderStep, HandlerStep

-----------------------------------------------------------------------------
(***************************************************************************)
(* What each step does to its client.                                      *)
(***************************************************************************)
\* The connection is new to everybody.
LEMMA ConnectKeeps ==
  ASSUME TypeOK, NEW c \in Client, ClientOK(c), Connect(c)
  PROVE  ClientOK(c)' /\ Past(c)' = tail
<1>1. /\ handler[c] = "none" /\ handler'[c] = "serving"
      /\ opened'[c] = tail /\ reader'[c] = "poll"
      /\ UNCHANGED <<tail, chan, lastID, got, dropped>>
  BY DEF Connect, TypeOK
<1>2. lastID[c] = Dollar /\ got[c] = << >> /\ chan[c] = << >>
  BY <1>1 DEF ClientOK, PositionsOK
<1>3. Past(c)' = tail
  BY <1>1, <1>2 DEF Past
<1>4. DOMAIN chan'[c] = {}
  BY <1>1, <1>2
<1>5. ReaderOK(c)' /\ BatchOK(c)' /\ NoGap(c)'
  BY <1>1, <1>2 DEF ReaderOK, BatchOK, NoGap
<1>6. PositionsOK(c)'
  BY <1>1, <1>2, ClientTypes DEF ClientOK, PositionsOK
<1>7. ChanOK(c)'
  BY <1>4 DEF ChanOK
<1> QED
  BY <1>3, <1>5, <1>6, <1>7 DEF ClientOK

\* Only the goroutine's own place changes.
LEMMA ReaderMoves ==
  ASSUME TypeOK, NEW c \in Client, ClientOK(c),
         Stop(c) \/ Poll(c) \/ Answer(c) \/ Timeout(c) \/ ReadError(c)
  PROVE  ClientOK(c)' /\ Past(c)' = Past(c)
<1>1. /\ UNCHANGED <<tail, chan, lastID, dropped, handler, got, opened>>
      /\ handler[c] # "none"
  BY DEF Stop, Poll, Answer, Timeout, ReadError, handlerVars, ClientOK, ReaderOK
<1>2. Past(c)' = Past(c) /\ Accounted(c)' = Accounted(c)
  BY <1>1 DEF Past, Accounted
<1>3. PositionsOK(c)' /\ ChanOK(c)' /\ NoGap(c)'
  BY <1>1, <1>2 DEF ClientOK, PositionsOK, ChanOK, NoGap
<1>4. ReaderOK(c)' /\ BatchOK(c)'
  <2>1. CASE Stop(c) \/ Timeout(c) \/ ReadError(c)
    <3>1. reader'[c] \in {"poll", "exited"}
      BY <2>1 DEF Stop, Timeout, ReadError, TypeOK
    <3> QED
      BY <1>1, <3>1 DEF ReaderOK, BatchOK
  <2>2. CASE Poll(c)
    <3>1. /\ reader'[c] = "blocked"
          /\ from'[c] = IF lastID[c] = Dollar THEN tail ELSE lastID[c]
      BY <2>2 DEF Poll, TypeOK
    <3>2. opened[c] <= tail
      BY DEF ClientOK, PositionsOK
    <3> QED
      BY <1>1, <3>1, <3>2 DEF ReaderOK, BatchOK
  <2>3. CASE Answer(c)
    <3> DEFINE n == IF tail - from[c] < BatchSize THEN tail - from[c] ELSE BatchSize
    <3>1. /\ reader[c] = "blocked" /\ reader'[c] = "push" /\ from' = from
          /\ from[c] < tail
          /\ batch'[c] = [i \in 1..n |-> from[c] + i]
      BY <2>3 DEF Answer, TypeOK
    <3>2. from[c] \in Nat /\ tail \in Nat
      BY ClientTypes
    <3>3. n \in Nat /\ n >= 1 /\ from[c] + n <= tail
      BY <3>1, <3>2, SseAssumption
    <3> HIDE DEF n
    <3>4. Base(c)' = from[c]
      BY <1>1, <3>1 DEF Base, ClientOK, ReaderOK
    <3>5. Len(batch'[c]) = n /\ DOMAIN batch'[c] = 1..n /\ batch'[c] # << >>
      BY <3>1, <3>2, <3>3
    <3>6. BatchOK(c)'
      BY <1>1, <3>1, <3>3, <3>4, <3>5 DEF BatchOK
    <3>7. ReaderOK(c)'
      BY <1>1, <3>1 DEF ClientOK, ReaderOK
    <3> QED
      BY <3>6, <3>7
  <2> QED
    BY <2>1, <2>2, <2>3
<1> QED
  BY <1>2, <1>3, <1>4 DEF ClientOK

\* The goroutine advances by one notification, which the channel takes or not.
LEMMA PushKeeps ==
  ASSUME TypeOK, NEW c \in Client, ClientOK(c), Push(c)
  PROVE  /\ ClientOK(c)' /\ Past(c)' = Past(c)
         /\ Head(batch[c]) \in Nat /\ batch[c] # << >>
<1> DEFINE i == Head(batch[c])
<1>1. /\ reader[c] = "push" /\ handler[c] # "none"
      /\ UNCHANGED <<tail, from, handler, got, opened>>
      /\ lastID'[c] = i /\ batch'[c] = Tail(batch[c])
      /\ reader'[c] = IF Len(batch[c]) = 1 THEN "poll" ELSE "push"
  BY DEF Push, TypeOK, handlerVars, ClientOK, ReaderOK
<1>2. \/ chan'[c] = Append(chan[c], i) /\ dropped' = dropped
      \/ dropped'[c] = dropped[c] \cup {i} /\ chan' = chan
  BY DEF Push, TypeOK
<1>3. /\ batch[c] \in Seq(Nat) /\ batch[c] # << >> /\ chan[c] \in Seq(Nat)
      /\ Base(c) \in Nat /\ tail \in Nat /\ Dollar \notin Nat /\ Past(c) \in Nat
      /\ \A k \in DOMAIN batch[c] : batch[c][k] = Base(c) + k
      /\ Base(c) + Len(batch[c]) <= tail
  BY <1>1, ClientTypes DEF Base, ClientOK, BatchOK
<1>4. /\ i = Base(c) + 1 /\ Len(batch[c]) \in Nat /\ Len(batch[c]) >= 1
      /\ Len(batch[c]) # 1 => Tail(batch[c]) # << >>
      /\ \A k \in DOMAIN Tail(batch[c]) : Tail(batch[c])[k] = (Base(c) + 1) + k
      /\ (Base(c) + 1) + Len(Tail(batch[c])) = Base(c) + Len(batch[c])
  <2>1. /\ batch[c] \in Seq(Nat) /\ batch[c] # << >> /\ Base(c) \in Nat
        /\ \A k \in DOMAIN batch[c] : batch[c][k] = Base(c) + k
    BY <1>3
  <2> QED
    <3> DEFINE s == batch[c]
               n == Base(c)
    <3>1. s \in Seq(Nat) /\ s # << >> /\ n \in Nat /\ \A k \in DOMAIN s : s[k] = n + k
      BY <2>1
    <3> HIDE DEF s, n
    <3>2. /\ Head(s) = n + 1 /\ Len(s) \in Nat /\ Len(s) >= 1
          /\ Len(s) # 1 => Tail(s) # << >>
          /\ \A k \in DOMAIN Tail(s) : Tail(s)[k] = (n + 1) + k
          /\ (n + 1) + Len(Tail(s)) = n + Len(s)
      BY <3>1, RestOfBatch
    <3> QED
      BY <3>2 DEF s, n
<1>5. i = Base(c) + 1 /\ i \in Nat /\ i <= tail
  <2>1. i = Base(c) + 1
    BY <1>4
  <2>2. /\ Base(c) \in Nat /\ Len(batch[c]) \in Nat /\ Len(batch[c]) >= 1 /\ tail \in Nat
        /\ Base(c) + Len(batch[c]) <= tail
    BY <1>3, <1>4, Zenon
  <2> HIDE DEF i
  <2> QED
    BY <2>1, <2>2
<1> HIDE DEF i
<1>6. lastID'[c] # Dollar /\ Base(c)' = i
  BY <1>1, <1>3, <1>5 DEF Base
<1>7. Past(c)' = Past(c)
  BY <1>1 DEF Past
<1>8. Past(c) < i
  <2>1. CASE lastID[c] = Dollar
    <3>1. Past(c) = opened[c] /\ opened[c] <= from[c] /\ Base(c) = from[c]
      BY <1>1, <2>1 DEF ClientOK, PositionsOK, ReaderOK, Past, Base
    <3> QED
      BY <1>3, <1>5, <3>1
  <2>2. CASE lastID[c] # Dollar
    <3>1. Past(c) <= lastID[c] /\ Base(c) = lastID[c]
      BY <2>2 DEF ClientOK, PositionsOK, Base
    <3> QED
      BY <1>3, <1>5, <3>1
  <2> QED
    BY <2>1, <2>2
<1>9. \A k \in DOMAIN chan[c] : chan[c][k] \in Nat /\ chan[c][k] < i
  <2>1. CASE lastID[c] = Dollar
    BY <2>1 DEF ClientOK, PositionsOK
  <2>2. CASE lastID[c] # Dollar
    <3>1. \A k \in DOMAIN chan[c] : chan[c][k] \in Nat
      BY <1>3, LenProperties, ElementOfSeq
    <3>2. Base(c) = lastID[c] /\ \A k \in DOMAIN chan[c] : chan[c][k] <= lastID[c]
      BY <2>2 DEF ClientOK, ChanOK, Base
    <3> QED
      BY <1>3, <1>5, <3>1, <3>2
  <2> QED
    BY <2>1, <2>2
<1>10. ReaderOK(c)'
  BY <1>1, <1>6 DEF ReaderOK
<1>11. BatchOK(c)'
  <2> SUFFICES ASSUME reader'[c] = "push"
               PROVE  /\ batch'[c] # << >>
                      /\ \A k \in DOMAIN batch'[c] : batch'[c][k] = i + k
                      /\ i + Len(batch'[c]) <= tail
    BY <1>1, <1>6 DEF BatchOK
  <2>1. Len(batch[c]) # 1
    BY <1>1
  <2>2. batch'[c] # << >>
    BY <1>1, <1>4, <2>1, Zenon
  <2>3. \A k \in DOMAIN batch'[c] : batch'[c][k] = i + k
    BY <1>1, <1>4, <1>5, Zenon
  <2>4. i + Len(batch'[c]) <= tail
    <3>1. i + Len(batch'[c]) = Base(c) + Len(batch[c])
      BY <1>1, <1>4, <1>5, Zenon
    <3> QED
      BY <1>3, <3>1
  <2> QED
    BY <2>2, <2>3, <2>4
<1>12. PositionsOK(c)'
  BY <1>1, <1>3, <1>5, <1>6, <1>7, <1>8 DEF ClientOK, PositionsOK
<1>13. ChanOK(c)'
  <2>1. CASE chan'[c] = Append(chan[c], i)
    <3>1. /\ DOMAIN chan[c] = 1..Len(chan[c]) /\ Len(chan[c]) \in Nat
          /\ DOMAIN chan'[c] = 1..(Len(chan[c]) + 1)
          /\ \A k \in DOMAIN chan[c] : chan'[c][k] = chan[c][k]
          /\ chan'[c][Len(chan[c]) + 1] = i
      <4>1. chan[c] \in Seq(Nat) /\ i \in Nat
        BY <1>3, <1>5
      <4> QED
        BY <2>1, <4>1, AddingAtTheEnd
    <3>2. /\ \A k \in DOMAIN chan[c] : Past(c) < chan[c][k]
          /\ \A k, l \in DOMAIN chan[c] : k < l => chan[c][k] < chan[c][l]
      BY DEF ClientOK, ChanOK
    <3>3. \A k \in DOMAIN chan'[c] : k \in DOMAIN chan[c] \/ k = Len(chan[c]) + 1
      BY <3>1
    <3>4. \A k \in DOMAIN chan'[c] : Past(c) < chan'[c][k] /\ chan'[c][k] <= i
      BY <1>5, <1>8, <1>9, <3>1, <3>2, <3>3
    <3>5. \A k, l \in DOMAIN chan'[c] : k < l => chan'[c][k] < chan'[c][l]
      BY <1>9, <3>1, <3>2, <3>3
    <3> QED
      BY <1>1, <1>7, <3>4, <3>5 DEF ChanOK
  <2>2. CASE chan' = chan
    BY <1>1, <1>5, <1>7, <1>9, <2>2 DEF ClientOK, ChanOK
  <2> QED
    BY <1>2, <2>1, <2>2
<1>14. NoGap(c)'
  <2>1. Accounted(c)' = Accounted(c) \cup {i}
    <3>1. CASE chan'[c] = Append(chan[c], i) /\ dropped' = dropped
      BY <1>1, <1>3, <1>5, <3>1, AddingAtTheEnd DEF Accounted
    <3>2. CASE dropped'[c] = dropped[c] \cup {i} /\ chan' = chan
      BY <1>1, <3>2 DEF Accounted
    <3> QED
      BY <1>2, <3>1, <3>2
  <2> SUFFICES ASSUME handler[c] = "serving"
               PROVE  \A j \in Accounted(c) \cup {i} : (j..i) \subseteq Accounted(c) \cup {i}
    BY <1>1, <2>1 DEF NoGap
  <2>2. i..i = {i}
    BY <1>5
  <2>3. CASE lastID[c] = Dollar
    <3>1. Accounted(c) = {}
      BY <2>3 DEF ClientOK, PositionsOK, Accounted, ToSet
    <3> QED
      BY <2>2, <3>1
  <2>4. CASE lastID[c] # Dollar
    <3>1. \A j \in Accounted(c) : (j..lastID[c]) \subseteq Accounted(c)
      BY <2>4 DEF ClientOK, NoGap
    <3>2. lastID[c] = Base(c)
      BY <2>4 DEF Base
    <3>3. \A j \in Accounted(c) : j \in Nat
      <4>1. got[c] \in Seq(Nat) /\ dropped[c] \subseteq Nat
        BY ClientTypes
      <4>2. ToSet(got[c]) \subseteq Nat /\ ToSet(chan[c]) \subseteq Nat
        BY <1>3, <4>1, LenProperties, ElementOfSeq, SMTT(30) DEF ToSet
      <4> QED
        BY <4>1, <4>2 DEF Accounted
    <3>4. \A j \in Nat : \A k \in j..i : k \in j..Base(c) \/ k = i
      BY <1>3, <1>5
    <3> QED
      BY <2>2, <3>1, <3>2, <3>3, <3>4
  <2> QED
    BY <2>3, <2>4
<1>15. i \in Nat
  BY <1>5
<1> QED
  BY <1>3, <1>7, <1>10, <1>11, <1>12, <1>13, <1>14, <1>15 DEF ClientOK, i

\* The handler takes the oldest message of the channel ...
LEMMA OldestIsNew ==
  ASSUME TypeOK, NEW c \in Client, ClientOK(c), handler[c] = "serving", chan[c] # << >>
  PROVE  /\ Head(chan[c]) = chan[c][1] /\ Head(chan[c]) \in Nat
         /\ Past(c) \in Nat /\ Past(c) < Head(chan[c])
         /\ lastID[c] \in Nat /\ lastID[c] # Dollar
         /\ Head(chan[c]) <= lastID[c] /\ Head(chan[c]) <= tail
         /\ Tail(chan[c]) \in Seq(Nat)
         /\ DOMAIN Tail(chan[c]) \subseteq Nat
         /\ \A k \in DOMAIN Tail(chan[c]) :
              /\ Tail(chan[c])[k] = chan[c][k + 1]
              /\ k + 1 \in DOMAIN chan[c]
              /\ Head(chan[c]) < Tail(chan[c])[k]
<1>1. lastID[c] # Dollar /\ lastID[c] \in Nat /\ lastID[c] <= tail /\ tail \in Nat
  BY ClientTypes DEF ClientOK, PositionsOK
<1>2. /\ Head(chan[c]) = chan[c][1] /\ chan[c][1] \in Nat
      /\ Tail(chan[c]) \in Seq(Nat)
      /\ Len(chan[c]) \in Nat /\ Len(chan[c]) >= 1 /\ DOMAIN chan[c] = 1..Len(chan[c])
      /\ DOMAIN Tail(chan[c]) = 1..(Len(chan[c]) - 1)
      /\ \A k \in DOMAIN Tail(chan[c]) :
           k + 1 \in DOMAIN chan[c] /\ Tail(chan[c])[k] = chan[c][k + 1]
  BY ClientTypes, TakingTheHead
<1>3. 1 \in DOMAIN chan[c]
  BY <1>2
<1>4. Past(c) < chan[c][1] /\ chan[c][1] <= lastID[c]
  BY <1>3 DEF ClientOK, ChanOK
<1>5. \A k \in DOMAIN Tail(chan[c]) : 1 < k + 1
  BY <1>2
<1>6. \A k \in DOMAIN Tail(chan[c]) : Head(chan[c]) < Tail(chan[c])[k]
  BY <1>2, <1>3, <1>5 DEF ClientOK, ChanOK
<1>7. Past(c) \in Nat
  BY ClientTypes
<1> QED
  BY <1>1, <1>2, <1>4, <1>6, <1>7, SMTT(30)

\* ... and writes it ...
LEMMA WriteKeeps ==
  ASSUME TypeOK, NEW c \in Client, ClientOK(c), Write(c)
  PROVE  ClientOK(c)' /\ Past(c)' = Head(chan[c])
<1> DEFINE h == Head(chan[c])
<1>1. /\ handler[c] = "serving" /\ chan[c] # << >>
      /\ chan'[c] = Tail(chan[c]) /\ got'[c] = Append(got[c], h)
      /\ UNCHANGED <<tail, lastID, from, batch, reader, dropped, handler, opened>>
  BY DEF Write, TypeOK, readerVars
<1>2. /\ h \in Nat /\ lastID[c] \in Nat /\ lastID[c] # Dollar
      /\ h <= lastID[c] /\ DOMAIN Tail(chan[c]) \subseteq Nat
      /\ \A k \in DOMAIN Tail(chan[c]) :
           /\ Tail(chan[c])[k] = chan[c][k + 1]
           /\ k + 1 \in DOMAIN chan[c]
           /\ h < Tail(chan[c])[k]
  BY <1>1, OldestIsNew
<1>3. /\ got'[c] # << >> /\ Last(got'[c]) = h
      /\ ToSet(got'[c]) = ToSet(got[c]) \cup {h}
      /\ ToSet(chan[c]) = ToSet(chan'[c]) \cup {h}
  <2>1. got[c] \in Seq(Nat) /\ chan[c] \in Seq(Nat)
    BY ClientTypes
  <2>2. /\ Append(got[c], h) # << >> /\ Last(Append(got[c], h)) = h
        /\ ToSet(Append(got[c], h)) = ToSet(got[c]) \cup {h}
    BY <1>2, <2>1, AddingAtTheEnd
  <2>3. ToSet(chan[c]) = ToSet(Tail(chan[c])) \cup {h}
    BY <1>1, <2>1, TakingTheHead
  <2> QED
    BY <1>1, <2>2, <2>3, Zenon
<1>4. Past(c)' = h
  BY <1>1, <1>3 DEF Past
<1>5. Accounted(c)' = Accounted(c)
  BY <1>1, <1>3 DEF Accounted
<1> HIDE DEF h
<1>6. Base(c)' = Base(c)
  BY <1>1 DEF Base
<1>7. ReaderOK(c)' /\ BatchOK(c)'
  BY <1>1, <1>6 DEF ClientOK, ReaderOK, BatchOK
<1>8. PositionsOK(c)'
  BY <1>1, <1>2, <1>4 DEF ClientOK, PositionsOK
<1>9. NoGap(c)'
  BY <1>1, <1>5 DEF ClientOK, NoGap
<1>10. ChanOK(c)'
  <2>1. \A k \in DOMAIN chan'[c] : h < chan'[c][k] /\ chan'[c][k] <= lastID[c]
    BY <1>1, <1>2 DEF ClientOK, ChanOK
  <2>2. \A k, l \in DOMAIN chan'[c] : k < l => k + 1 < l + 1
    BY <1>1, <1>2
  <2>3. \A k, l \in DOMAIN chan'[c] : k < l => chan'[c][k] < chan'[c][l]
    BY <1>1, <1>2, <2>2 DEF ClientOK, ChanOK
  <2> QED
    BY <1>1, <1>4, <2>1, <2>3 DEF ChanOK
<1> QED
  BY <1>4, <1>7, <1>8, <1>9, <1>10 DEF ClientOK, h

\* ... or fails to, and returns.
LEMMA WriteErrorKeeps ==
  ASSUME TypeOK, NEW c \in Client, ClientOK(c), WriteError(c)
  PROVE  ClientOK(c)' /\ Past(c)' = Past(c)
<1>1. /\ handler[c] = "serving" /\ chan[c] # << >>
      /\ chan'[c] = Tail(chan[c]) /\ handler'[c] = "returned"
      /\ UNCHANGED <<tail, lastID, from, batch, reader, dropped, got, opened>>
  BY DEF WriteError, TypeOK, readerVars
<1>2. /\ DOMAIN Tail(chan[c]) \subseteq Nat /\ lastID[c] # Dollar
      /\ \A k \in DOMAIN Tail(chan[c]) :
           Tail(chan[c])[k] = chan[c][k + 1] /\ k + 1 \in DOMAIN chan[c]
  BY <1>1, OldestIsNew
<1>3. Past(c)' = Past(c) /\ Base(c)' = Base(c)
  BY <1>1 DEF Past, Base
<1>4. ReaderOK(c)' /\ BatchOK(c)' /\ NoGap(c)'
  BY <1>1, <1>3 DEF ClientOK, ReaderOK, BatchOK, NoGap
<1>5. PositionsOK(c)'
  BY <1>1, <1>2, <1>3 DEF ClientOK, PositionsOK
<1>6. ChanOK(c)'
  <2>1. \A k, l \in DOMAIN chan'[c] : k < l => k + 1 < l + 1
    BY <1>1, <1>2
  <2> QED
    BY <1>1, <1>2, <1>3, <2>1 DEF ClientOK, ChanOK
<1> QED
  BY <1>3, <1>4, <1>5, <1>6 DEF ClientOK

\* The client goes, or the handler notices.
LEMMA LeavingKeeps ==
  ASSUME TypeOK, NEW c \in Client, ClientOK(c), Disconnect(c) \/ Return(c)
  PROVE  ClientOK(c)' /\ Past(c)' = Past(c)
<1>1. /\ handler[c] = "serving" /\ handler'[c] \in {"serving", "returned"}
      /\ UNCHANGED <<tail, chan, lastID, from, batch, reader, dropped, got, opened>>
  BY DEF Disconnect, Return, TypeOK, readerVars
<1>2. Past(c)' = Past(c) /\ Base(c)' = Base(c) /\ Accounted(c)' = Accounted(c)
  BY <1>1 DEF Past, Base, Accounted
<1>3. ReaderOK(c)' /\ BatchOK(c)' /\ NoGap(c)'
  BY <1>1, <1>2 DEF ClientOK, ReaderOK, BatchOK, NoGap
<1>4. PositionsOK(c)' /\ ChanOK(c)'
  BY <1>1, <1>2 DEF ClientOK, PositionsOK, ChanOK
<1> QED
  BY <1>2, <1>3, <1>4 DEF ClientOK

-----------------------------------------------------------------------------
(***************************************************************************)
(* The invariant.                                                          *)
(***************************************************************************)
\* The initial states satisfy the invariant.
LEMMA InitIInv == Init => IInv
<1> SUFFICES ASSUME Init PROVE IInv
  OBVIOUS
<1>1. TypeOK
  BY SseAssumption, EmptySeq DEF Init, TypeOK
<1>2. ASSUME NEW c \in Client PROVE ClientOK(c)
  BY DEF Init, ClientOK, ReaderOK, BatchOK, PositionsOK, ChanOK, NoGap
<1> QED
  BY <1>1, <1>2 DEF IInv

\* One step for a client preserves the invariant.
LEMMA ClientStepKeeps ==
  ASSUME TypeOK, NEW c \in Client, ClientOK(c),
         \/ Connect(c) \/ Disconnect(c)
         \/ ReaderStep(c) \/ ReadError(c)
         \/ HandlerStep(c) \/ WriteError(c)
  PROVE  ClientOK(c)'
BY ConnectKeeps, ReaderMoves, PushKeeps, WriteKeeps, WriteErrorKeeps, LeavingKeeps
DEF ReaderStep, HandlerStep

\* The type invariant.
LEMMA StepTypeOK == IInv /\ [Next]_vars => TypeOK'
<1> SUFFICES ASSUME IInv, [Next]_vars PROVE TypeOK'
  OBVIOUS
<1> USE DEF IInv
<1>1. CASE Publish
  BY <1>1 DEF Publish, TypeOK, readerVars, handlerVars
<1>2. CASE UNCHANGED vars
  BY <1>2 DEF vars, TypeOK, readerVars, handlerVars
<1>3. ASSUME NEW c \in Client,
             Connect(c) \/ Disconnect(c) \/ ReadError(c) \/ Stop(c) \/ Timeout(c) \/ Return(c)
      PROVE  TypeOK'
  <2>1. CASE Connect(c)
    BY <2>1 DEF Connect, TypeOK
  <2>2. CASE Disconnect(c) \/ Return(c)
    BY <2>2 DEF Disconnect, Return, TypeOK, readerVars
  <2>3. CASE ReadError(c) \/ Stop(c) \/ Timeout(c)
    BY <2>3 DEF ReadError, Stop, Timeout, TypeOK, handlerVars
  <2> QED
    BY <1>3, <2>1, <2>2, <2>3
<1>4. ASSUME NEW c \in Client, Poll(c) PROVE TypeOK'
  BY <1>4 DEF Poll, TypeOK, readerVars, handlerVars
<1>5. ASSUME NEW c \in Client, Answer(c) PROVE TypeOK'
  <2> DEFINE n == IF tail - from[c] < BatchSize THEN tail - from[c] ELSE BatchSize
             b == [i \in 1..n |-> from[c] + i]
  <2>1. from[c] \in Nat /\ tail \in Nat /\ from[c] < tail
    BY <1>5, ClientTypes DEF Answer
  <2>2. n \in Nat
    BY <2>1, SseAssumption
  <2> HIDE DEF n
  <2>3. \A i \in 1..n : from[c] + i \in Nat
    BY <2>1, <2>2
  <2>4. b \in Seq(Nat)
    BY <2>2, <2>3
  <2>5. batch' = [batch EXCEPT ![c] = b]
    BY <1>5 DEF Answer, n
  <2> HIDE DEF b
  <2> QED
    BY <1>5, <2>4, <2>5, ZenonT(40) DEF Answer, TypeOK, handlerVars
<1>6. ASSUME NEW c \in Client, Push(c) PROVE TypeOK'
  <2>1. /\ Head(batch[c]) \in Nat /\ Tail(batch[c]) \in Seq(Nat)
        /\ Append(chan[c], Head(batch[c])) \in Seq(Nat)
    BY <1>6, PushKeeps, ClientTypes, TakingTheHead, AddingAtTheEnd
  <2> QED
    <3>1. PICK h \in Nat, rest \in Seq(Nat), more \in Seq(Nat) :
            /\ h = Head(batch[c]) /\ rest = Tail(batch[c])
            /\ more = Append(chan[c], Head(batch[c]))
      BY <2>1
    <3>2. /\ chan' = chan \/ chan' = [chan EXCEPT ![c] = more]
          /\ dropped' = dropped \/ dropped' = [dropped EXCEPT ![c] = dropped[c] \cup {h}]
          /\ lastID' = [lastID EXCEPT ![c] = h]
          /\ batch' = [batch EXCEPT ![c] = rest]
          /\ reader' = [reader EXCEPT ![c] = "poll"] \/ reader' = reader
          /\ UNCHANGED <<tail, from, since, handlerVars>>
      <4>1. reader' = [reader EXCEPT ![c] = "poll"] \/ reader' = reader
        BY <1>6 DEF Push, TypeOK
      <4>2. chan' = chan \/ chan' = [chan EXCEPT ![c] = more]
        BY <1>6, <3>1, Zenon DEF Push
      <4>3. dropped' = dropped \/ dropped' = [dropped EXCEPT ![c] = dropped[c] \cup {h}]
        BY <1>6, <3>1, Zenon DEF Push
      <4>4. /\ lastID' = [lastID EXCEPT ![c] = h]
            /\ batch' = [batch EXCEPT ![c] = rest]
            /\ UNCHANGED <<tail, from, since, handlerVars>>
        BY <1>6, <3>1, Zenon DEF Push
      <4> QED
        BY <4>1, <4>2, <4>3, <4>4, Zenon
    <3> QED
      <4>1. chan' \in [Client -> Seq(Nat)]
        BY <3>2 DEF TypeOK
      <4>2. dropped' \in [Client -> SUBSET Nat]
        <5> DEFINE refused == dropped[c] \cup {h}
        <5>1. refused \in SUBSET Nat
          BY ClientTypes
        <5>2. dropped' = dropped \/ dropped' = [dropped EXCEPT ![c] = refused]
          BY <3>2
        <5> HIDE DEF refused
        <5> QED
          BY <5>1, <5>2 DEF TypeOK
      <4>3. lastID' \in [Client -> Nat \cup {Dollar}] /\ batch' \in [Client -> Seq(Nat)]
        BY <3>2 DEF TypeOK
      <4>4. reader' \in [Client -> {"none", "poll", "blocked", "push", "exited"}]
        BY <3>2 DEF TypeOK
      <4> QED
        BY <3>2, <4>1, <4>2, <4>3, <4>4 DEF TypeOK, handlerVars
<1>7. ASSUME NEW c \in Client, Write(c) \/ WriteError(c) PROVE TypeOK'
  <2>1. /\ Head(chan[c]) \in Nat /\ Tail(chan[c]) \in Seq(Nat)
        /\ Append(got[c], Head(chan[c])) \in Seq(Nat)
    BY <1>7, OldestIsNew, ClientTypes, AddingAtTheEnd DEF Write, WriteError
  <2> QED
    <3>1. PICK rest \in Seq(Nat), more \in Seq(Nat) :
            rest = Tail(chan[c]) /\ more = Append(got[c], Head(chan[c]))
      BY <2>1
    <3>2. CASE Write(c)
      <4>1. /\ chan' = [chan EXCEPT ![c] = rest]
            /\ got' = [got EXCEPT ![c] = more]
            /\ UNCHANGED <<tail, readerVars, handler, done, opened>>
        BY <3>1, <3>2 DEF Write
      <4> QED
        BY <4>1 DEF TypeOK, readerVars
    <3>3. CASE WriteError(c)
      <4>1. /\ chan' = [chan EXCEPT ![c] = rest]
            /\ handler' = [handler EXCEPT ![c] = "returned"]
            /\ done' = [done EXCEPT ![c] = TRUE]
            /\ UNCHANGED <<tail, readerVars, got, opened>>
        BY <3>1, <3>3 DEF WriteError
      <4> QED
        BY <4>1 DEF TypeOK, readerVars
    <3> QED
      BY <1>7, <3>2, <3>3
<1> QED
  BY <1>1, <1>2, <1>3, <1>4, <1>5, <1>6, <1>7 DEF Next, ReaderStep, HandlerStep

\* Every step preserves the invariant.
LEMMA NextIInv == IInv /\ [Next]_vars => IInv'
<1> SUFFICES ASSUME IInv, [Next]_vars PROVE IInv'
  OBVIOUS
<1>1. TypeOK /\ TypeOK' /\ \A d \in Client : ClientOK(d)
  BY StepTypeOK DEF IInv
<1>2. tail \in Nat
  BY <1>1 DEF TypeOK
<1>3. CASE Publish \/ UNCHANGED vars
  <2>1. /\ tail' \in Nat /\ tail <= tail'
        /\ \A d \in Client : UNCHANGED Connection(d)
    BY <1>2, <1>3 DEF Publish, vars, Connection, readerVars, handlerVars
  <2>2. \A d \in Client : ClientOK(d)'
    BY <1>1, <2>1, OthersKeep
  <2> QED
    BY <1>1, <2>2 DEF IInv
<1>4. ASSUME NEW c \in Client,
             \/ Connect(c) \/ Disconnect(c)
             \/ ReaderStep(c) \/ ReadError(c)
             \/ HandlerStep(c) \/ WriteError(c)
      PROVE  IInv'
  <2>1. ClientOK(c)'
    BY <1>1, <1>4, ClientStepKeeps
  <2>2. ASSUME NEW d \in Client, d # c PROVE ClientOK(d)'
    <3>1. UNCHANGED Connection(d) /\ tail' = tail
      BY <1>1, <1>4, <2>2, StepsAreLocal
    <3> QED
      BY <1>1, <1>2, <3>1, OthersKeep
  <2> QED
    BY <1>1, <2>1, <2>2 DEF IInv
<1> QED
  BY <1>3, <1>4 DEF Next

\* The invariant of the goroutines and the handlers.
THEOREM Invariance == Spec => []IInv
BY InitIInv, NextIInv, PTL DEF Spec

-----------------------------------------------------------------------------
(***************************************************************************)
(* The properties.                                                         *)
(***************************************************************************)
\* The goroutines, the handlers and Redis keep the types of their state.
THEOREM TypeCorrect == Spec => []TypeOK
<1>1. IInv => TypeOK
  BY DEF IInv
<1> QED
  BY <1>1, Invariance, PTL

\* Between the notifications a goroutine has read, only those the full channel
\* refused are missing, for any number of clients, channel capacity and batch.
THEOREM SkipsAreOverflows == Spec => []OnlyOverflowSkips
<1>1. IInv => OnlyOverflowSkips
  BY DEF IInv, ClientOK, NoGap, OnlyOverflowSkips
<1> QED
  BY <1>1, Invariance, PTL

-----------------------------------------------------------------------------
(***************************************************************************)
(* What a browser is promised.                                             *)
(***************************************************************************)
\* A step that moves no client's past and delivers nothing is none of the feed's.
LEMMA NothingToTheFeed ==
  ASSUME tail' = tail, got' = got, \A d \in Client : Past(d)' = Past(d)
  PROVE  UNCHANGED <<tail, [c \in Client |-> Past(c)], got>>
<1>1. [d \in Client |-> Past(d)'] = [d \in Client |-> Past(d)]
  OBVIOUS
<1> QED
  BY <1>1

\* A step for one client moves only that client's past.
LEMMA OnlyItsPast ==
  ASSUME NEW c \in Client, NEW p, Past(c)' = p,
         \A d \in Client \ {c} : Past(d)' = Past(d)
  PROVE  [d \in Client |-> Past(d)]' = [[d \in Client |-> Past(d)] EXCEPT ![c] = p]
<1> DEFINE new == [d \in Client |-> Past(d)']
           old == [d \in Client |-> Past(d)]
<1>1. new = [old EXCEPT ![c] = p]
  OBVIOUS
<1> QED
  BY <1>1

\* The endpoint starts as the feed does.
LEMMA InitFeed == Init => F!Init
<1> SUFFICES ASSUME Init PROVE F!Init
  OBVIOUS
<1>1. [c \in Client |-> Past(c)] = [c \in Client |-> Dollar]
  BY DEF Init, Past
<1> QED
  BY <1>1 DEF Init, F!Init

\* Every step is one of the feed's or nothing to it.
LEMMA StepFeed ==
  IInv /\ [Next]_vars => [F!Next]_<<tail, [c \in Client |-> Past(c)], got>>
<1> SUFFICES ASSUME IInv, [Next]_vars
             PROVE  [F!Next]_<<tail, [c \in Client |-> Past(c)], got>>
  OBVIOUS
<1> DEFINE past == [c \in Client |-> Past(c)]
<1>1. TypeOK /\ tail \in Nat /\ \A d \in Client : ClientOK(d)
  BY DEF IInv, TypeOK
<1>2. CASE UNCHANGED vars
  <2>1. tail' = tail /\ got' = got /\ \A d \in Client : Past(d)' = Past(d)
    BY <1>2 DEF vars, readerVars, handlerVars, Past
  <2> QED
    BY <2>1, NothingToTheFeed
<1>3. CASE Publish
  <2>1. got' = got /\ tail' = tail + 1 /\ \A d \in Client : Past(d)' = Past(d)
    BY <1>3 DEF Publish, readerVars, handlerVars, Past
  <2>2. [d \in Client |-> Past(d)'] = [d \in Client |-> Past(d)]
    BY <2>1
  <2>3. F!Publish
    BY <2>1, <2>2 DEF F!Publish
  <2> QED
    BY <2>3 DEF F!Next
<1>4. ASSUME NEW c \in Client,
             \/ Connect(c) \/ Disconnect(c)
             \/ ReaderStep(c) \/ ReadError(c)
             \/ HandlerStep(c) \/ WriteError(c)
      PROVE  [F!Next]_<<tail, past, got>>
  <2>1. tail' = tail
    BY <1>4 DEF Connect, Disconnect, ReaderStep, Stop, Poll, Answer, Timeout, Push, ReadError,
      HandlerStep, Write, Return, WriteError
  <2>2. \A d \in Client \ {c} : Past(d)' = Past(d)
    <3> SUFFICES ASSUME NEW d \in Client, d # c PROVE Past(d)' = Past(d)
      OBVIOUS
    <3>1. UNCHANGED Connection(d) /\ tail' = tail
      BY <1>1, <1>4, StepsAreLocal
    <3> QED
      BY <1>1, <3>1, OthersKeep
  <2>3. CASE Connect(c)
    <3>1. past' = [past EXCEPT ![c] = tail]
      BY <1>1, <2>2, <2>3, ConnectKeeps, OnlyItsPast
    <3>2. past[c] = Dollar /\ got' = got
      BY <2>3 DEF Connect, Past
    <3>3. F!Connect(c)
      BY <2>1, <3>1, <3>2 DEF F!Connect
    <3> QED
      BY <3>3 DEF F!Next
  <2>4. CASE Write(c)
    <3> DEFINE h == Head(chan[c])
    <3>1. handler[c] = "serving" /\ chan[c] # << >>
      BY <2>4 DEF Write
    <3>2. Past(c)' = h
      BY <1>1, <2>4, WriteKeeps
    <3>3. past' = [past EXCEPT ![c] = h]
      BY <2>2, <3>2, OnlyItsPast
    <3>4. h \in Nat /\ Past(c) \in Nat /\ Past(c) < h /\ h <= tail
      BY <1>1, <3>1, OldestIsNew
    <3>5. past[c] # Dollar /\ h \in (past[c] + 1)..tail
      BY <1>1, <3>4, SseAssumption
    <3>6. got' = [got EXCEPT ![c] = Append(got[c], h)]
      BY <2>4 DEF Write
    <3> HIDE DEF h, past
    <3>7. F!Receive(c)
      BY <2>1, <3>3, <3>5, <3>6 DEF F!Receive, past
    <3> QED
      BY <3>7 DEF F!Next
  <2>5. CASE Disconnect(c) \/ ReadError(c) \/ WriteError(c)
             \/ Stop(c) \/ Poll(c) \/ Answer(c) \/ Timeout(c) \/ Push(c) \/ Return(c)
    <3>1. Past(c)' = Past(c)
      BY <1>1, <2>5, ReaderMoves, PushKeeps, WriteErrorKeeps, LeavingKeeps
    <3>2. got' = got
      BY <2>5 DEF Disconnect, ReadError, WriteError, Stop, Poll, Answer, Timeout, Push, Return,
        handlerVars
    <3> QED
      BY <2>1, <2>2, <3>1, <3>2, NothingToTheFeed
  <2> QED
    BY <1>4, <2>3, <2>4, <2>5 DEF ReaderStep, HandlerStep
<1> QED
  BY <1>2, <1>3, <1>4 DEF Next

\* Whatever the goroutine, the handler and Redis interleave, a browser receives
\* notifications in the order of the stream, each at most once and none from
\* before it connected, for any number of clients, capacity and batch size.
THEOREM Refinement == Spec => ImplementsFeed
BY InitFeed, StepFeed, Invariance, PTL DEF Spec, ImplementsFeed, F!Spec
=============================================================================
