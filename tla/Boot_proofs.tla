----------------------------- MODULE Boot_proofs -----------------------------
(***************************************************************************)
(* Proofs about the life of the server process, for any number of          *)
(* launches, entries and stream names.                                     *)
(***************************************************************************)
EXTENDS Boot, TLAPS

USE DEF Names, Environment

\* Once ConnectRedis has run there is a client exactly if the URL parses, and
\* that does not change as long as the process lives.
ClientFollowsURL == at \in {"listen", "serving"} => (rdb = "client" <=> env.url)

IInv ==
  /\ TypeOK
  /\ ClientFollowsURL
  /\ PanicNeedsBadURL

\* Nothing runs.
LEMMA InitIInv == Init => IInv
<1> SUFFICES ASSUME Init PROVE IInv
  OBVIOUS
<1>1. 0 \in 0..LogBound /\ 0 \in 0..LaunchBound /\ 0 \in 0..0
  BY BootAssumption
<1>2. env \in Environment
  BY DEF Init
<1>3. TypeOK
  BY <1>1, <1>2 DEF Init, TypeOK
<1> QED
  BY <1>3 DEF Init, IInv, ClientFollowsURL, PanicNeedsBadURL

\* An exit that is not a panic: only what the process consisted of is gone.
LEMMA ExitKeeps ==
  ASSUME IInv, NEW how \in {"config", "mongo", "listen", "killed"}, Exit(how)
  PROVE  IInv'
BY DEF Exit, IInv, TypeOK, ClientFollowsURL, PanicNeedsBadURL,
   redis

\* A launch finds any environment and begins with no client.
LEMMA LaunchKeeps ==
  ASSUME IInv, Launch
  PROVE  IInv'
<1> USE DEF IInv
<1>1. TypeOK'
  BY BootAssumption DEF Launch, TypeOK, redis
<1> QED
  BY <1>1 DEF Launch, ClientFollowsURL, PanicNeedsBadURL

\* The configuration names a notification stream, the default one if the
\* environment does not.
LEMMA LoadConfigKeeps ==
  ASSUME IInv, LoadConfig
  PROVE  IInv'
<1> USE DEF IInv
<1>1. ASSUME env.uri, notify' = Getenv(env.notify, Default), Advance("config", "mongo"),
             UNCHANGED <<rdb, worker>>
      PROVE  IInv'
  <2>1. notify' \in Names
    BY <1>1 DEF Getenv, TypeOK
  <2>2. TypeOK'
    BY <1>1, <2>1 DEF Advance, TypeOK, redis
  <2> QED
    BY <1>1, <2>2 DEF Advance, ClientFollowsURL, PanicNeedsBadURL
<1> QED
  BY <1>1, ExitKeeps DEF LoadConfig

\* The calls of main after that; ConnectRedis makes the client from the URL alone.
LEMMA ConnectKeeps ==
  ASSUME IInv, ConnectMongo \/ ConnectRedis \/ Listen
  PROVE  IInv'
<1> USE DEF IInv
<1>1. CASE Advance("mongo", "redis") /\ UNCHANGED <<notify, rdb, worker>>
  BY <1>1 DEF Advance, TypeOK, redis, ClientFollowsURL, PanicNeedsBadURL
<1>2. CASE ConnectRedis
  BY <1>2 DEF ConnectRedis, Advance, TypeOK, redis, ClientFollowsURL, PanicNeedsBadURL
<1>3. CASE Advance("listen", "serving") /\ UNCHANGED <<notify, rdb, worker>>
  BY <1>3 DEF Advance, TypeOK, redis, ClientFollowsURL, PanicNeedsBadURL
<1> QED
  BY <1>1, <1>2, <1>3, ExitKeeps DEF ConnectMongo, Listen

\* The worker reads no further than the stream goes.
LEMMA WorkerKeeps ==
  ASSUME IInv, WorkerStep
  PROVE  IInv'
<1> USE DEF IInv
<1>1. CASE WorkerStart
  BY <1>1 DEF WorkerStart, TypeOK, ClientFollowsURL, PanicNeedsBadURL
<1>2. CASE WorkerRead
  <2>1. delivered' \in 0..log
    BY <1>2 DEF WorkerRead, TypeOK
  <2> QED
    BY <1>2, <2>1 DEF WorkerRead, process, TypeOK, ClientFollowsURL, PanicNeedsBadURL
<1> QED
  BY <1>1, <1>2 DEF WorkerStep

\* The handlers; the stream that is opened without a client is a panic, and
\* then the URL did not parse.
LEMMA HandlerKeeps ==
  ASSUME IInv, Publish \/ OpenStream \/ CloseStream
  PROVE  IInv'
<1> USE DEF IInv
<1>1. CASE Publish
  <2>1. log' \in 0..LogBound /\ delivered \in 0..log'
    BY <1>1, BootAssumption DEF Publish, TypeOK
  <2> QED
    BY <1>1, <2>1 DEF Publish, process, TypeOK, ClientFollowsURL, PanicNeedsBadURL
<1>2. CASE OpenStream
  <2>1. CASE rdb = "nil"
    <3>1. ~env.url
      BY <1>2, <2>1 DEF OpenStream, Serving, ClientFollowsURL
    <3> QED
      BY <1>2, <2>1, <3>1 DEF OpenStream, Exit, TypeOK, redis, ClientFollowsURL,
         PanicNeedsBadURL
  <2>2. CASE rdb # "nil"
    BY <1>2, <2>2 DEF OpenStream, TypeOK, redis, ClientFollowsURL, PanicNeedsBadURL
  <2> QED
    BY <2>1, <2>2
<1>3. CASE CloseStream
  BY <1>3 DEF CloseStream, TypeOK, redis, ClientFollowsURL, PanicNeedsBadURL
<1> QED
  BY <1>1, <1>2, <1>3

\* Redis coming and going changes nothing of the process.
LEMMA RedisSwitchesKeeps ==
  ASSUME IInv, RedisSwitches
  PROVE  IInv'
BY DEF RedisSwitches, process, IInv, TypeOK, ClientFollowsURL, PanicNeedsBadURL

\* A step of anyone, or none.
LEMMA StepKeepsIInv == IInv /\ [Next]_vars => IInv'
<1> SUFFICES ASSUME IInv, [Next]_vars PROVE IInv'
  OBVIOUS
<1>1. CASE MainStep
  BY <1>1, LoadConfigKeeps, ConnectKeeps DEF MainStep
<1>2. CASE Kill
  BY <1>2, ExitKeeps DEF Kill
<1>3. CASE UNCHANGED vars
  BY <1>3 DEF vars, process, redis, IInv, TypeOK, ClientFollowsURL, PanicNeedsBadURL
<1> QED
  BY <1>1, <1>2, <1>3, LaunchKeeps, WorkerKeeps, HandlerKeeps,
     RedisSwitchesKeeps DEF Next

\* The inductive invariant.
THEOREM Invariance == Spec => []IInv
<1> QED
  BY InitIInv, StepKeepsIInv, PTL DEF Spec

\* Every variable of the process and of Redis has its type.
THEOREM TypeCorrect == Spec => []TypeOK
<1>1. IInv => TypeOK
  BY DEF IInv
<1> QED
  BY <1>1, Invariance, PTL

\* However often the process is launched and however Redis comes and goes, its
\* absence never makes a browser's goroutine panic: only a URL that does not parse.
THEOREM PanicsNeedBadURLs == Spec => []PanicNeedsBadURL
<1>1. IInv => PanicNeedsBadURL
  BY DEF IInv
<1> QED
  BY <1>1, Invariance, PTL

=============================================================================
