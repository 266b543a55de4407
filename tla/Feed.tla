-------------------------------- MODULE Feed ---------------------------------
(***************************************************************************)
(* What GET /api/sse promises a browser: notifications in the order of the *)
(* stream, each at most once, none from before it connected; some may be   *)
(* skipped.                                                                *)
(***************************************************************************)
EXTENDS Naturals, Sequences

CONSTANTS
  Client,
  Offline   \* not connected yet

VARIABLES
  tail,     \* number of notifications in the stream
  past,     \* Client -> position up to which notifications are past for it
  got       \* Client -> positions received

Init ==
  /\ tail = 0
  /\ past = [c \in Client |-> Offline]
  /\ got = [c \in Client |-> << >>]

Publish ==
  /\ tail' = tail + 1
  /\ UNCHANGED <<past, got>>

Connect(c) ==
  /\ past[c] = Offline
  /\ past' = [past EXCEPT ![c] = tail]
  /\ UNCHANGED <<tail, got>>

Receive(c) ==
  /\ past[c] # Offline
  /\ \E i \in (past[c] + 1)..tail :
       /\ got' = [got EXCEPT ![c] = Append(@, i)]
       /\ past' = [past EXCEPT ![c] = i]
  /\ UNCHANGED tail

Next == Publish \/ \E c \in Client : Connect(c) \/ Receive(c)

Spec == Init /\ [][Next]_<<tail, past, got>>
=============================================================================
