---------------------------- MODULE StatusMachine ----------------------------
(***************************************************************************)
(* What the transaction endpoints promise about one transaction, without   *)
(* the requests, the databases or the failures: it is registered as        *)
(* pending, reviewed once, decided once, and the merchant is told at most  *)
(* once, and told what was decided.                                        *)
(***************************************************************************)
EXTENDS Sequences

CONSTANT Tx

VARIABLES
  status,   \* Tx -> the authoritative status, "none" before registration
  told      \* Tx -> the verdicts the merchant has been sent

Decision == {"approved", "rejected"}

Init ==
  /\ status = [t \in Tx |-> "none"]
  /\ told = [t \in Tx |-> << >>]

Move(t, from, to) ==
  /\ status[t] = from
  /\ status' = [status EXCEPT ![t] = to]
  /\ UNCHANGED told

Register(t) == Move(t, "none", "pending")

Review(t) == Move(t, "pending", "review")

Decide(t) == \E v \in Decision : Move(t, "review", v)

Tell(t) ==
  /\ status[t] \in Decision
  /\ told[t] = << >>
  /\ told' = [told EXCEPT ![t] = << status[t] >>]
  /\ UNCHANGED status

Next == \E t \in Tx : Register(t) \/ Review(t) \/ Decide(t) \/ Tell(t)

Spec == Init /\ [][Next]_<<status, told>>
=============================================================================
