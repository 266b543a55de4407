-------------------------------- MODULE Relay --------------------------------
(***************************************************************************)
(* What the worker promises about the entries of the processing stream,    *)
(* without groups, batches, calls or processes: an entry is announced to   *)
(* the browsers or lost, and what became of it is final.  The death of a   *)
(* process or a lost reply may lose several entries at once.               *)
(***************************************************************************)
EXTENDS Naturals, Sequences

VARIABLE fate   \* per entry: "waiting", "announced" or "lost"

Init == fate = << >>

Publish == fate' = Append(fate, "waiting")

Settle(S, f) == fate' = [i \in DOMAIN fate |-> IF i \in S THEN f ELSE fate[i]]

Waiting == {i \in DOMAIN fate : fate[i] = "waiting"}

Announce == \E i \in Waiting : Settle({i}, "announced")

Lose == \E S \in SUBSET Waiting : Settle(S, "lost")

Next == Publish \/ Announce \/ Lose

Spec == Init /\ [][Next]_fate
=============================================================================
