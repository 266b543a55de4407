------------------------------ MODULE MCWorker -------------------------------
(* Instances of Worker for TLC.                                             *)
EXTENDS Worker

\* What transactions.go appends: every entry has a type and data.
Published == {[type |-> "transaction.created", data |-> "doc"]}

\* With an entry that has no data, which the worker also handles.
Mixed == Published \cup {[type |-> "transaction.review", data |-> Absent]}
=============================================================================
