----------------------------- MODULE RevisionLog -----------------------------
(***************************************************************************)
(* What the store of revisions promises: nothing is changed or lost, one   *)
(* revision is added at a time, and no job adds a second one.              *)
(***************************************************************************)
EXTENDS Naturals, Sequences

CONSTANT Sources  \* the jobs that add revisions

VARIABLE log  \* the source of each revision

Init == log = << >>

Next == \E x \in Sources : (\A i \in DOMAIN log : log[i] # x) /\ log' = Append(log, x)

Spec == Init /\ [][Next]_log
=============================================================================
