--------------------------- MODULE MCPlanHistory ---------------------------
(* An instance of PlanHistory for TLC. *)
EXTENDS PlanHistory

CONSTANTS c1, t1

\* The second of two jobs requires the first, or is advised by it.
PairGraphs == {[requires |-> {<<2, 1>>}, advises |-> {}],
               [requires |-> {}, advises |-> {<<2, 1>>}]}

ServerWithThread == {{c1, t1}}
=============================================================================
