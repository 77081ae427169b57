------------------------- MODULE MCGenerationStages -------------------------
(* Instances of GenerationStages for TLC: a part of the default workflow.  *)
EXTENDS GenerationStages, TLC

CONSTANTS worker, q1, q2, j1, j2, none

MCOrder == <<"system_architecture", "wiring_netlist", "assembly", "package_project">>
MCStages == {MCOrder[i] : i \in DOMAIN MCOrder}
MCDeps ==
  [s \in MCStages |->
     CASE s = "wiring_netlist" -> {"system_architecture"}
       [] s = "assembly" -> {"wiring_netlist"}
       [] OTHER -> {}]
MCReads ==
  [s \in MCStages |-> IF s = "package_project" THEN MCStages \ {s} ELSE MCDeps[s]]

\* The requests and the ids are treated alike.
Symmetry == Permutations({q1, q2}) \cup Permutations({j1, j2})
=============================================================================
