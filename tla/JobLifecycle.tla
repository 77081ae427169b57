---------------------------- MODULE JobLifecycle ----------------------------
(***************************************************************************)
(* What the job store promises about the row of a job that the server owns *)
(* and that is submitted as an A2A message: the row is created once, it is *)
(* started before it is finished, and a cancelled row is left alone.  A    *)
(* finished row may be finished once more, when the store failed to say    *)
(* that it had recorded the first result.                                  *)
(***************************************************************************)
VARIABLE status

Finished == {"succeeded", "partial", "failed"}

Init == status = "none"

Create == status = "none" /\ status' = "queued"
Start == status = "queued" /\ status' = "running"
Finish == status \in {"running"} \cup Finished /\ status' \in Finished
Cancel == status \in {"queued", "running"} /\ status' = "cancelled"

Next == Create \/ Start \/ Finish \/ Cancel

Spec == Init /\ [][Next]_status
=============================================================================
