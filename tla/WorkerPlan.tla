----------------------------- MODULE WorkerPlan -----------------------------
(***************************************************************************)
(* What a persisted worker plan promises to whoever polls it, with no      *)
(* mention of the executors, their private copies of the plan and the      *)
(* writes that overwrite each other: the jobs that ended keep their        *)
(* results, the verdict is read off jobs that have all ended, a            *)
(* cancellation is final, and only a reset begins another attempt.         *)
(***************************************************************************)
EXTENDS PlanStatuses

VARIABLE board   \* the plan as its record shows it

Finished == {"succeeded", "partial", "failed", "blocked"}

\* No job that has finished changes.
Retained == \A j \in Jobs : board.jobs[j] \in Finished => board'.jobs[j] = board.jobs[j]
SameAttempt == board'.attempt = board.attempt

Init == board = NoPlan

Create ==
  /\ board.status = "none"
  /\ board' = [NoPlan EXCEPT !.status = "planned", !.attempt = 1]

\* Jobs start, end, are blocked, or are requeued after a restart.
Work ==
  /\ board.status \in {"planned", "running"}
  /\ board'.status = "running"
  /\ SameAttempt /\ Retained

\* The verdict, once every job has ended.
Settle ==
  /\ board.status = "running"
  /\ \A j \in Jobs : board.jobs[j] \in TERMINAL_JOB_STATUSES
  /\ board' = [board EXCEPT !.status = VerdictOf(board.jobs)]

\* A cancellation, by the user or by a worker that noticed one; after it the
\* executor may still report how its jobs ended.
Cancel ==
  /\ board.status \in {"planned", "running", "cancelled"}
  /\ board'.status = "cancelled"
  /\ SameAttempt /\ Retained

\* Another attempt, of a plan that failed.
Reset ==
  /\ board.status \in {"failed", "partial"}
  /\ board' = [status |-> "planned", jobs |-> Requeued(board.jobs),
               attempt |-> board.attempt + 1]

Next == Create \/ Work \/ Settle \/ Cancel \/ Reset

Spec == Init /\ [][Next]_board
=============================================================================
