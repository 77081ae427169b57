---------------------------- MODULE PlanHistory ----------------------------
(***************************************************************************)
(* The execution of a worker plan with a history of the ends that its      *)
(* record has shown.  The record forgets them: a reset, or a copy that an  *)
(* executor read before, overwrites it.                                    *)
(***************************************************************************)
EXTENDS WorkerOrchestration

VARIABLE ended   \* [history] the attempts that the record has shown as ended

\* A record that shows the plan cancelled ends every attempt: cancellation is
\* meant to be final.
EndedBy(c) ==
  IF c.status = "cancelled" THEN 0..MaxAttempt
  ELSE {n \in 0..MaxAttempt : c.status \in TERMINAL_PLAN_STATUSES /\ n = c.attempt}

HistoryInit == Init /\ ended = {}

HistoryNext == Next /\ ended' = ended \cup EndedBy(stored')

HistorySpec == HistoryInit /\ [][HistoryNext]_<<vars, ended>>

-----------------------------------------------------------------------------
\* "When all jobs are terminal, the project workflow advances": the terminal
\* transition of an attempt is made only once a record has shown that attempt
\* ended, or the plan cancelled.  No crash, lost update, cancellation or late
\* executor lets the project await feedback over an attempt whose outcome nobody
\* could have read; the record may have gone on to a later attempt by then.
EndsAreRecorded ==
  \A n \in 0..MaxAttempt : <<"terminal", n, 0>> \in spent => n \in ended
=============================================================================
