---------------------------- MODULE PlanStatuses ----------------------------
(***************************************************************************)
(* The statuses of a worker execution plan and of its jobs, the sets of    *)
(* them the orchestrator names, and what a plan of each status looks like. *)
(* Jobs are numbered in the order in which the plan's dictionary holds     *)
(* them, which is the order of the requests the plan was created from.     *)
(***************************************************************************)
EXTENDS Integers

CONSTANT NumJobs   \* how many jobs the plan has
ASSUME NumJobsAssumption == NumJobs \in Nat \ {0}

Jobs == 1..NumJobs

\* The jobs that job j declares as dependencies.
DependenciesIn(edges, j) == {d \in Jobs : <<j, d>> \in edges}

\* Every set of jobs has a member that depends on none of the set.
Acyclic(edges) ==
  \A S \in (SUBSET Jobs) \ {{}} : \E j \in S : DependenciesIn(edges, j) \cap S = {}

JobStatuses == {"queued", "running", "succeeded", "partial", "failed",
                "blocked", "cancelled"}
TERMINAL_JOB_STATUSES == JobStatuses \ {"queued", "running"}

\* "none" stands for a plan that is not in the database.
PlanStatuses == {"none", "planned", "running", "succeeded", "partial",
                 "failed", "cancelled"}
TERMINAL_PLAN_STATUSES == {"succeeded", "partial", "failed", "cancelled"}

\* [Fault] A partial result passes for a success.
FailingOutright == {"failed", "blocked"}

\* A required dependency of one of these statuses blocks its dependents.
Failing == {"failed", "partial", "blocked"}

WorkerExecutionPlan ==
  [status : PlanStatuses, jobs : [Jobs -> JobStatuses], attempt : Nat]

NoPlan ==
  [status |-> "none", jobs |-> [j \in Jobs |-> "queued"], attempt |-> 0]

\* [Fault] The partial results are looked for before the cancelled ones.
VerdictPartialFirst(jobs) ==
  CASE \E j \in Jobs : jobs[j] = "partial" -> "partial"
    [] \A j \in Jobs : jobs[j] = "succeeded" -> "succeeded"
    [] (\E j \in Jobs : jobs[j] = "cancelled")
         /\ (\A j \in Jobs : jobs[j] # "partial") -> "cancelled"
    [] OTHER -> "failed"

\* The status execute gives a plan all of whose jobs are terminal.
VerdictOf(jobs) ==
  CASE \E j \in Jobs : jobs[j] = "cancelled" -> "cancelled"
    [] \A j \in Jobs : jobs[j] = "succeeded" -> "succeeded"
    [] (\E j \in Jobs : jobs[j] = "partial")
         /\ (\A j \in Jobs : jobs[j] # "cancelled") -> "partial"
    [] OTHER -> "failed"

\* What reset does to the jobs of a plan that failed.
Requeued(jobs) ==
  [j \in Jobs |-> IF jobs[j] \in {"partial", "failed", "blocked"}
                  THEN "queued" ELSE jobs[j]]
=============================================================================
