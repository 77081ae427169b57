-------------------------- MODULE GenerationStages --------------------------
(***************************************************************************)
(* The staged generation of one project (GenerationStageRun) and the two   *)
(* that use it: the worker of the plan of a build, which checkpoints every *)
(* stage in the plan, may die and is resumed or reset, and the requests to *)
(* generate, which work in memory and may name a failed stage to retry.    *)
(* Both end by appending a revision with the records of all the stages.    *)
(* The content of a stage is a token of the execution that produced it.    *)
(* Left out: cancellation, edits of a design, and the workflow around.     *)
(***************************************************************************)
EXTENDS Integers, Sequences, FiniteSets

CONSTANTS
  Stages, Deps,     \* the stages of the workflow and what each depends on
  Reads,            \* the stages whose results the producer of each looks at
  Order,            \* the order in which they are run
  Package, Root,    \* package_project, and the stage without which all fails
  Worker, Requests, \* who generates
  Jobs,             \* the client's ids of the requests
  None,
  MaxAttempts, MaxRuns, MaxFailing, MaxFaults  \* bounds: attempts of the plan, executions
                                   \* and requests together, and failures

Procs == {Worker} \cup Requests

ASSUME StagesAssumption ==
  /\ Order \in Seq(Stages) /\ \A s \in Stages : \E i \in DOMAIN Order : Order[i] = s
  /\ Deps \in [Stages -> SUBSET Stages] /\ Reads \in [Stages -> SUBSET Stages]
  /\ \A s \in Stages : Deps[s] \subseteq Reads[s] /\ s \notin Reads[s]
  /\ Package \in Stages /\ Root \in Stages
  \* The package comes after all that it reads, and nothing reads the package.
  /\ \A s \in Stages : Package \notin Reads[s]
  /\ \A i, j \in DOMAIN Order : Order[i] = Package /\ Order[j] \in Reads[Package] => j < i
  /\ Worker \notin Requests /\ None \notin Stages
  /\ MaxAttempts \in Nat \ {0} /\ MaxRuns \in Nat /\ MaxFaults \in Nat

VARIABLES
  revisions,              \* project_revisions, in order
  job,                    \* the client's id of each request
  planStatus, attempt,    \* of the plan: planned, running or how it ended
  checkpoints,            \* the latest record that the plan holds of each stage
  prior, retryStage,      \* what a reset has put in the request of its job
  result,                 \* the records that the result of its job refers to
  executions, faults,     \* how often the plan was executed; what went wrong
  pc, rec, at,            \* of each process: where it is, its records, its place
  base, retrying,         \* the records it began with and the stage it retries
  parent, outcome,        \* the revision it read last, and the one it ends with
  drifted                 \* an execution began with other results than the plan shows

plan == <<planStatus, attempt, checkpoints, prior, retryStage, result>>
memory == <<rec, at, base, retrying, parent, outcome>>
vars == <<revisions, job, plan, executions, faults, pc, memory, drifted>>

-----------------------------------------------------------------------------
(* The records of the stages. *)

Statuses == {"not_started", "running", "succeeded", "failed", "blocked"}

\* The executions that have produced something.
Tokens == {None} \cup (Procs \X (0..MaxRuns \cup {1}))

Records ==
  [status : Statuses, attempt : Nat, inputs : SUBSET (Stages \X Nat),
   output : Tokens, from : SUBSET (Stages \X Tokens)]

Runs == [Stages -> Records]

ASSUME NoneAssumption == None \notin Runs /\ None \notin Procs \X Nat

\* input_artifact_ids holds the attempt of each dependency; "from" is what the
\* producer has read, and "output" the execution that produced the artifact.
NotStarted == [status |-> "not_started", attempt |-> 0, inputs |-> {},
               output |-> None, from |-> {}]

Fresh == [s \in Stages |-> NotStarted]

Succeeded(R, s) == R[s].status = "succeeded"
FailedIn(R) == {s \in Stages : R[s].status = "failed"}
With(R, s, r) == [R EXCEPT ![s] = r]

\* [Fault] Every stage is invalidated.
ClosureOfAll(s, present) == IF s = None THEN {} ELSE Stages

\* [Fault] The package is left alone.
ClosureWithoutPackage(s, present) ==
  IF s = None THEN {}
  ELSE {t \in Stages : \A C \in SUBSET Stages :
          (s \in C /\ \A u \in present : Deps[u] \cap C # {} => u \in C) => t \in C}

\* The stage, its dependents among those present, theirs, and the package.
Closure(s, present) ==
  IF s = None THEN {}
  ELSE {t \in Stages : \A C \in SUBSET Stages :
          (s \in C /\ \A u \in present : Deps[u] \cap C # {} => u \in C) => t \in C}
       \cup {Package}

\* What a stage that was running when its process died becomes.
Interrupted(r) ==
  IF r.status = "running" THEN [r EXCEPT !.status = "failed"] ELSE r

Invalidated(r) ==
  [r EXCEPT !.status = "not_started", !.output = None, !.from = {}]

\* The records with which a run begins, over those of an earlier one.
Resumed(R, s) ==
  [t \in Stages |-> IF t \in Closure(s, Stages) THEN Invalidated(Interrupted(R[t]))
                    ELSE Interrupted(R[t])]

\* [Fault] Only a stage that failed itself holds up its dependents.
UnsatisfiedIfFailed(R, s) == {d \in Deps[s] : R[d].status = "failed"}

Unsatisfied(R, s) == {d \in Deps[s] : ~Succeeded(R, d)}

Blocked(R, s) == [R[s] EXCEPT !.status = "blocked"]

Started(R, s) ==
  [R[s] EXCEPT !.status = "running", !.attempt = @ + 1, !.from = {},
               !.inputs = {<<d, R[d].attempt>> : d \in {e \in Deps[s] : R[e].output # None}}]

Produced(R, s, token) ==
  [R[s] EXCEPT !.status = "succeeded", !.output = token,
               !.from = {<<d, R[d].output>> : d \in Reads[s]}]

\* [Fault] The status of a stage that fails is taken from its error.
FailingAsError(R, s) == [R[s] EXCEPT !.status = "error", !.output = None, !.from = {}]

Failing(R, s) == [R[s] EXCEPT !.status = "failed", !.output = None, !.from = {}]

\* Stages that have succeeded are passed over.
NextAt(R, i) ==
  CHOOSE j \in i..(Len(Order) + 1) :
    /\ j <= Len(Order) => ~Succeeded(R, Order[j])
    /\ \A k \in i..(j - 1) : Succeeded(R, Order[k])

\* generation_status of a run that has come to its end.
RunStatus(R) ==
  IF R[Root].status \in {"failed", "blocked"} THEN "failed"
  ELSE IF \A s \in Stages : Succeeded(R, s) THEN "succeeded"
  ELSE "partial"

-----------------------------------------------------------------------------
Init ==
  /\ revisions = << >> /\ job \in [Requests -> Jobs]
  /\ planStatus = "planned" /\ attempt = 1 /\ checkpoints = Fresh
  /\ prior = None /\ retryStage = None /\ result = None
  /\ executions = 0 /\ faults = 0
  /\ pc = [p \in Procs |-> "idle"] /\ rec = [p \in Procs |-> Fresh]
  /\ at = [p \in Procs |-> 1] /\ base = [p \in Procs |-> Fresh]
  /\ retrying = [p \in Procs |-> None] /\ parent = [p \in Procs |-> 0]
  /\ outcome = [p \in Procs |-> 0] /\ drifted = FALSE

Goto(p, l) == pc' = [pc EXCEPT ![p] = l]
At(p, l) == pc[p] = l
Stage(p) == Order[at[p]]
AtStage(p) == pc[p] = "stages" /\ at[p] <= Len(Order)

\* A process enters its run at place i with the records R, over B, to retry s.
Enter(p, B, R, s, i) ==
  /\ rec' = [rec EXCEPT ![p] = R] /\ base' = [base EXCEPT ![p] = B]
  /\ retrying' = [retrying EXCEPT ![p] = s]
  /\ at' = [at EXCEPT ![p] = i] /\ Goto(p, "stages")
  /\ UNCHANGED <<parent, outcome>>

Forget(p) ==
  /\ rec' = [rec EXCEPT ![p] = Fresh] /\ base' = [base EXCEPT ![p] = Fresh]
  /\ retrying' = [retrying EXCEPT ![p] = None] /\ at' = [at EXCEPT ![p] = 1]
  /\ parent' = [parent EXCEPT ![p] = 0] /\ outcome' = [outcome EXCEPT ![p] = 0]

\* One more execution or request, of all of them together.
RunsBegun == executions + Cardinality({q \in Requests : pc[q] # "idle"})
AnotherRun == RunsBegun < MaxRuns

Fault == faults < MaxFaults /\ faults' = faults + 1

\* [Fault] All attempts of a plan share the id of its job.
SourceOfJob(p) == IF p = Worker THEN <<"plan", 1>> ELSE <<"generation", job[p]>>

\* source_job_id.
Source(p) == IF p = Worker THEN <<"plan", attempt>> ELSE <<"generation", job[p]>>

BySource(x) == {i \in DOMAIN revisions : revisions[i].source = x}

-----------------------------------------------------------------------------
(* The worker: a plan is executed until it ends, by one process at a time. *)

HasCheckpoint == \E s \in Stages : checkpoints[s].status # "not_started"

PriorRun ==
  IF prior # None THEN prior
  ELSE IF HasCheckpoint THEN checkpoints
  ELSE IF revisions # << >> THEN revisions[Len(revisions)].rec ELSE Fresh

\* The results that R and the checkpoints agree upon.
Agrees(R) ==
  \A s \in Stages :
    /\ Succeeded(R, s) <=> Succeeded(checkpoints, s)
    /\ Succeeded(R, s) => R[s] = checkpoints[s]

Execute ==
  /\ At(Worker, "idle") /\ planStatus \in {"planned", "running"}
  /\ AnotherRun /\ executions' = executions + 1
  /\ planStatus' = "running"
  /\ \/ /\ BySource(Source(Worker)) # {}
        /\ outcome' = [outcome EXCEPT ![Worker] =
                         CHOOSE i \in BySource(Source(Worker)) : TRUE]
        /\ Goto(Worker, "result")
        /\ UNCHANGED <<rec, at, base, retrying, parent, drifted>>
     \/ /\ BySource(Source(Worker)) = {}
        /\ LET R == Resumed(PriorRun, retryStage)
           IN Enter(Worker, PriorRun, R, retryStage, NextAt(R, 1))
              /\ drifted' = (drifted \/ ~Agrees(R))
  /\ UNCHANGED <<revisions, job, attempt, checkpoints, prior, retryStage, result, faults>>

\* A stage that changes is reported to the plan; a report of a
\* success that raises makes it fail; any other that raises ends the execution.
Report(s, r) ==
  /\ rec' = [rec EXCEPT ![Worker] = With(rec[Worker], s, r)]
  /\ checkpoints' = With(checkpoints, s, r)

Pass(s, r) == at' = [at EXCEPT ![Worker] = NextAt(With(rec[Worker], s, r), at[Worker] + 1)]

Token(p) == <<p, IF p = Worker THEN executions ELSE 1>>

WorkerBlocks ==
  /\ AtStage(Worker)
  /\ LET s == Stage(Worker)
         r == Blocked(rec[Worker], s)
     IN /\ Unsatisfied(rec[Worker], s) # {}
        /\ Report(s, r) /\ Pass(s, r)
  /\ UNCHANGED <<revisions, job, planStatus, attempt, prior, retryStage, result,
                 executions, faults, pc, base, retrying, parent, outcome, drifted>>

WorkerStarts ==
  /\ AtStage(Worker)
  /\ LET s == Stage(Worker)
     IN /\ Unsatisfied(rec[Worker], s) = {}
        /\ Report(s, Started(rec[Worker], s))
  /\ Goto(Worker, "producing")
  /\ UNCHANGED <<revisions, job, planStatus, attempt, prior, retryStage, result,
                 executions, faults, at, base, retrying, parent, outcome, drifted>>

WorkerEndsStage ==
  /\ At(Worker, "producing")
  /\ LET s == Stage(Worker)
     IN \E r \in {Produced(rec[Worker], s, Token(Worker)), Failing(rec[Worker], s)} :
          Report(s, r) /\ Pass(s, r)
  /\ Goto(Worker, "stages")
  /\ UNCHANGED <<revisions, job, planStatus, attempt, prior, retryStage, result,
                 executions, faults, base, retrying, parent, outcome, drifted>>

ReportRaises ==
  /\ (AtStage(Worker) \/ At(Worker, "producing")) /\ Fault /\ Goto(Worker, "result")
  /\ UNCHANGED <<revisions, job, plan, executions, memory, drifted>>

\* The projection of the revision is published; a failure fails the job.
PublishRaises ==
  /\ At(Worker, "result") /\ outcome[Worker] # 0 /\ Fault
  /\ outcome' = [outcome EXCEPT ![Worker] = 0]
  /\ UNCHANGED <<revisions, job, plan, executions, pc, rec, at, base, retrying,
                 parent, drifted>>

Finish ==
  /\ At(Worker, "result")
  /\ LET i == outcome[Worker]
     IN IF i = 0 THEN planStatus' = "failed" /\ result' = None
        ELSE /\ planStatus' = RunStatus(revisions[i].rec)
             /\ result' = IF planStatus' = "succeeded" \/ FailedIn(revisions[i].rec) = {}
                          THEN None ELSE revisions[i].rec
  /\ Goto(Worker, "idle") /\ Forget(Worker)
  /\ UNCHANGED <<revisions, job, attempt, checkpoints, prior, retryStage,
                 executions, faults, drifted>>

Crash ==
  /\ pc[Worker] # "idle" /\ Fault
  /\ Goto(Worker, "idle") /\ Forget(Worker)
  /\ UNCHANGED <<revisions, job, plan, executions, drifted>>

Present(R) == {s \in Stages : R[s].status # "not_started"}

\* The job keeps its run in the request and drops what it retries from its
\* progress.  The code retries the first failed stage, here any of them.
Reset ==
  /\ planStatus \in {"failed", "partial"} /\ attempt < MaxAttempts
  /\ LET R == IF result # None THEN result ELSE checkpoints
     IN IF result = None /\ ~HasCheckpoint
        THEN UNCHANGED <<checkpoints, prior, retryStage>>
        ELSE /\ prior' = R
             /\ \E s \in (IF FailedIn(R) = {} THEN {None} ELSE FailedIn(R)) :
                  /\ retryStage' = s
                  /\ checkpoints' = [t \in Stages |->
                       IF t \in Closure(s, Present(R)) THEN NotStarted ELSE checkpoints[t]]
  /\ attempt' = attempt + 1 /\ planStatus' = "planned" /\ result' = None
  /\ UNCHANGED <<revisions, job, executions, faults, pc, memory, drifted>>

-----------------------------------------------------------------------------
(* The requests.  Nobody sees the stages of one until it ends: they are one *)
(* step, in which the producers of the stages in ok return.                 *)

\* Stage s of a run that holds Q.
RunStage(Q, s, ok, token) ==
  LET S == With(Q, s, Started(Q, s))
  IN IF Succeeded(Q, s) THEN Q
     ELSE With(Q, s, IF Unsatisfied(Q, s) # {} THEN Blocked(Q, s)
                     ELSE IF s \in ok THEN Produced(S, s, token)
                     ELSE Failing(S, s))

RunFrom(R, ok, token) ==
  LET run[i \in 0..Len(Order)] ==
        IF i = 0 THEN R ELSE RunStage(run[i - 1], Order[i], ok, token)
  IN run[Len(Order)]

Generation(q, B, R, s) ==
  \E failing \in SUBSET Stages :
    /\ Cardinality(failing) <= MaxFailing
    /\ Enter(q, B, RunFrom(R, Stages \ failing, Token(q)), s, Len(Order) + 1)

Generate(q) ==
  /\ At(q, "idle") /\ AnotherRun /\ Generation(q, Fresh, Fresh, None)
  /\ UNCHANGED <<revisions, job, plan, executions, faults, drifted>>

\* A stage that has failed is retried; one that this job's own retry has made
\* succeed is replayed; any other answer is an error.
Retry(q, s) ==
  /\ At(q, "idle") /\ AnotherRun /\ revisions # << >>
  /\ LET last == revisions[Len(revisions)]
     IN \/ /\ last.rec[s].status = "failed"
           /\ Generation(q, last.rec, Resumed(last.rec, s), s)
        \/ /\ Succeeded(last.rec, s) /\ last.source = Source(q) /\ last.retry = s
           /\ Generation(q, last.rec, Resumed(last.rec, None), s)
  /\ UNCHANGED <<revisions, job, plan, executions, faults, drifted>>


-----------------------------------------------------------------------------
(* The revision of a run. *)

\* The worker has revision i, or an error if that is 0; a request answers.
EndWith(p, i) ==
  IF p = Worker
  THEN /\ outcome' = [outcome EXCEPT ![p] = i] /\ Goto(p, "result")
       /\ UNCHANGED <<rec, at, base, retrying, parent>>
  ELSE Forget(p) /\ Goto(p, "done")

ReadParent(p) ==
  /\ At(p, "stages") /\ at[p] > Len(Order)
  /\ IF BySource(Source(p)) # {}
     THEN \E i \in BySource(Source(p)) : EndWith(p, i)
     ELSE /\ parent' = [parent EXCEPT ![p] = Len(revisions)]
          /\ Goto(p, "append") /\ UNCHANGED <<rec, at, base, retrying, outcome>>
  /\ UNCHANGED <<revisions, job, plan, executions, faults, drifted>>

NewRevision(p) ==
  [source |-> Source(p), rec |-> rec[p], retry |-> retrying[p]]

\* [Fault] The revision takes whatever number is free.
InsertableAlways(p) == TRUE

\* The number after that of the parent is still free.
Insertable(p) == parent[p] = Len(revisions)

Insert(p) ==
  /\ At(p, "append") /\ Insertable(p)
  /\ revisions' = Append(revisions, NewRevision(p))
  /\ EndWith(p, Len(revisions) + 1)
  /\ UNCHANGED <<job, plan, executions, faults, drifted>>

\* Another revision has been inserted: it is the job's own, or a conflict.  A
\* first revision is looked for once more before the insertion, and any that
\* is found is an error.
Conflict(p) ==
  /\ At(p, "append") /\ ~Insertable(p)
  /\ \E i \in IF BySource(Source(p)) = {} THEN {0}
              ELSE BySource(Source(p)) \cup (IF parent[p] = 0 THEN {0} ELSE {}) :
       EndWith(p, i)
  /\ UNCHANGED <<revisions, job, plan, executions, faults, drifted>>

-----------------------------------------------------------------------------
WorkerStep ==
  \/ Execute \/ WorkerBlocks \/ WorkerStarts \/ WorkerEndsStage \/ Finish

RequestStep(q) ==
  \/ Generate(q) \/ (\E s \in Stages : Retry(q, s))

Revise(p) == ReadParent(p) \/ Insert(p) \/ Conflict(p)

Next ==
  \/ WorkerStep \/ ReportRaises \/ PublishRaises \/ Crash \/ Reset
  \/ \E q \in Requests : RequestStep(q)
  \/ \E p \in Procs : Revise(p)

Spec == Init /\ [][Next]_vars

-----------------------------------------------------------------------------
(* Properties. *)

Sources == ({"plan"} \X (1..MaxAttempts)) \cup ({"generation"} \X Jobs)

TypeOK ==
  /\ revisions \in Seq([source : Sources, rec : Runs, retry : Stages \cup {None}])
  /\ job \in [Requests -> Jobs]
  /\ planStatus \in {"planned", "running", "succeeded", "partial", "failed"}
  /\ attempt \in 1..MaxAttempts
  /\ checkpoints \in Runs /\ prior \in Runs \cup {None} /\ result \in Runs \cup {None}
  /\ retryStage \in Stages \cup {None}
  /\ executions \in 0..MaxRuns /\ faults \in 0..MaxFaults
  /\ pc \in [Procs -> {"idle", "stages", "producing", "append", "result", "done"}]
  /\ rec \in [Procs -> Runs] /\ base \in [Procs -> Runs]
  /\ at \in [Procs -> 1..(Len(Order) + 1)]
  /\ retrying \in [Procs -> Stages \cup {None}]
  /\ parent \in [Procs -> 0..Len(revisions)] /\ outcome \in [Procs -> 0..Len(revisions)]
  /\ drifted \in BOOLEAN

\* Every stage that succeeded was made from what its dependencies hold now.
Consistent(R) ==
  \A s \in Stages : Succeeded(R, s) =>
    \A d \in Deps[s] :
      /\ Succeeded(R, d)
      /\ <<d, R[d].attempt>> \in R[s].inputs
      /\ <<d, R[d].output>> \in R[s].from

\* No stored design mixes the results of two runs: each stage was made from
\* the results of its dependencies that are stored with it, however often the
\* worker died, was reset or failed to report, as long as its executions began
\* where its checkpoints ended: a plan that takes over the run of the latest
\* revision reports only what it runs again, and when it is resumed the rest is
\* generated anew beside that.  (pipeline.py:88-291, generation.py:403.)
InputsAreCurrent ==
  ~drifted => \A i \in DOMAIN revisions : Consistent(revisions[i].rec)

\* A retry or a resumption gives up no result but that of the package.
\* (docs/generation-worker.md:35, pipeline.py:142.)
RetryKeepsResults ==
  ~drifted => \A p \in Procs : pc[p] \in {"stages", "append"} =>
    \A s \in Stages \ {Package} : Succeeded(base[p], s) => rec[p][s] = base[p][s]

\* What a request stores was packaged after every other stage had ended, and
\* not copied from an earlier run.  (pipeline.py:153.)
PackageIsCurrent ==
  \A i \in DOMAIN revisions :
    (revisions[i].source[1] = "generation" /\ Succeeded(revisions[i].rec, Package)) =>
      revisions[i].rec[Package].from =
        {<<d, revisions[i].rec[d].output>> : d \in Reads[Package]}

\* A plan that has ended well or partly has a revision of its last attempt,
\* and the plan's status is the status of what that revision holds, though the
\* worker may have died between the two.  (generation.py:361, 567.)
PlanAgreesWithRevision ==
  planStatus \in {"succeeded", "partial"} =>
    \E i \in DOMAIN revisions :
      /\ revisions[i].source = <<"plan", attempt>>
      /\ planStatus = RunStatus(revisions[i].rec)

\* An execution never runs a stage whose success the plan already holds, until
\* the plan is reset.  (orchestration.py:671-688.)
StartsFinishedStage ==
  \E s \in Stages :
    /\ Succeeded(checkpoints, s)
    /\ checkpoints'[s].status = "running"

\* Not kept by the code, and checked by no run: after a reset, the run that the
\* reset has put in the request is preferred to the checkpoints made since.
\* (orchestration.py:688; docs/generation-worker.md:43.)
ResumesFromCheckpoint == [][~StartsFinishedStage]_vars

\* The revisions of a project only grow, and each has a job of its own.
Log == INSTANCE RevisionLog WITH
  log <- [i \in DOMAIN revisions |-> revisions[i].source]
ImplementsLog == Log!Spec
=============================================================================
