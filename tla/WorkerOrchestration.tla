------------------------- MODULE WorkerOrchestration -------------------------
(***************************************************************************)
(* The execution of one worker plan: WorkerOrchestrator, the record of the *)
(* plan, the workflow of its project and the callers that execute, cancel  *)
(* and reset it.  Every call loads the record into a copy of its own and   *)
(* persists that copy as a whole; persisting reads the record, gives up if *)
(* it was cancelled, and otherwise overwrites it in a second transaction.  *)
(* The requests that one server handles share an event loop, which         *)
(* switches between them only where an executor awaits its workers; a      *)
(* detached executor has a thread and a loop of its own.  Both share the   *)
(* server's dispatcher, which knows one executor of the plan at most,      *)
(* refuses to execute it for another request, and forgets the one it knew  *)
(* when it launches a thread.                                              *)
(***************************************************************************)
EXTENDS PlanStatuses, FiniteSets, WorkflowStates

CONSTANTS
  Graphs,          \* the dependency graphs that create_plan is called with
  MaxConcurrency,  \* how many jobs of a batch run at once
  Servers,         \* a partition of the callers into server processes
  Detached,        \* the callers that are threads started by _launch
  RetryTargets,    \* the jobs that reset_job is called for
  UserTargets,     \* the states the user moves the project to meanwhile
  MaxAttempt,      \* a bound on the attempts
  MaxMoves,        \* a bound on the revision of the workflow
  MaxCrashes       \* a bound on the crashes

Callers == UNION Servers

ASSUME ConstantsAssumption ==
  /\ \A S, T \in Servers : S # T => S \cap T = {}
  /\ Detached \subseteq Callers /\ RetryTargets \subseteq Jobs
  /\ UserTargets \subseteq States
  /\ MaxConcurrency \in Nat \ {0} /\ MaxAttempt \in Nat \ {0}
  /\ MaxMoves \in Nat /\ MaxCrashes \in Nat

Server(p) == CHOOSE S \in Servers : p \in S
Loop(p) == IF p \in Detached THEN {p} ELSE Server(p) \ Detached

\* The keys under which the orchestrator moves the workflow; the third
\* component is the job of a retry, 0 otherwise.
Keys == {"terminal", "reset", "retry"} \X (0..MaxAttempt) \X (0..NumJobs)
NoKey == <<"none", 0, 0>>

VARIABLES
  stored,     \* the record of the plan
  graph,      \* the dependencies declared by its requests
  workflow, moves, spent,  \* the project's workflow (see WorkflowMachine)
  pc,         \* where each caller is
  call,       \* the operation it performs
  plan,       \* its copy of the plan
  next,       \* where it continues once the copy is persisted
  batch,      \* the ready jobs that its executor has not started yet
  key,        \* the key under which it reopens the workflow
  registered, \* the executors that the dispatchers know
  signalled,  \* the executors whose cancellation event is set
  crashes     \* how many servers have crashed

workflowVars == <<workflow, moves, spent>>
callVars == <<pc, call, plan, next, batch, key, registered, signalled>>
vars == <<stored, graph, workflowVars, callVars, crashes>>

Workflow == INSTANCE WorkflowMachine
              WITH state <- workflow, revision <- moves

\* Copy c with status s and jobs J.
With(c, s, J) == [status |-> s, jobs |-> J, attempt |-> c.attempt]

Phases == {"idle", "load", "round", "dispatch", "gather", "settle", "advance",
           "cancel", "reopen", "check", "write"}

-----------------------------------------------------------------------------
(* Dependency graphs. *)

Graph == [requires : SUBSET (Jobs \X Jobs), advises : SUBSET (Jobs \X Jobs)]
NoGraph == [requires |-> {}, advises |-> {}]
ASSUME GraphsAssumption == Graphs \subseteq Graph

Dependencies(g, j) == DependenciesIn(g.requires \cup g.advises, j)

\* Every request comes after the requests it depends on.
InOrder(g) == \A j, d \in Jobs : d \in Dependencies(g, j) => d < j

\* The jobs that are invalidated with job j: j and its transitive dependents.
IsInvalidated(I, j) ==
  LET Closed(S) == \A c \in Jobs : Dependencies(graph, c) \cap S # {} => c \in S
  IN  /\ j \in I /\ Closed(I)
      /\ \A S \in SUBSET I : j \in S /\ Closed(S) => S = I

-----------------------------------------------------------------------------
(* Calls and the event loop. *)

Executing(p) == call[p] = "execute"
Running(p) == {j \in Jobs : plan[p].jobs[j] = "running"}

\* Callers of one loop give way only where they await their workers.
Turn(p) == \A q \in Loop(p) \ {p} : pc[q] \in {"idle", "gather"}

\* Caller p carries copy c on to phase l.
Goto(p, l, c) ==
  /\ pc' = [pc EXCEPT ![p] = l]
  /\ plan' = [plan EXCEPT ![p] = c]

\* Caller p persists copy c and then continues at l.
Persisting(p, c, l) ==
  /\ Goto(p, "check", c)
  /\ next' = [next EXCEPT ![p] = l]

\* Caller p returns, or raises.
Return(p) ==
  /\ Goto(p, "idle", NoPlan)
  /\ call' = [call EXCEPT ![p] = "none"]
  /\ next' = [next EXCEPT ![p] = "idle"]
  /\ batch' = [batch EXCEPT ![p] = {}]
  /\ key' = [key EXCEPT ![p] = NoKey]
  /\ registered' = registered \ {p}
  /\ signalled' = signalled \ {p}

Init ==
  /\ stored = NoPlan /\ graph = NoGraph
  /\ workflow = "building" /\ moves = 1 /\ spent = {}
  /\ pc = [p \in Callers |-> "idle"] /\ call = [p \in Callers |-> "none"]
  /\ plan = [p \in Callers |-> NoPlan] /\ next = [p \in Callers |-> "idle"]
  /\ batch = [p \in Callers |-> {}] /\ key = [p \in Callers |-> NoKey]
  /\ registered = {} /\ signalled = {} /\ crashes = 0

\* create_plan inserts the plan unless _validate_graph finds its graph cyclic
\* (see WorkerGraph).
CreatePlan(g) ==
  /\ stored.status = "none" /\ Acyclic(g.requires \cup g.advises)
  /\ stored' = [NoPlan EXCEPT !.status = "planned", !.attempt = 1]
  /\ graph' = g
  /\ UNCHANGED <<workflowVars, callVars, crashes>>

-----------------------------------------------------------------------------
(* Persisting a copy. *)

\* [Fault] The record is overwritten without a look at it.
PersistUnchecked(p) ==
  /\ pc[p] = "check" /\ Turn(p)
  /\ Goto(p, "write", plan[p])
  /\ UNCHANGED <<call, next, batch, key, registered, signalled>>
  /\ UNCHANGED <<stored, graph, workflowVars, crashes>>

PersistCheck(p) ==
  /\ pc[p] = "check" /\ Turn(p)
  /\ IF stored.status = "cancelled" /\ plan[p].status # "cancelled"
       THEN IF next[p] = "idle"
              THEN Return(p)
              ELSE /\ Goto(p, next[p], plan[p])
                   /\ UNCHANGED <<call, next, batch, key, registered, signalled>>
       ELSE /\ Goto(p, "write", plan[p])
            /\ UNCHANGED <<call, next, batch, key, registered, signalled>>
  /\ UNCHANGED <<stored, graph, workflowVars, crashes>>

PersistWrite(p) ==
  /\ pc[p] = "write" /\ Turn(p)
  /\ stored' = plan[p]
  /\ IF next[p] = "idle"
       THEN Return(p)
       ELSE /\ Goto(p, next[p], plan[p])
            /\ UNCHANGED <<call, next, batch, key, registered, signalled>>
  /\ UNCHANGED <<graph, workflowVars, crashes>>

-----------------------------------------------------------------------------
(* execute. *)

\* Jobs that were running when the record was written are queued again.
Resumed(c) ==
  With(c, "running",
       [j \in Jobs |-> IF c.jobs[j] = "running" THEN "queued" ELSE c.jobs[j]])

\* start launches a thread for a plan it finds planned, the endpoint executes
\* the plan in its request unless the dispatcher knows an executor.
Launch(p) ==
  /\ p \in Detached /\ stored.status = "planned"
  /\ registered' = (registered \ Server(p)) \cup {p}

Attach(p) ==
  /\ p \notin Detached /\ stored.status # "none"
  /\ registered \cap Server(p) = {}
  /\ registered' = registered \cup {p}

Execute(p) ==
  /\ pc[p] = "idle" /\ Turn(p)
  /\ Launch(p) \/ Attach(p)
  /\ call' = [call EXCEPT ![p] = "execute"]
  /\ pc' = [pc EXCEPT ![p] = "load"]
  /\ UNCHANGED <<stored, graph, workflowVars, plan, next, batch, key, signalled, crashes>>

\* [Fault] A plan that has ended is returned without advancing its workflow.
LoadReturnsEarly(p) ==
  /\ pc[p] = "load" /\ Turn(p)
  /\ IF stored.status \in TERMINAL_PLAN_STATUSES
       THEN Return(p)
       ELSE /\ Persisting(p, Resumed(stored), "round")
            /\ UNCHANGED <<call, batch, key, registered, signalled>>
  /\ UNCHANGED <<stored, graph, workflowVars, crashes>>

Load(p) ==
  /\ pc[p] = "load" /\ Turn(p)
  /\ IF stored.status \in TERMINAL_PLAN_STATUSES
       THEN Goto(p, "advance", stored) /\ UNCHANGED next
       ELSE Persisting(p, Resumed(stored), "round")
  /\ UNCHANGED <<stored, graph, workflowVars, call, batch, key, registered, signalled, crashes>>

\* One pass of _block_unsatisfied_jobs over the jobs in their order: it sees
\* the jobs it has already blocked, not those it blocks later.
IsBlockedPass(B, jobs) ==
  \A j \in Jobs : j \in B <=>
    /\ jobs[j] = "queued"
    /\ \E d \in Jobs : /\ <<j, d>> \in graph.requires
                       /\ jobs[d] \in Failing \/ (d \in B /\ d < j)

Block(p) ==
  /\ pc[p] = "round" /\ Turn(p)
  /\ \E B \in SUBSET Jobs :
       /\ IsBlockedPass(B, plan[p].jobs)
       /\ IF B = {}
            THEN Goto(p, "dispatch", plan[p]) /\ UNCHANGED next
            ELSE Persisting(p,
                   With(plan[p], plan[p].status,
                     [j \in Jobs |-> IF j \in B THEN "blocked"
                                     ELSE plan[p].jobs[j]]),
                   "dispatch")
  /\ UNCHANGED <<stored, graph, workflowVars, call, batch, key, registered, signalled, crashes>>

\* [Fault] An advisory dependency has to succeed as well.
ReadyOnSuccess(jobs) ==
  {j \in Jobs : /\ jobs[j] = "queued"
                /\ \A d \in Dependencies(graph, j) : jobs[d] = "succeeded"}

\* _ready_jobs: the queued jobs all of whose dependencies have ended.
Ready(jobs) ==
  {j \in Jobs : /\ jobs[j] = "queued"
                /\ \A d \in Dependencies(graph, j) :
                     jobs[d] \in TERMINAL_JOB_STATUSES}

Dispatch(p) ==
  /\ pc[p] = "dispatch" /\ Turn(p)
  /\ batch' = [batch EXCEPT ![p] = Ready(plan[p].jobs)]
  /\ pc' = [pc EXCEPT ![p] = IF batch'[p] = {} THEN "settle" ELSE "gather"]
  /\ UNCHANGED <<stored, graph, workflowVars, call, plan, next, key, registered, signalled, crashes>>

\* The semaphore admits the jobs of the batch in their order.
StartJob(p) ==
  /\ pc[p] = "gather" /\ Turn(p)
  /\ Cardinality(Running(p)) < MaxConcurrency
  /\ \E j \in batch[p] :
       /\ \A k \in batch[p] : j <= k
       /\ batch' = [batch EXCEPT ![p] = @ \ {j}]
       /\ Persisting(p, With(plan[p], plan[p].status,
                             [plan[p].jobs EXCEPT ![j] = "running"]), "gather")
  /\ UNCHANGED <<stored, graph, workflowVars, call, key, registered, signalled, crashes>>

\* report_progress persists the copy; what was reported is left out.
ReportProgress(p) ==
  /\ pc[p] = "gather" /\ Turn(p) /\ Running(p) # {}
  /\ Persisting(p, plan[p], "gather")
  /\ UNCHANGED <<stored, graph, workflowVars, call, batch, key, registered, signalled, crashes>>

Answers == {"succeeded", "partial", "failed", "cancelled"}

\* A worker answers, or raises, which counts as a failure.  It answers that
\* it was cancelled only if it saw the cancellation event.
FinishJob(p, j, r) ==
  /\ pc[p] = "gather" /\ Turn(p) /\ j \in Running(p)
  /\ r = "cancelled" => p \in signalled
  /\ Persisting(p, With(plan[p],
                        IF r = "cancelled" THEN "cancelled" ELSE plan[p].status,
                        [plan[p].jobs EXCEPT ![j] = r]), "gather")
  /\ UNCHANGED <<stored, graph, workflowVars, call, batch, key, registered, signalled, crashes>>

EndRound(p) ==
  /\ pc[p] = "gather" /\ Turn(p) /\ batch[p] = {} /\ Running(p) = {}
  /\ Goto(p, "round", plan[p])
  /\ UNCHANGED <<stored, graph, workflowVars, call, next, batch, key, registered, signalled, crashes>>

\* With no job ready, execute gives its verdict, or raises if a job is left.
Settle(p) ==
  /\ pc[p] = "settle" /\ Turn(p)
  /\ IF \E j \in Jobs : plan[p].jobs[j] \notin TERMINAL_JOB_STATUSES
       THEN Return(p)
       ELSE /\ Persisting(p, With(plan[p], VerdictOf(plan[p].jobs), plan[p].jobs),
                          "advance")
            /\ UNCHANGED <<call, batch, key, registered, signalled>>
  /\ UNCHANGED <<stored, graph, workflowVars, crashes>>

-----------------------------------------------------------------------------
(* The project's workflow. *)

\* A transition that is answered without a move: its key was spent, or the
\* project is in that state already.
Answered(t, k) == k \in spent \/ workflow = t

\* A transition that the table does not allow.
Refused(t, k) == ~Answered(t, k) /\ t \notin ALLOWED_WORKFLOW_TRANSITIONS[workflow]

TransitionTo(t, k) ==
  \/ Answered(t, k) /\ UNCHANGED workflowVars
  \/ ~Answered(t, k) /\ Workflow!Move(t, k)

\* A transition that raises: it is refused, or a request of the user moves the
\* project after its state was read, and the commit finds another revision.
TransitionRaises(t, k) ==
  \/ Refused(t, k) /\ UNCHANGED workflowVars
  \/ /\ ~Answered(t, k) /\ ~Refused(t, k) /\ moves < MaxMoves
     /\ \E u \in UserTargets : Workflow!Move(u, NoKey)

\* _advance_workflow, which ends every call that made a plan terminal, whether
\* or not the transition raises.
Advance(p) ==
  /\ pc[p] = "advance" /\ Turn(p)
  /\ LET k == <<"terminal", plan[p].attempt, 0>>
     IN  TransitionTo("awaiting_feedback", k) \/ TransitionRaises("awaiting_feedback", k)
  /\ Return(p)
  /\ UNCHANGED <<stored, graph, crashes>>

\* The user moves the project by a request of another kind.
UserMoves(t) ==
  /\ moves < MaxMoves /\ Workflow!Move(t, NoKey)
  /\ UNCHANGED <<stored, graph, callVars, crashes>>

-----------------------------------------------------------------------------
(* cancel. *)

\* The endpoint sets the event of the executor that its own dispatcher knows,
\* if there is one.
SignalCancel(p) ==
  /\ p \notin Detached /\ pc[p] = "idle" /\ Turn(p)
  /\ stored.status # "none"
  /\ call' = [call EXCEPT ![p] = "cancel"]
  /\ pc' = [pc EXCEPT ![p] = "cancel"]
  /\ signalled' = signalled \cup (registered \cap Server(p))
  /\ UNCHANGED <<stored, graph, workflowVars, plan, next, batch, key, registered, crashes>>

\* [Fault] The workflow advances without the cancellation being persisted.
CancelUnpersisted(p) ==
  /\ pc[p] = "cancel" /\ Turn(p)
  /\ IF stored.status \in TERMINAL_PLAN_STATUSES
       THEN Return(p)
       ELSE /\ Goto(p, "advance", [stored EXCEPT !.status = "cancelled"])
            /\ UNCHANGED <<call, next, batch, key, registered, signalled>>
  /\ UNCHANGED <<stored, graph, workflowVars, crashes>>

Cancel(p) ==
  /\ pc[p] = "cancel" /\ Turn(p)
  /\ IF stored.status \in TERMINAL_PLAN_STATUSES
       THEN Return(p)
       ELSE /\ Persisting(p,
                 With(stored, "cancelled",
                   [j \in Jobs |-> IF stored.jobs[j] \in TERMINAL_JOB_STATUSES
                                   THEN stored.jobs[j] ELSE "cancelled"]),
                 "advance")
            /\ UNCHANGED <<call, batch, key, registered, signalled>>
  /\ UNCHANGED <<stored, graph, workflowVars, crashes>>

-----------------------------------------------------------------------------
(* reset and reset_job. *)

Reset(p) ==
  /\ p \notin Detached /\ pc[p] = "idle" /\ Turn(p)
  /\ stored.status \in {"failed", "partial"}
  /\ stored.attempt < MaxAttempt
  /\ call' = [call EXCEPT ![p] = "reset"]
  /\ Goto(p, "reopen", [status |-> "planned", jobs |-> Requeued(stored.jobs),
                        attempt |-> stored.attempt + 1])
  /\ key' = [key EXCEPT ![p] = <<"reset", stored.attempt + 1, 0>>]
  /\ UNCHANGED <<stored, graph, workflowVars, next, batch, registered, signalled, crashes>>

\* One failed job and the jobs that depend on it, whatever the plan does.
ResetJob(p, j) ==
  /\ p \notin Detached /\ pc[p] = "idle" /\ Turn(p)
  /\ stored.status # "none" /\ stored.jobs[j] \in {"failed", "partial"}
  /\ stored.attempt < MaxAttempt
  /\ call' = [call EXCEPT ![p] = "reset"]
  /\ \E I \in SUBSET Jobs :
       /\ IsInvalidated(I, j)
       /\ Goto(p, "reopen",
            [status |-> "planned",
             jobs |-> [c \in Jobs |-> IF c \in I THEN "queued" ELSE stored.jobs[c]],
             attempt |-> stored.attempt + 1])
  /\ key' = [key EXCEPT ![p] = <<"retry", stored.attempt + 1, j>>]
  /\ UNCHANGED <<stored, graph, workflowVars, next, batch, registered, signalled, crashes>>

\* The workflow moves before the plan is persisted; the call ends if it raises.
Reopen(p) ==
  /\ pc[p] = "reopen" /\ Turn(p)
  /\ \/ /\ TransitionTo("building", key[p])
        /\ Persisting(p, plan[p], "idle")
        /\ UNCHANGED <<call, batch, key, registered, signalled>>
     \/ TransitionRaises("building", key[p]) /\ Return(p)
  /\ UNCHANGED <<stored, graph, crashes>>

-----------------------------------------------------------------------------
\* A server dies with every call it was making.
Crash(S) ==
  /\ crashes < MaxCrashes /\ \E p \in S : pc[p] # "idle"
  /\ crashes' = crashes + 1
  /\ pc' = [p \in Callers |-> IF p \in S THEN "idle" ELSE pc[p]]
  /\ call' = [p \in Callers |-> IF p \in S THEN "none" ELSE call[p]]
  /\ plan' = [p \in Callers |-> IF p \in S THEN NoPlan ELSE plan[p]]
  /\ next' = [p \in Callers |-> IF p \in S THEN "idle" ELSE next[p]]
  /\ batch' = [p \in Callers |-> IF p \in S THEN {} ELSE batch[p]]
  /\ key' = [p \in Callers |-> IF p \in S THEN NoKey ELSE key[p]]
  /\ registered' = registered \ S
  /\ signalled' = signalled \ S
  /\ UNCHANGED <<stored, graph, workflowVars>>

Executor(p) ==
  \/ Load(p) \/ Block(p) \/ Dispatch(p) \/ StartJob(p) \/ EndRound(p) \/ Settle(p)
  \/ \E j \in Jobs, r \in Answers : FinishJob(p, j, r)

Proceed(p) ==
  PersistCheck(p) \/ PersistWrite(p) \/ Advance(p) \/ Cancel(p) \/ Reopen(p)

Next ==
  \/ \E g \in Graphs : CreatePlan(g)
  \/ \E p \in Callers :
       \/ Execute(p) \/ ReportProgress(p) \/ Executor(p) \/ Proceed(p)
       \/ SignalCancel(p) \/ Reset(p)
       \/ \E j \in RetryTargets : ResetJob(p, j)
  \/ \E t \in UserTargets : UserMoves(t)
  \/ \E S \in Servers : Crash(S)

Spec == Init /\ [][Next]_vars

\* Workers answer in the end, callers run on, and the client that watches a
\* plan executes it again whenever its request ended before the plan did.
Fairness ==
  \A p \in Callers :
    /\ WF_vars(Executor(p)) /\ WF_vars(Proceed(p))
    /\ SF_vars(\E j \in Jobs, r \in Answers : FinishJob(p, j, r))
    /\ SF_vars(Execute(p))

FairSpec == Spec /\ Fairness

-----------------------------------------------------------------------------
(* Properties. *)

TypeOK ==
  /\ stored \in WorkerExecutionPlan /\ graph \in Graph
  /\ workflow \in States /\ moves \in Nat /\ spent \subseteq Keys
  /\ pc \in [Callers -> Phases]
  /\ call \in [Callers -> {"none", "execute", "cancel", "reset"}]
  /\ plan \in [Callers -> WorkerExecutionPlan]
  /\ next \in [Callers -> Phases]
  /\ batch \in [Callers -> SUBSET Jobs]
  /\ key \in [Callers -> Keys \cup {NoKey}]
  /\ registered \subseteq Callers /\ signalled \subseteq Callers
  /\ crashes \in 0..MaxCrashes

\* The record and every copy a caller holds.
Copies == {stored} \cup {plan[p] : p \in Callers}

Attempted == {"running", "succeeded", "partial", "failed"}

\* "Required dependency failures block the dependent job": no record and no
\* copy shows a job that was started although a job it requires failed, was
\* blocked or is still to run, whoever overwrote the record with what.
RequirementsMet(g, c) ==
  \A j, d \in Jobs :
    (<<j, d>> \in g.requires /\ c.jobs[j] \in Attempted)
      => c.jobs[d] \in {"succeeded", "cancelled"}

RequiredSucceedFirst == \A c \in Copies : RequirementsMet(graph, c)

\* A job is blocked only while a job it requires has failed: a reset requeues
\* the two together.
BlocksExplained(g, c) ==
  \A j \in Jobs :
    (c.jobs[j] = "blocked") =>
      \E d \in Jobs : <<j, d>> \in g.requires /\ c.jobs[d] \in Failing

BlockedForCause == \A c \in Copies : BlocksExplained(graph, c)

\* A verdict is read off jobs that have all ended and agree with it, and a
\* plan that failed names a job that did: overwriting the record, a restart
\* and a reset never separate the status of a plan from its jobs.
Verdict(c) ==
  /\ (c.status = "succeeded") => \A j \in Jobs : c.jobs[j] = "succeeded"
  /\ (c.status = "partial") =>
       \A j \in Jobs : c.jobs[j] \in TERMINAL_JOB_STATUSES \ {"cancelled"}
  /\ (c.status = "failed") =>
       \A j \in Jobs : c.jobs[j] \in {"succeeded", "failed", "blocked"}
  /\ (c.status = "partial") => \E j \in Jobs : c.jobs[j] = "partial"
  /\ (c.status = "failed") => \E j \in Jobs : c.jobs[j] = "failed"

VerdictsAreEarned == \A c \in Copies : Verdict(c)

\* execute never raises "stalled with unfinished jobs": with no job ready,
\* every job has ended.
NeverStalls ==
  \A p \in Callers : (pc[p] = "settle") =>
    \A j \in Jobs : plan[p].jobs[j] \in TERMINAL_JOB_STATUSES

\* Not kept by the code, and checked by no run: the project starts to await
\* feedback only over a record that shows the plan ended.  A reset that comes
\* between the last write of a detached executor and its transition finds the
\* project still building, and the transition then closes the new attempt.
\* What is kept is EndsAreRecorded (see PlanHistory).
AdvancesWhenOver ==
  [][(workflow = "building" /\ workflow' = "awaiting_feedback")
       => stored.status \in TERMINAL_PLAN_STATUSES]_vars

\* "Persist cancellation for a project-generation plan": a cancelled record
\* stays cancelled.
CancellationIsFinal ==
  [][(stored.status = "cancelled") => stored'.status = "cancelled"]_vars

\* The record, overwritten whole by every call, behaves as the atomic plan.
Plan == INSTANCE WorkerPlan WITH board <- stored
ImplementsWorkerPlan == Plan!Spec

\* Every plan comes to its end, and its project stops building, although
\* servers crash between any two steps of either.
PlansEnd ==
  (stored.status # "none") ~>
    (stored.status \in TERMINAL_PLAN_STATUSES /\ workflow # "building")

\* Not kept by the code where a reset is interrupted, and checked by no run: "When
\* all jobs are terminal, the project workflow advances from building to
\* awaiting_feedback"; a project does not build for ever under a plan that has
\* ended, as long as its client goes on asking for the plan to be executed.
TerminalPlansAdvance ==
  (stored.status \in TERMINAL_PLAN_STATUSES /\ workflow = "building")
    ~> (workflow # "building")
=============================================================================
