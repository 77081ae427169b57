# Forma: a TLA+ verification of the project build machinery

This directory models the part of the repository that decides what happens to
a hardware project: its workflow, the conversation that begins a build, the plans
of worker jobs that carry it out, the staged generation whose results become
revisions, the job rows of the agents, the bridge that hands commands to an
OpenCode connector, the deletion of projects, and the stores in which all of them
meet.  The modules are translated from the Python
sources (`forma_core/`, `apps/api/`); TLC checks them on small instances and
TLAPS proves the central theorems for every instance.

Paths in this document are relative to the root of the repository.

## 1. The system

A user describes a project in a conversation.  The context agent collects the
description in versioned design briefs, the readiness service decides whether a
brief can be built, and a build freezes one version of it.  A worker plan is
created for the build and executed by workers, most of them calls of language
models; what they produce is appended to the project as a revision.  All of it
is kept in one relational store, SQLite or Supabase, through a repository layer
whose methods are separate transactions.  Several processes (API servers,
serverless instances, a detached thread per build, the command line) work on
the same rows.

| Component | State | Operations | Meets |
|---|---|---|---|
| Project workflow (`forma_core/workspaces/workflow`, `.../readiness/service.py`) | one row per project (state, revision), its transitions, its builds | `initialize`, `transition`, `initiate` | everything that moves a project |
| Worker orchestrator (`forma_core/workers/orchestration.py`) | one row per plan, overwritten as a whole; an in-memory copy per call | `create_plan`, `execute`, `cancel`, `reset`, `reset_job` | workflow, workers, dispatcher |
| Build dispatcher (`apps/api/context_builds.py`, `worker_plans_api.py`) | a registry of cancellation events in each process | `start`, `execute`, `signal_cancel`, the plan endpoints | orchestrator, readiness, conversation |
| Conversation endpoint (`apps/api/context_gathering_api.py`) | chat, brief versions | a message, which may start a build | workflow, dispatcher |
| OpenCode bridge (`forma_core/opencode`, `apps/api/opencode_api.py`) | sessions, commands with leases, a sequenced event log | submit, poll (claim), heartbeat, events, complete, cancel, list | connector, browser |
| Staged generation (`forma_core/agents/pipeline.py`, `forma_core/workers/generation.py`, `forma_core/agents/orchestrator.py`) | the records of the stages of a run, in memory, in the checkpoints of a plan and in a revision | generate, retry a stage, resume | orchestrator, revisions |
| Project revisions (`forma_core/workspaces/projects/state.py`) | revisions per project, unique by number and by source job | append, replay by source | generation, API |
| Agent jobs (`forma_core/jobs`, `apps/api/a2a.py`, `apps/api/main.py`) | one row per job, a socket hub | submit, `POST /generate`, progress, complete, cancel | clients, agents |
| Design briefs (`forma_core/workspaces/design_briefs`) | append-only versions | create a version | conversation, readiness |
| Project deletion (`apps/api/project_deletion.py`) | rows and stored objects of a project, consents and snapshots | delete, restore, withdraw, claim and purge | stores, object storage |
| Project list cache (`forma_core/project_list_cache.py`) | entries under a generation, in Redis | lookup, store, invalidate, expire | API, deletion |
| Reconciliation (`forma_core/persistence/project_reconciliation.py`) | two copies of projects | compare and copy | stores |
| Command-line credentials (`apps/api/cli_auth_store.py`) | authorisation requests, tokens | create, approve, exchange, revoke | browser, command line |
| Agents and providers (`forma_core/agents`, `llm_providers.py`, `image_providers.py`, `video_review.py`) | none that outlives a call | calls of models, prompts, parsing | workers |
| Web front end (`apps/web`), CLI (`forma_cli`, `forma_core/cli`, `terminal`) | view state | polling, commands | API |

What makes this hard:

* **Interleaving.** Repository methods read in one transaction and write in
  another; only revisions, keys and lease tokens compared inside the write, and
  unique constraints, protect a decision taken on an earlier read.
* **Retries.** Commands carry idempotency keys and are repeated; a replay, a
  no-op and a conflict answer differently.
* **Crashes.** Serverless instances die between two transactions; executors
  restart from the record.
* **Cancellation** travels on two ways, an event in memory and a row.
* **Leases and claims** expire while their holder still works.
* **Slow calls.** A turn, a generation or a purge reads, waits for a model or a
  store, and writes back what it read.

What makes each component correct:

* workflow: one linear history per project, a key moves a project at most once,
  a build exists exactly with its transition, final states are final, calls
  return;
* orchestrator: a job runs only after what it requires, a verdict agrees with
  the jobs, completed jobs are kept, a cancellation sticks, the workflow
  follows the plan, plans end;
* bridge: a finished command stays finished, a reader with a cursor misses no
  event, the commands of an open session end;
* conversation: what a turn says is kept, a conversation has one build, a
  repeated dispatch goes on with it;
* generation and revisions: a stored design does not mix runs, what succeeded is
  kept by a retry, a job has one revision and its plan agrees with it;
* jobs: an action is run once, the reply agrees with the row, a cancelled job is
  not completed and leaves no project, jobs end;
* deletion: an active project is whole, a purge ends and leaves nothing pending,
  the gallery shows what the database holds.

## 2. The plan

| Order | Modules | Abstract specification | Status |
|---|---|---|---|
| 1 | `WorkflowStates`, `ProjectWorkflow`, `ProjectWorkflowProofs` | `WorkflowMachine` | written, checked, proved |
| 2 | `PlanStatuses`, `WorkerGraph`, `WorkerOrchestration` (composes `WorkflowMachine` and the dispatcher), `PlanHistory`, `WorkerGraphProofs`, `WorkerOrchestrationProofs` | `WorkerPlan` | written, checked, proved except liveness |
| 3 | `OpenCodeBridge`, `OpenCodeBridgeProofs` | (an append-only log read with a cursor: stated as an invariant) | written, checked, proved except liveness |
| 4 | `AgentJobs`, `AgentJobsProofs` | `JobLifecycle` | written, checked, proved except liveness |
| 5 | `GenerationStages`, `GenerationStagesProofs` | `RevisionLog` | written, checked, proved |
| 6 | `ProjectDeletion` (composes `ProjectListCache`), `ProjectDeletionProofs` | (stated as invariants and `DueEnds`) | written, checked, proved except liveness |
| 7 | `ConversationBuilds` (composes `WorkflowMachine`), `ConversationBuildsProofs` | (stated as invariants and `OneBuild`) | written, checked, proved |

The modules are kept apart by state: a module has the tables of one component as
its variables, its concurrent callers as a function from callers to what each
has read, and one action per transaction (or per stretch of an event loop that
cannot be interrupted).  A component that uses another one uses its *abstract*
specification: `WorkerOrchestration` moves the project by `WorkflowMachine!Move`,
which `ProjectWorkflow` is proved to implement.

## 3. The modules

### 3.1 `ProjectWorkflow` (with `WorkflowStates`, `WorkflowMachine`)

One project, any number of callers of `ProjectWorkflowService.initialize` and
`.transition` and of `ProjectBuildService.initiate`.

| Model | Code |
|---|---|
| `state`, `revision` | the row of `project_workflows` |
| `transitions`, `builds` | the rows of `project_workflow_transitions` and `project_builds` |
| `call[c]` | the local variables of a request: its arguments and the workflow it read |
| `acked` | history variable: the keyed answers given to callers |
| `...Lookup`, `...Read` | the service's reads, each a session of its own |
| `...Select`, `...Write` | the two halves of the repository's transaction: SQLite opens its write transaction only at the UPDATE, so another commit may fall between |
| `...Recover` | what is done with an IntegrityError or a conflict: look the key up again, retry, or raise |
| `Crash` | a process dies between two sessions |

`AppendTransition` is the UPDATE with the INSERT of the history row; `Unique`
is the pair of unique constraints.  `Admissible` is the readiness rule of
"Build" and "Build Anyway"; the brief it reads is chosen freely, since briefs are
versions of their own.

`WorkflowMachine` is the abstract specification: one atomic machine over
`ALLOWED_WORKFLOW_TRANSITIONS` in which a key moves the project at most once.
`ImplementsMachine` is the refinement; the set of spent keys is read off the
history.

### 3.2 `WorkerGraph`

`_validate_graph`, which decides which plans exist: one action takes one job
without dependencies off the graph.  The stack of the code is a set, so every
order is covered.  `Accepted <=> Acyclic` is the reference definition.

### 3.3 `WorkerOrchestration` (with `PlanStatuses`, `WorkerPlan`, `PlanHistory`)

One plan of one project.

| Model | Code |
|---|---|
| `stored` | the row of the plan, always overwritten as a whole |
| `graph` | the dependencies and their `required` flags, which never change |
| `workflow`, `moves`, `spent` | the project's workflow, as `WorkflowMachine` has it |
| `pc`, `call`, `plan`, `next`, `batch`, `key` | a call in progress: where it is, its operation, its private copy of the plan, what follows the write, the jobs of the round that have not started, the key it moves the workflow with |
| `registered`, `signalled` | the dispatcher's registry of executors and the cancellation events that are set |
| `Execute`, `SignalCancel`, `Reset`, `ResetJob` | the entry points: `BuildDispatcher.start`/`execute`, the cancel endpoint, `reset`, `reset_job` |
| `Load`, `Block`, `Dispatch`, `StartJob`, `FinishJob`, `EndRound`, `Settle` | `execute` and `_run_job`, cut where it awaits or persists |
| `PersistCheck`, `PersistWrite` | `_persist_unlocked`: read the row, give up if it was cancelled, overwrite it |
| `Advance`, `Reopen` | the workflow transitions of a terminal plan and of a reset: `TransitionTo` if the commit is made or answered, `TransitionRaises` if the revision that was read is overtaken |
| `ended` (`PlanHistory`) | history: the attempts that the record has shown as ended |
| `Crash(S)` | a server process dies with all its calls, threads and events |

`Servers` partitions the callers into processes.  The requests of one server run
in one event loop, so `Turn(p)` lets a call go on only while the others of the
loop are idle or await their workers; a caller in `Detached` is the thread that
`_launch` starts, with a loop of its own and only the dispatcher in common.

Left out: what workers produce and report and the arguments of jobs.  A required
dependency that was *cancelled* does not block its dependents; the model has
this from the code and `RequiredSucceedFirst` says so.  `reset_job` has tests and
no caller in production.  `UserMoves` stands for every other request that moves
the project, as one atomic move.

`WorkerPlan` is what a client that polls the plan may rely on.  `PlanHistory` adds
to the module what the record has shown so far, which the record itself forgets
when a reset or an older copy overwrites it.

### 3.4 `OpenCodeBridge`

One session: the browser submits commands, lists the events after its cursor
and cancels; the connector polls, renews its lease, reports events and completes.

| Model | Code |
|---|---|
| `session`, `nextSequence` | the row of the session |
| `row[c]` | the row of a command: status, lease token, whether the lease is live |
| `events` | the rows of the event table |
| `granted`, `held` | history: the leases that were granted and those that reached the connector |
| `cursor`, `seen` | the browser's cursor and what it was shown |
| `call[p]` | a request in progress |
| `Number`, `Append` | `next_event_sequence` and `add_event` on SQLite, where the insertion is one locked transaction |
| `Lookup`, `Allocate`, `InsertEvent`, `Bump` | `add_event` on Supabase: four calls, three attempts |
| `Submit`, `FindCommand`, `InsertCommand` | `create_command` |
| `List`, `Page` | `list_opencode_events`, preceded by the event of an unavailable connector |
| `CancelSession`, `Close`, `Sweep`, `TakeCommand`, `CancelCommand` | `cancel_opencode_session` and `cancel_session_commands` |
| `Poll`, `ClaimNext`, `SelectRows`, `TryRow`, `Grant`, `Answer` | `poll_opencode_command` and `claim_next` on both stores |
| `Heartbeat`, `Renew`, `IngestEvent`, `Complete`, `Finish` | the connector's other requests; each tests the lease on one read and updates by token in another |
| `Expire` | a lease's time passes |
| `Crash` | a request dies between two statements |

Time is abstract: a lease that is live may expire at any step, so the model
covers every length of a lease.  Left out: rows without a stored message (which
`create_command` never writes), the capabilities that admit a connector, the
creation and discovery of sessions, the texts of events.

### 3.5 `AgentJobs` (with `JobLifecycle`)

One row of `a2a_jobs` and the handlers that meet on it, on SQLite, where a
conditional update is one statement, and on Supabase, where the row is read and
then updated if its status is still the one that was read.

| Model | Code |
|---|---|
| `status`, `owner`, `progress` | the row: its status, the message that created it, `progress_events` |
| `pc[r]`, `seen[r]`, `held[r]`, `value[r]` | a handler: where it is, the status and events it has read, the result it records |
| `Lookup`, `Create`, `Acknowledge`, `AcknowledgeAgain`, `Route`, `Forward` | `submit_a2a_message` |
| `MarkRunning`, `AppendProgressEvent`, `EnsureActive`, `ActionRaises`, `ReadCurrent`, `Complete`, `Reply`, `Reread` | `_process_server_message` and the store's methods it calls |
| `Generate`, `Persist`, `Confirm`, `HandlerCancels`, `HandlerDeletes` | `POST /generate`, which stores a project and removes it if the job was cancelled |
| `Cancel`, `CancelWhere`, `CancelRereads`, `CancelDeletes` | the cancellation endpoint, which runs in a thread of its own |
| `MarkRunningRaises`, `StoreRaises`, `Crash` | a call of the store raises; the server dies |

The kind of a job says who submits it: the server for itself, another agent (the
message is forwarded) or the web client (`POST /generate`).  `JobLifecycle` is
what the row of a server's job promises.  Left out: the readers of the hub's
queues, the agents that claim forwarded messages, the continuous engine, the
checks of authorisation.

### 3.6 `GenerationStages` (with `RevisionLog`)

The staged generation of one project by the worker of its plan, which
checkpoints each stage, may die and is resumed or reset, and by requests that
generate or retry a stage in memory.

| Model | Code |
|---|---|
| `rec[p]`, a record of status, attempt, inputs and output per stage | `GenerationStageRun` |
| `checkpoints`, `planStatus`, `prior`, `retryStage`, `result` | what the plan's record holds of its generation job |
| `revisions` | `project_revisions` with source job and records |
| `Closure`, `Resumed`, `Unsatisfied`, `Started`, `Produced`, `RunStatus` | the operations of `pipeline.py` on records |
| `Execute`, `WorkerBlocks`, `WorkerStarts`, `WorkerEndsStage`, `Finish`, `Reset` | the generation worker and the orchestrator's part in it |
| `Generate`, `Retry` | requests; nobody sees their stages before they end, so they are one step |
| `ReadParent`, `Insert`, `Conflict` | `ProjectStateService`'s append: replay by source job, insertion under the parent's number + 1, what follows a unique violation |
| `ReportRaises`, `PublishRaises`, `Crash` | failures around the stages |

A stage's content is the token of the execution that produced it, with the
tokens of what its producer read.  `drifted` is a history variable that says that
an execution began with other results than its plan shows (section 7).  Left
out: prompts, parsing, engineering rules, edits of a design, cancellation (in
`AgentJobs` and `WorkerOrchestration`).

### 3.7 `ProjectDeletion` and `ProjectListCache`

One project with its owner's calls, the workers of several servers that purge
it, and the readers of the gallery.

| Model | Code |
|---|---|
| `status`, `deadline`, `claim`, `stale` | the row: status, `purge_after`, `purge_started_at` |
| `whole`, `consent`, `snapshot` | the project's objects, the consent to contribute, the snapshot kept for it |
| `Delete`, `ReadConsent`, `KeepSnapshot`, `RenewConsent` | `request_project_deletion` |
| `Restore`, `RestoreUpdate`, `RestorePublish`, `RestoreSnapshots` | `restore_project`, which undoes itself if the gallery cannot be rebuilt |
| `Withdraw`, `WithdrawSnapshots`, `CleanUp` | `withdraw_contribution`; the removal of a cancelled job's project |
| `List`, `Read`, `Claim`, `DeleteObjects`, ..., `HardPurge`, `Fail` | `purge_due_projects` and `purge_project` |
| `RetentionEnds`, `ClaimAges` | time: a retention ends, a claim becomes stale |
| `Notify`, `NotifyFails` | the invalidation that follows every update of the row |
| `hasty` | history: a purge was claimed before its time |
| `entry`, `reading` (`ProjectListCache`) | the entry of the current generation; a reader between its lookup and its store |

Generations of the cache are only compared, so a reader remembers whether the
one that it saw is still current.  `content` of the cache is what the database
would list (`Visible`).  Every stage of keeping, withdrawing and settling a snapshot
may fail or die on its own; what they come to is `NothingPendingIsLeft`: once the
project is gone, no snapshot is left that waits for it.  Left out: audits, the gallery rows beside the project's
own, granting a consent, compression and the pause after a failure of Redis.

### 3.8 `ConversationBuilds`

The turns of one conversation over one project.

| Model | Code |
|---|---|
| `state`, `revision`, `spent` | the workflow, as `WorkflowMachine` |
| `briefs` | versions: the turns whose context they hold, whether questions, outputs or criteria are open (`Lacking`: the turns in `Specified` name the last two) |
| `build`, `plan`, `threads` | the build of the conversation, its plan, how many executions run |
| `chat`, `turn[t]` | the chat record; a request and what it has read, with the revision when it came to a transition (`asked`) |
| `Overtaken` | the conflict that a transition raises if the project has moved since |
| `ReadChat`, `ReadBrief`, `ReadWorkflow`, `Initialize`, `Reopen`, `Number`, `Insert`, `Proceed`, `Store` | `gather_project_context_endpoint` |
| `Readiness`, `Freeze`, `NumberAssumed`, `InsertAssumed`, `Initiate`, `FindPlan`, `InsertPlan`, `Launch` | `ContextBuildDispatcher.start` with `initiate_project_build` and `create_project_generation_plan` |
| `DispatchRaises`, `DispatchFailed`, `Crash` | the store or the host fails; the failure is recorded; a request dies |
| `Execute`, `Finish`, `ExecutionDies`, `Resume` | the executions of the plan, reduced to when they begin and end |
| `ClientMove` | the owner moves the project directly |

The decision of the agent is the choice of a turn's kind, to tell or to build,
made when it begins, and of whether a build supplies context.  `Freeze` joins the
reads of `initiate_project_build`: none of them is trusted later, since the
insertion and the build compare again; `Startable` is the comparison of the build.
`InsertAssumed` appends the version with assumptions; it still lacks outputs and
criteria if none of its turns named them, so a later turn may assume again.  Left
out: turns that only chat, and the
refusal of a second conversation.

## 4. The runs

`[Fault]` operators in the modules are plausible bugs of the definitions they
stand before; each property is shown to fail when its fault replaces the
definition (the list is in `PROJECT.json`).  `ImplementsMachine` fails without the
unique revision; a key that is applied twice is the business of `KeyAppliedOnce`.

| Run | What it checks | Bounds |
|---|---|---|
| `workflow` | one chain, a key moves once, answers are durable, a build exists exactly with its transition, refinement of `WorkflowMachine`, every call returns | two callers of every kind at once, four revisions, one key for commands and one for builds, crashes without a bound |
| `worker_graph` | the validation accepts exactly the acyclic graphs | all 512 graphs over three jobs |
| `plan_server` | `NeverStalls`, refinement of `WorkerPlan` | one server, two requests, four graphs over three jobs (one of them cyclic), two attempts, one crash, moves of the user |
| `plan_races` | `RequiredSucceedFirst`, `VerdictsAreEarned`, `EndsAreRecorded` (over `PlanHistory`) | a request and a detached thread over the same record, a retry of a job, one crash |
| `plan_live` | every plan ends and its project stops building | two requests, two crashes |
| `plan_lost_cancel` | *violated*: a cancelled record stays cancelled | a request and a detached thread |
| `bridge_sqlite` | types, a finished command keeps its status, commands end | one command, two requests at once, two leases, one death, pages of one event |
| `bridge_supabase` | the browser misses no event | two requests, a report, cancellation, one lease, one death |
| `agent_jobs` | types, effects at most once, replies agree with the row, no project of a cancelled job, cancellations take effect, progress is complete, refinement of `JobLifecycle`, jobs end | two requests under one id, of one or two messages, one cancellation, both stores, three kinds of job, one failure or crash |
| `generation_stages` | types, stored designs do not mix runs, retries keep results, packages are current, plans agree with revisions, refinement of `RevisionLog` | four stages, two attempts, three executions and requests, one failing producer in each request, one failure or crash |
| `project_deletion` | an active project is whole, a failed purge is nobody's, the cache is current, no snapshot is left pending, due purges end | two calls, two workers, three claims, two failures or crashes, one reader |
| `conversation_builds` | types, what is told is kept, dispatches fail for cause, one build | three turns, the second of which names outputs and criteria, two at once, one failure, crash or move of the owner |

Why the bounds are enough to be of interest.  Every hazard listed for these
components needs two actors and a third step between two of theirs; two callers,
each of which may take any role again and again, produce every pair of
operations in every interleaving.  Four revisions let a project be initialised,
be moved, be moved by a racing call and be seen stale by a third.  Three jobs are
the fewest with a chain, a fork and a join; two attempts are the fewest with a
reset.  Two leases let one expire while its holder works on.  Four stages are a
chain of three and the package, which depends on none and reads all; three runs
are a generation, one that overlaps it and a retry of what they stored.  Three
claims are a purge, its takeover and one that follows a failure.  Three turns let
one tell, one build and a third repeat or race either.  The bounds stand in
guards: `Budget` (workflow), `MaxAttempt`, `MaxMoves` and `MaxCrashes` (plans),
`MaxLeases` and `MaxCrashes` (bridge), `MaxFailures` (jobs), `MaxAttempts`,
`MaxRuns`, `MaxFailing` and `MaxFaults` (generation), `MaxCalls`, `MaxClaims` and
`MaxFaults` (deletion), `MaxTurns` and `MaxEvents` (conversation).  The bound on
leases counts the polls in progress, and the last lease it allows neither
expires nor gets lost: otherwise a command could end nowhere only because the
model ran out of leases; `DueEnds` makes the same exception for claims.
Symmetry of callers is used in runs without liveness only.

Deadlock is not checked where the system really may stop: a workflow whose
budget is used, a plan that has ended, a graph that is validated, requests that
have all ended, a project that is gone, a conversation whose turns are used up.
The bridge never stops, as a browser may always list.

`plan_lost_cancel` shows that the lock around reading and writing the record
belongs to one orchestrator instance, so an executor in another thread
overwrites a cancellation (`orchestration.py:757`).  Section 7 lists the other
behaviours that contradict a document.

## 5. Fairness

* Workflow: `WF` of each call's next session.  A request thread is scheduled
  until it returns, unless its process dies (`Crash` ends the call, which counts
  as returning).  No fairness is assumed of the beginning of calls.
* Plans: `WF` of an executor's next step and of the steps that persist or move
  the workflow (a loop runs its tasks), `SF` of some job's end (a worker
  answers or raises, as its calls of providers have time limits, although other
  steps of the loop come between), `SF` of `Execute`: the web client executes a
  plan again when its request was interrupted, four times at most
  (`apps/web/app/forma-workspace.tsx:3407-3440`); `plan_live` interrupts it twice
  at most, and each request finds the plan free only now and then.
* Bridge: `WF` of a request's next step and of a lease's expiry (time passes),
  `SF` of polls and of completions: the connector polls in a loop and completes
  what it holds, and finds the server ready infinitely often but not always.
* Jobs: `WF` of a handler that has begun (a task of the loop is run).  Nobody has
  to send a message or to cancel, and nothing takes up a job that a dead server
  has left, so `EveryJobEnds` excepts failures.
* Deletion: `WF` of each worker's next step (`purge_worker` runs in a loop on each
  server) and of a claim's becoming stale (time passes).  The owner need not call.
* Generation and conversation state safety only and assume no fairness.

## 6. The proofs

All theorems hold for every value of the constants that meets the named
assumptions (`KeysAssumption`, `NumJobsAssumption`, `ConstantsAssumption`,
`GraphsAssumption`, `BridgeAssumption` and the like), which ask for no more than
that bounds are numbers, that servers do not share callers and that special keys
and `None` are not ordinary values.  `JobsAssumption` also asks for at least one message and
`StagesAssumption` for at least one attempt (`max_attempts` of a job), and that the
package is run after all that it reads and read by no stage: `package_project` is
the last of both workflows and in no stage's dependencies
(`forma_core/agents/orchestrator.py:138`, `web_research_workflow.py:140`).

* **`ProjectWorkflowProofs`**: types, `HistoryIsChain`, `Sight`, `KeyAppliedOnce`,
  `AnswersAreDurable`, `BuildsAreTransitions`, `FinalStatesAreFinal` and the
  refinement `ImplementsMachine`.  The chain is not inductive by itself: a commit
  compares nothing when it writes.  What makes it safe is `Sight`: the revision
  that a call holds is one the project really had, with the state and the allowed
  move that go with it.  If the commit passes the unique constraint, no later
  revision exists, so the project is still there (`CommitIsCurrent`).
* **`WorkerGraphProofs`**: the validation accepts exactly the acyclic graphs.  The
  invariant says that each count is the number of dependencies still on the
  graph, that the ready jobs are exactly those with none, and that the jobs taken
  off depend on none that is left.
* **`WorkerOrchestrationProofs`**: types, `BlockedForCause`, `VerdictsAreEarned`,
  `NeverStalls`, and `RequiredSucceedFirst` under the assumption that every
  accepted graph lists jobs after their dependencies (section 7 shows that
  it is needed).  The record is only ever overwritten by copies, so the invariant
  speaks of every copy (`Fit`) and of what each phase of a call adds to it
  (`InPhase`: which jobs may still start, that nothing runs between rounds, that
  blocked jobs have been found).  `StepOf` reduces a step to the copy of the one
  caller that takes it.  Acyclicity enters twice: with no job ready every job has
  ended (`ReadyOrEnded`), and a failed plan has a job that failed (`SettledFits`).
  `EndsAreRecorded` holds in every deployment, with detached threads, lost updates,
  crashes and resets of single jobs: a call that is about to make the terminal
  transition of an attempt holds a copy that it has read from the record or written to
  it, so the record has shown that end, whatever it shows by now (`Shown`); a
  terminal key is spent by no other call (`KeysApart`, `SpentShown`).
  Two theorems, `PlanRefined` and `CancellationCorrect`, assume that one loop
  handles every call (`OneLoop`: one server, no detached thread), which is the
  deployment of the run `plan_server`; what is lost in the others is in section 7.
  While a call persists or moves the workflow no other has a turn (`Alone`).
  `ImplementsWorkerPlan`, and with it that a cancellation is final, also assumes
  that no single job is reset: `reset_job`, which nothing in production calls,
  would reopen a plan while its executor waits for workers, and the executor
  writes back what it had. The invariant (`CallsFit`) says of each place of a call
  how its copy differs from the record: an executor that waits for its workers
  matches the record or was cancelled, a cancellation and a reset were made from
  the record as it stands. Since the dispatcher knows one executor
  (`OneExecutor`), a write finds another call waiting only as the executor of a
  plan that is being cancelled (`WriteSpares`).
* **`OpenCodeBridgeProofs`**: types, `ReaderMissesNothing` on both stores, and
  `TerminalIsFinal` for sessions that cannot be cancelled (section 7 shows
  why).  The invariant is that, for some k, the events are numbered 1..k once each
  and every request that is about to store an event carries a number of at most
  k + 1 (`Log`, `InCall`).  A number that is free is therefore k + 1, beyond the
  cursor.  A finished row bears no lease, and a renewal or completion always
  carries one, so it misses the row.

* **`AgentJobsProofs`**: types, the five safety properties of the run and the
  refinement `ImplementsLifecycle`, on both stores.  The properties speak of a row
  and of handlers that have read it long ago; the invariant is that at most one
  request of a message has got past the creation of the row (`One`), what the row
  may be while that request is at each place (`RowFits`), and what a cancellation
  may still find (`CancelFits`).  `CancelledLeavesNoProject` needs one more: as long
  as a project of a cancelled job is active, a request or a cancellation that will
  delete it has yet to do so (`Remembered`).
* **`GenerationStagesProofs`**: all of the run's properties.  For `ImplementsLog` and
  `PlanAgreesWithRevision`: a process that inserts does not look again whether its
  job has a revision; `Unwritten` says that it looked when it read its parent and
  that the log has not moved since if the insertion succeeds.  For the contents of
  runs: the run of a request is a recursive function over the places of `Order`.
  `RunUnfolds` proves that the function exists and `RunFromIs`, by induction over
  the places, that it keeps what had succeeded, stays `Consistent` and packages
  last; the induction is over a *set* of numbers (`SetInduction`, from the
  well-foundedness of `<`), as the provers cannot instantiate the library's
  theorems over predicates.  `InputsAreCurrent` is not inductive: a success stays
  what it was made from because the worker's run, the checkpoints, the revision of
  its attempt and the result that a reset will take up agree upon what has
  succeeded (`PlanResults`), because the stage at hand has not succeeded, so that
  nothing that has depends on it (`StageInv`, `ConsistentStep`), and because a
  closure takes all dependents along (`ClosureUp`).  A reset drops what depends on
  the failed stage *in the result's run*; that this covers the checkpoints is
  where the agreement of the two is needed (`DroppedConsistent`).
* **`ProjectDeletionProofs`**: types, `ActiveIsWhole`, `FailedIsIdle`,
  `CacheIsCurrent` and `NothingPendingIsLeft`.  The first two rest on `Intact`, which names the statuses
  under which objects are deleted, and on `Claimed`: claims are numbered, so a
  worker whose claim was taken over holds an older number.  The third rests on
  `Fresh`, which says of the entry and of every list in the hands of a reader that
  may still store it that it is current, or that a writer has yet to invalidate, or
  that an invalidation was lost.  The run has one reader; the theorem any number.  The
  last rests on `Settled`: no deletion is still at work when a retention is over
  (`Prompt`), nothing is kept without a consent (`Consented`) and, as long as no
  purge was claimed before its time, nobody keeps a snapshot while the project is
  purged, and a worker that is about to unlink the consent or to delete the row
  has settled what it found, as had the one that unlinked it before (`Orderly`).
* **`ConversationBuildsProofs`**: all of the run's properties.  Nothing locks a
  conversation, so the invariant follows the turns that have met no other (`Calm`):
  what one of them has said is in each brief that a turn has read and will extend
  (`ReadFits`), in each that it will freeze (`FreezeFits`), in that of the build
  (`BuildFits`) and in the chat that will be written back (`ChatFits`).  Two turns in
  progress have met (`Overlap`), which is why the brief that a calm turn extends
  cannot change under it.  A step is first reduced to its effects (`Moves`,
  `Starts`, `Outer`).

Only model-checked: the liveness properties (`EveryCallReturns`, `PlansEnd`,
`CommandsEnd`, `EveryJobEnds`, `DueEnds`), which rest on fairness and `ENABLED`.
Every other property of a passing run is a theorem.  The types of the workflow, of
plans and of the deletion are theorems that no run repeats.

## 7. Known behaviours that no passing run states

Each of these was found while a module was written.  Those with a property can be
reproduced by naming it in a configuration of its module with the change given.

* `EveryCallReturns` fails if one key serves a transition and then a build:
  `initiate` replays a key only if a build *and* a transition carry it; if only a
  transition does, the insertion violates the unique key and `initiate` calls
  itself with nothing changed, until the interpreter's recursion limit
  (`readiness/service.py:208`; `ProjectWorkflow`, the same key in both sets).
* `RequiredSucceedFirst` fails for graphs that list jobs before their
  dependencies: one pass of `_block_unsatisfied_jobs` in dictionary order misses
  a job whose requirement is blocked later in the pass; it is then ready, as
  blocked dependencies count as ended (`orchestration.py:572`).  With jobs listed
  after their dependencies this cannot happen, for any graph: that is the theorem
  `RequiredCorrect`.
* `TerminalPlansAdvance` fails with a crash inside a reset: `reset` moves the
  workflow before it persists the plan; after a crash between the two, the
  terminal key of the old attempt is spent and executing the plan again moves
  nothing (`orchestration.py:492`, `docs/worker-orchestration.md:34`).
* `TerminalIsFinal` fails if a session may be cancelled: `cancel_command` tests a
  row it was given and updates by identifier alone (`opencode/store.py:435`).
* `ResumesFromCheckpoint` fails after a reset and a crash: the run that the reset
  has put in the request is preferred to the checkpoints made since
  (`orchestration.py:688`), although `docs/generation-worker.md:43` says that
  execution resumes from the latest checkpoint.
* The first execution of a plan over a project that has a revision takes over
  that revision's run and reports only the stages it runs again; if it dies, the
  resumed one begins with those reports alone (`generation.py:403`).
  `InputsAreCurrent` and `RetryKeepsResults` except these executions (`drifted`).
* Two retries of different stages that begin with the same revision append their
  runs one after the other, and the second undoes the first's results without a
  conflict: the comparison guards the read at the append, not the one at the
  start (`a2a.py:1151`).
* `AdvancesWhenOver` fails wherever a plan runs in a detached thread, which is the
  default deployment (`context_builds.py:60`; name it as a PROPERTY in
  `WorkerPlanRaces.cfg`).  The thread writes the end of an attempt; a reset reads
  it, finds the project still building and opens the next attempt; then the
  thread's transition moves the project to `awaiting_feedback` over the new attempt
  (`orchestration.py:492`).  The lost cancellation of the run `plan_lost_cancel`
  leads there too.  What is left is `EndsAreRecorded`: the project never awaits
  feedback over an attempt whose end the record has never shown.
* `package_project` has no dependencies.  A plan that died between its stages may
  run a failed stage again when the package has already succeeded, and the package
  is then older than what it packs.  `PackageIsCurrent` is about what requests
  store.
* The claim of a purge compares the status of the row and not `purge_after`
  (`project_deletion.py:410`).  A worker that read a due project which was then
  restored, by a restoration that had itself read it in time, and deleted again,
  purges it at once; if that deletion is still keeping its snapshot, the snapshot
  is pending after the project is gone.  `NothingPendingIsLeft` excepts such claims
  (`hasty`); without the exception three calls of the owner refute it.
* `WithdrawalHolds` fails if an owner withdraws while the project is being
  deleted: the deletion stores a snapshot under the consent it read and writes
  that consent back (`project_deletion.py:252`, `docs/project-deletion.md:19`).
* The removal of a cancelled job's project sets no time to purge it, so no worker
  finds it due (`main.py:505`); `DueEnds` is about projects that are due.
* `NobodyFailsABuild` fails for two overlapping turns that build: they append the
  same version of the brief or insert the same plan, the second is refused by the
  store and records that the project has failed
  (`context_gathering_api.py:293`, `docs/generation-worker.md:37`).
* Overlapping turns write the chat and the brief back whole, and what one of them
  has said is lost (`context_gathering_api.py:379`, `docs/context-gathering.md:3`);
  `WhatIsToldIsKept` is about turns that overlap no other.  A build that supplies
  context appends it to a project whose state has left gathering.
* The keys of a conversation's handoff and of its build are spent once for all: a
  conversation that reopens its context and builds again is answered with its
  first build and moves nothing (`context_gathering_api.py:259`).  `OneBuild`
  states it as the code has it.
* A transition to the state in which the project already is answers with no
  transition and does not spend its key (`workflow/service.py:228`).  A late
  repetition of the command may find the project elsewhere and move it, although
  `docs/project-workflow.md:17` says that a repeated key returns the original
  transition without appending history.
* `execute` does not claim the plan.  Two processes, or a request and a detached
  thread, may execute the same plan and overwrite each other's completed jobs,
  although `docs/worker-orchestration.md:28` says that completed jobs are
  retained.  `plan_races` shows which properties the record keeps all the same;
  `ImplementsWorkerPlan`, which includes the retention, is checked and proved for
  the calls of one loop.
* On Supabase two polls that read the same expired lease are both answered with
  the command (`opencode/store.py:349`); only the later lease completes it.  A
  completion whose lease was lost still records its terminal event
  (`apps/api/opencode_api.py:258`), so the event and the row may disagree.
* On Supabase a cancellation that read queued is dropped when the job starts
  before its update (`jobs/repositories.py:148`), and two handlers under one id
  lose progress events of each other (`:113`).  `mark_routed` is unconditional, so
  a job that is cancelled before it is routed becomes routed (`a2a.py:1451`).
  `CancelTakesEffect`, `ProgressComplete` and `JobLifecycle` except these cases.

## 8. What is not modelled

Agents, providers, validation rules and media are functions of their inputs or
calls of external services; the models choose their results freely.  The web
front end and the command line are the environment: their polling and retrying
is in the fairness assumptions, their view state is not.  Accounts, settings and
command-line credentials guard requests before the models begin.  Reconciliation
copies one store into another on a quiet system.  The persistence layer is
modelled where a component uses it (transactions, unique constraints, conditional
updates); its schemas and migrations are not.  Two resets of a plan under different
keys from different loops, both of which read the project before either commits:
the second raises in the code, where the model makes a transition one step.  What
is left of the modelled components is named at the end of each part of section 3.

## 9. Running the checks

From this directory, `tlc -config X.cfg M` runs a row of section 4 (module and
configuration are in `PROJECT.json`), `tlapm M.tla` checks the proofs of a module.
The MC modules only declare model values and instances; they replace no
definition.
