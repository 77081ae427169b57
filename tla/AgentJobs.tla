------------------------------ MODULE AgentJobs ------------------------------
(***************************************************************************)
(* One row of the table a2a_jobs and the handlers that meet on it.  A      *)
(* request is a message submitted under the job's id, whose handler looks  *)
(* the row up, creates it, acknowledges it and either starts the task that *)
(* runs the action (a job of the server) or forwards the message to        *)
(* another agent; or it is a POST /generate, which creates the row and     *)
(* runs the action in the handler itself.  Cancellations run in threads of *)
(* their own, and every call of the store is a statement of its own.  On   *)
(* SQLite a conditional update is one statement; on Supabase the row is    *)
(* read and then updated where the status is still the one that was read.  *)
(* The rows of a purged project, the readers of the hub's queues and the   *)
(* checks of authorisation are left out.                                   *)
(***************************************************************************)
EXTENDS Naturals, FiniteSets

CONSTANTS
  Requests,    \* the requests that arrive under the job's id
  Messages,    \* identities of messages: message id, action, sender, recipient
  Cancels,     \* the cancellations that arrive
  Backends,    \* the stores to consider: a subset of {"sqlite", "supabase"}
  Kinds,       \* a subset of {"server", "agent", "frontend"}
  MaxFailures  \* a bound on the crashes and the calls of the store that raise

ASSUME JobsAssumption ==
  /\ Backends \subseteq {"sqlite", "supabase"}
  /\ Kinds \subseteq {"server", "agent", "frontend"}
  /\ Messages # {}
  /\ MaxFailures \in Nat

VARIABLES
  backend, kind,  \* the store, and who sends the job: they do not change
  message,        \* the message of each request
  status,         \* the status of the row, "none" when there is no row
  owner,          \* the message that created the row
  progress,       \* the requests whose event is in progress_events
  pc,             \* where each request is
  seen,           \* the status that it read before a conditional update
  held,           \* the events that it read before writing them back
  value,          \* the status with which it will complete the row
  raised,         \* whether its action raised
  project,        \* the project that it has stored
  cpc, cseen,     \* where each cancellation is, and the status it read
  started,        \* the requests whose action was started
  forwarded,      \* the requests that forwarded the message
  events,         \* what was published to the sender: a type and a request
  emitted,        \* the requests that have reported an event to this row
  faults, crashes

config == <<backend, kind, message>>
row == <<status, owner, progress>>
work == <<pc, seen, held, value, raised>>
ghosts == <<started, forwarded, emitted>>
cancelling == <<cpc, cseen>>
vars == <<config, row, work, project, cancelling, ghosts, events, faults, crashes>>

TERMINAL_JOB_STATUSES == {"succeeded", "partial", "failed", "cancelled"}
JobStatuses == {"queued", "accepted", "running", "routed"} \cup TERMINAL_JOB_STATUSES
Ended == {"done", "rejected", "dead", "lost"}

-----------------------------------------------------------------------------
Init ==
  /\ backend \in Backends /\ kind \in Kinds
  /\ message \in [Requests -> Messages]
  /\ status = "none" /\ progress = {}
  /\ owner = CHOOSE m \in Messages : TRUE
  \* POST /generate makes a message id of its own, which nothing compares.
  /\ kind = "frontend" => \A r \in Requests : message[r] = owner
  /\ pc = [r \in Requests |-> "idle"] /\ cpc = [c \in Cancels |-> "idle"]
  /\ seen = [r \in Requests |-> "none"] /\ cseen = [c \in Cancels |-> "none"]
  /\ held = [r \in Requests |-> {}]
  /\ value = [r \in Requests |-> "none"]
  /\ raised = [r \in Requests |-> FALSE]
  /\ project = [r \in Requests |-> "none"]
  /\ started = {} /\ forwarded = {} /\ emitted = {} /\ events = {}
  /\ faults = 0 /\ crashes = 0

Goto(r, l) == pc' = [pc EXCEPT ![r] = l]
At(r, l) == pc[r] = l
Forget(r) == seen' = [seen EXCEPT ![r] = "none"]
Publish(r, t) == events' = events \cup {<<t, r>>}

-----------------------------------------------------------------------------
(* Submission of a message. *)

Lookup(r) ==
  /\ At(r, "idle") /\ kind # "frontend"
  /\ Goto(r, IF status = "none" THEN "create"
             ELSE IF owner = message[r] THEN "again" ELSE "rejected")
  /\ UNCHANGED <<config, row, seen, held, value, raised, project, cancelling,
                 ghosts, events, faults, crashes>>

\* [Fault] The row is written with replace_existing left at its default.
CreateReplacing(r) ==
  /\ At(r, "create")
  /\ status' = IF kind = "server" THEN "queued" ELSE "accepted"
  /\ owner' = message[r] /\ progress' = {}
  /\ Goto(r, "ack")
  /\ UNCHANGED <<config, seen, held, value, raised, project, cancelling,
                 ghosts, events, faults, crashes>>

\* The insertion fails when another request has created the row meanwhile.
Create(r) ==
  /\ At(r, "create")
  /\ \/ /\ status = "none"
        /\ status' = IF kind = "server" THEN "queued" ELSE "accepted"
        /\ owner' = message[r] /\ progress' = {}
        /\ Goto(r, "ack")
     \/ /\ status # "none"
        /\ Goto(r, IF owner = message[r] THEN "again" ELSE "rejected")
        /\ UNCHANGED row
  /\ UNCHANGED <<config, seen, held, value, raised, project, cancelling,
                 ghosts, events, faults, crashes>>

\* Publishing awaits the hub's lock, so other handlers run before and after.
Acknowledge(r) ==
  /\ At(r, "ack")
  /\ Publish(r, "ack")
  /\ IF kind = "server"
     THEN Goto(r, "mark") /\ started' = started \cup {r}
     ELSE Goto(r, "route") /\ UNCHANGED started
  /\ UNCHANGED <<config, row, seen, held, value, raised, project, cancelling,
                 forwarded, emitted, faults, crashes>>

AcknowledgeAgain(r) ==
  /\ At(r, "again")
  /\ Publish(r, "ack") /\ Goto(r, "done")
  /\ UNCHANGED <<config, row, seen, held, value, raised, project, cancelling,
                 ghosts, faults, crashes>>

\* [Fault] The row is given a status that the store does not know.
RouteUnknown(r) ==
  /\ At(r, "route")
  /\ status' = "forwarded" /\ Goto(r, "forward")
  /\ UNCHANGED <<config, owner, progress, seen, held, value, raised, project,
                 cancelling, ghosts, events, faults, crashes>>

Route(r) ==
  /\ At(r, "route")
  /\ status' = "routed" /\ Goto(r, "forward")
  /\ UNCHANGED <<config, owner, progress, seen, held, value, raised, project,
                 cancelling, ghosts, events, faults, crashes>>

Forward(r) ==
  /\ At(r, "forward")
  /\ forwarded' = forwarded \cup {r} /\ Goto(r, "done")
  /\ UNCHANGED <<config, row, seen, held, value, raised, project, cancelling,
                 started, emitted, events, faults, crashes>>

-----------------------------------------------------------------------------
(* The action: the task of a job of the server, or POST /generate, whose   *)
(* row replaces the one that an earlier request left under the same id.    *)

Generate(r) ==
  /\ At(r, "idle") /\ kind = "frontend"
  /\ status' = "queued" /\ owner' = message[r] /\ progress' = {}
  /\ started' = started \cup {r} /\ emitted' = {}
  /\ Goto(r, "mark")
  /\ UNCHANGED <<config, seen, held, value, raised, project, cancelling,
                 forwarded, events, faults, crashes>>

\* [Fault] A row that has ended is started again.
MarkRunningAlways(r) ==
  /\ At(r, "mark")
  /\ status' = "running" /\ Goto(r, "run")
  /\ UNCHANGED <<config, owner, progress, seen, held, value, raised, project,
                 cancelling, ghosts, events, faults, crashes>>

MarkRunning(r) ==
  /\ At(r, "mark")
  /\ \/ /\ status \in TERMINAL_JOB_STATUSES
        /\ Goto(r, "run") /\ UNCHANGED <<status, seen>>
     \/ /\ status \notin TERMINAL_JOB_STATUSES /\ backend = "sqlite"
        /\ status' = "running" /\ Goto(r, "run") /\ UNCHANGED seen
     \/ /\ status \notin TERMINAL_JOB_STATUSES /\ backend = "supabase"
        /\ seen' = [seen EXCEPT ![r] = status] /\ Goto(r, "marking")
        /\ UNCHANGED status
  /\ UNCHANGED <<config, owner, progress, held, value, raised, project,
                 cancelling, ghosts, events, faults, crashes>>

MarkRunningWhere(r) ==
  /\ At(r, "marking")
  /\ status' = IF status = seen[r] THEN "running" ELSE status
  /\ Forget(r) /\ Goto(r, "run")
  /\ UNCHANGED <<config, owner, progress, held, value, raised, project,
                 cancelling, ghosts, events, faults, crashes>>

\* A cancelled pipeline raises: the frontend's handler cancels and clears
\* away, the task of a message tries to record a failure.
Cancelled(r) ==
  IF kind = "frontend"
  THEN Goto(r, "cancel") /\ UNCHANGED <<value, raised>>
  ELSE /\ Goto(r, "read")
       /\ value' = [value EXCEPT ![r] = "failed"]
       /\ raised' = [raised EXCEPT ![r] = TRUE]

\* [Fault] SQLite reads and writes the events without holding its lock.
AppendUnlocked(r) ==
  /\ At(r, "run")
  /\ \/ /\ status = "cancelled"
        /\ Cancelled(r) /\ UNCHANGED held
     \/ /\ status # "cancelled"
        /\ held' = [held EXCEPT ![r] = progress]
        /\ Goto(r, "append") /\ UNCHANGED <<value, raised>>
  /\ UNCHANGED <<config, row, seen, project, cancelling, ghosts, events,
                 faults, crashes>>

AppendProgressEvent(r) ==
  /\ At(r, "run")
  /\ \/ /\ status = "cancelled"
        /\ Cancelled(r) /\ UNCHANGED <<progress, held, emitted>>
     \/ /\ status # "cancelled" /\ backend = "sqlite"
        /\ progress' = progress \cup {r} /\ emitted' = emitted \cup {r}
        /\ Goto(r, "check") /\ UNCHANGED <<held, value, raised>>
     \/ /\ status # "cancelled" /\ backend = "supabase"
        /\ held' = [held EXCEPT ![r] = progress]
        /\ Goto(r, "append") /\ UNCHANGED <<progress, emitted, value, raised>>
  /\ UNCHANGED <<config, status, owner, seen, project, cancelling, started,
                 forwarded, events, faults, crashes>>

WriteProgressEvents(r) ==
  /\ At(r, "append")
  /\ progress' = held[r] \cup {r} /\ emitted' = emitted \cup {r}
  /\ held' = [held EXCEPT ![r] = {}] /\ Goto(r, "check")
  /\ UNCHANGED <<config, status, owner, seen, value, raised, project,
                 cancelling, started, forwarded, events, faults, crashes>>

EnsureActive(r) ==
  /\ At(r, "check")
  /\ \/ status = "cancelled" /\ Cancelled(r)
     \/ status # "cancelled" /\ Goto(r, "persist") /\ UNCHANGED <<value, raised>>
  /\ UNCHANGED <<config, row, seen, held, project, cancelling, ghosts, events,
                 faults, crashes>>

\* The action raises of itself: no project is stored.
ActionRaises(r) ==
  /\ pc[r] \in {"run", "check"}
  /\ value' = [value EXCEPT ![r] = "failed"]
  /\ raised' = [raised EXCEPT ![r] = TRUE]
  /\ Goto(r, "read")
  /\ UNCHANGED <<config, row, seen, held, project, cancelling, ghosts, events,
                 faults, crashes>>

\* The revision is stored whatever the status of the generation.
Persist(r) ==
  /\ At(r, "persist")
  /\ project' = [project EXCEPT ![r] = "active"]
  /\ \E v \in {"succeeded", "partial", "failed"} : value' = [value EXCEPT ![r] = v]
  /\ Goto(r, IF kind = "frontend" THEN "confirm" ELSE "read")
  /\ UNCHANGED <<config, row, seen, held, raised, cancelling, ghosts, events,
                 faults, crashes>>

Confirm(r) ==
  /\ At(r, "confirm")
  /\ Goto(r, IF status = "cancelled" THEN "cancel" ELSE "read")
  /\ UNCHANGED <<config, row, seen, held, value, raised, project, cancelling,
                 ghosts, events, faults, crashes>>

-----------------------------------------------------------------------------
(* mark_succeeded, mark_partial and mark_failed. *)

Recorded(r) == IF kind = "server" THEN "publish"
               ELSE IF raised[r] THEN "done" ELSE "reread"

ReadCurrent(r) ==
  /\ At(r, "read")
  /\ IF status = "cancelled"
     THEN Goto(r, Recorded(r)) /\ UNCHANGED seen
     ELSE Goto(r, "write") /\ seen' = [seen EXCEPT ![r] = status]
  /\ UNCHANGED <<config, row, held, value, raised, project, cancelling, ghosts,
                 events, faults, crashes>>

CompletableQueued(r) == status = "queued"

\* The condition of the update: what the backend compares.
Completable(r) == IF backend = "sqlite" THEN status # "cancelled"
                  ELSE status = seen[r]

CompletedStatus(r) == IF Completable(r) THEN value[r] ELSE status

Complete(r) ==
  /\ At(r, "write")
  /\ status' = CompletedStatus(r)
  /\ Forget(r) /\ Goto(r, Recorded(r))
  /\ UNCHANGED <<config, owner, progress, held, value, raised, project,
                 cancelling, ghosts, events, faults, crashes>>

\* [Fault] The reply tells whether the action raised, not what was recorded.
ReplyOfAction(r) ==
  /\ At(r, "publish")
  /\ Publish(r, IF raised[r] THEN "error" ELSE "result")
  /\ Goto(r, "done")
  /\ UNCHANGED <<config, row, seen, held, value, raised, project, cancelling,
                 ghosts, faults, crashes>>

Reply(r) ==
  /\ At(r, "publish")
  /\ Publish(r, IF value[r] = "failed" THEN "error" ELSE "result")
  /\ Goto(r, "done")
  /\ UNCHANGED <<config, row, seen, held, value, raised, project, cancelling,
                 ghosts, faults, crashes>>

\* The frontend's handler looks once more before it answers.
Reread(r) ==
  /\ At(r, "reread")
  /\ Goto(r, IF status = "cancelled" THEN "cancel" ELSE "done")
  /\ UNCHANGED <<config, row, seen, held, value, raised, project, cancelling,
                 ghosts, events, faults, crashes>>

-----------------------------------------------------------------------------
(* mark_cancelled and the projects that a cancelled job has stored. *)

Delete(p) == IF p = "active" THEN "deleted" ELSE p
DeleteProjects == project' = [q \in Requests |-> Delete(project[q])]

\* [Fault] Only a queued job can be cancelled.
CancellableQueued == status = "queued"

Cancellable == status \notin TERMINAL_JOB_STATUSES

HandlerCancels(r) ==
  /\ At(r, "cancel")
  /\ \/ /\ ~Cancellable
        /\ Goto(r, "delete") /\ UNCHANGED <<status, seen>>
     \/ /\ Cancellable /\ backend = "sqlite"
        /\ status' = "cancelled" /\ Goto(r, "delete") /\ UNCHANGED seen
     \/ /\ Cancellable /\ backend = "supabase"
        /\ seen' = [seen EXCEPT ![r] = status] /\ Goto(r, "cancelwhere")
        /\ UNCHANGED status
  /\ UNCHANGED <<config, owner, progress, held, value, raised, project,
                 cancelling, ghosts, events, faults, crashes>>

HandlerCancelsWhere(r) ==
  /\ At(r, "cancelwhere")
  /\ status' = IF status = seen[r] THEN "cancelled" ELSE status
  /\ Forget(r) /\ Goto(r, "delete")
  /\ UNCHANGED <<config, owner, progress, held, value, raised, project,
                 cancelling, ghosts, events, faults, crashes>>

\* [Fault] The handler leaves the projects to the endpoint that cancelled.
HandlerLeavesProjects(r) ==
  /\ At(r, "delete")
  /\ Goto(r, "done")
  /\ UNCHANGED <<config, row, seen, held, value, raised, project, cancelling,
                 ghosts, events, faults, crashes>>

HandlerDeletes(r) ==
  /\ At(r, "delete")
  /\ DeleteProjects /\ Goto(r, "done")
  /\ UNCHANGED <<config, row, seen, held, value, raised, cancelling, ghosts,
                 events, faults, crashes>>

CancelGoto(c, l) == cpc' = [cpc EXCEPT ![c] = l]

\* The endpoint answers 404 while there is no row.
Cancel(c) ==
  /\ cpc[c] = "idle" /\ status # "none"
  /\ \/ /\ ~Cancellable
        /\ CancelGoto(c, IF status = "cancelled" THEN "delete" ELSE "done")
        /\ UNCHANGED <<status, cseen>>
     \/ /\ Cancellable /\ backend = "sqlite"
        /\ status' = "cancelled" /\ CancelGoto(c, "reread") /\ UNCHANGED cseen
     \/ /\ Cancellable /\ backend = "supabase"
        /\ cseen' = [cseen EXCEPT ![c] = status] /\ CancelGoto(c, "where")
        /\ UNCHANGED status
  /\ UNCHANGED <<config, owner, progress, work, project, ghosts, events,
                 faults, crashes>>

CancelWhere(c) ==
  /\ cpc[c] = "where"
  /\ status' = IF status = cseen[c] THEN "cancelled" ELSE status
  /\ cseen' = [cseen EXCEPT ![c] = "none"] /\ CancelGoto(c, "reread")
  /\ UNCHANGED <<config, owner, progress, work, project, ghosts, events,
                 faults, crashes>>

CancelRereads(c) ==
  /\ cpc[c] = "reread"
  /\ CancelGoto(c, IF status = "cancelled" THEN "delete" ELSE "done")
  /\ UNCHANGED <<config, row, work, project, cseen, ghosts, events, faults, crashes>>

CancelDeletes(c) ==
  /\ cpc[c] = "delete"
  /\ DeleteProjects /\ CancelGoto(c, "done")
  /\ UNCHANGED <<config, row, work, cseen, ghosts, events, faults, crashes>>

-----------------------------------------------------------------------------
(* Failures: a call of the store raises, whether or not the statement took *)
(* effect, and the server dies, with the queues of the hub.                *)

Fault == faults + crashes < MaxFailures /\ faults' = faults + 1

\* mark_running is called outside of the handler's try.
MarkRunningRaises(r) ==
  /\ pc[r] \in {"mark", "marking"}
  /\ Fault /\ Forget(r) /\ Goto(r, "dead")
  /\ UNCHANGED <<config, row, held, value, raised, project, cancelling,
                 ghosts, events, crashes>>

\* A failure after the action is recorded as a failure of the job; a
\* failure to record that one ends the handler.
StoreRaises(r) ==
  /\ pc[r] \in {"confirm", "read", "write"}
  /\ Fault
  /\ status' \in {status} \cup (IF At(r, "write") THEN {CompletedStatus(r)} ELSE {})
  /\ value' = [value EXCEPT ![r] = "failed"]
  /\ raised' = [raised EXCEPT ![r] = TRUE]
  /\ Forget(r) /\ Goto(r, IF raised[r] THEN "dead" ELSE "read")
  /\ UNCHANGED <<config, owner, progress, held, project, cancelling,
                 ghosts, events, crashes>>

Lost(l) == IF l = "idle" \/ l \in Ended THEN l ELSE "lost"

Crash ==
  /\ faults + crashes < MaxFailures /\ crashes' = crashes + 1
  /\ pc' = [r \in Requests |-> Lost(pc[r])]
  /\ cpc' = [c \in Cancels |-> Lost(cpc[c])]
  /\ seen' = [r \in Requests |-> "none"] /\ cseen' = [c \in Cancels |-> "none"]
  /\ held' = [r \in Requests |-> {}] /\ events' = {}
  /\ UNCHANGED <<config, row, value, raised, project, ghosts, faults>>

-----------------------------------------------------------------------------
Step(r) ==
  \/ Lookup(r) \/ Create(r) \/ Acknowledge(r) \/ AcknowledgeAgain(r)
  \/ Route(r) \/ Forward(r)
  \/ Generate(r) \/ MarkRunning(r) \/ MarkRunningWhere(r)
  \/ AppendProgressEvent(r) \/ WriteProgressEvents(r) \/ EnsureActive(r)
  \/ ActionRaises(r) \/ Persist(r) \/ Confirm(r)
  \/ ReadCurrent(r) \/ Complete(r) \/ Reply(r) \/ Reread(r)
  \/ HandlerCancels(r) \/ HandlerCancelsWhere(r) \/ HandlerDeletes(r)

CancelStep(c) == Cancel(c) \/ CancelWhere(c) \/ CancelRereads(c) \/ CancelDeletes(c)

Raise(r) == MarkRunningRaises(r) \/ StoreRaises(r)

Next ==
  \/ \E r \in Requests : Step(r) \/ Raise(r)
  \/ \E c \in Cancels : CancelStep(c)
  \/ Crash

Spec == Init /\ [][Next]_vars

\* A handler that has begun goes on; nobody has to send a message or cancel.
FairSpec == Spec /\ \A r \in Requests : WF_vars(pc[r] # "idle" /\ Step(r))

-----------------------------------------------------------------------------
TypeOK ==
  /\ backend \in Backends /\ kind \in Kinds
  /\ message \in [Requests -> Messages]
  /\ status \in JobStatuses \cup {"none"}
  /\ owner \in Messages /\ progress \subseteq Requests
  /\ pc \in [Requests -> Ended \cup
       {"idle", "create", "ack", "again", "route", "forward", "mark", "marking",
        "run", "append", "check", "persist", "confirm", "read", "write",
        "publish", "reread", "cancel", "cancelwhere", "delete"}]
  /\ seen \in [Requests -> JobStatuses \cup {"none"}]
  /\ held \in [Requests -> SUBSET Requests]
  /\ value \in [Requests -> {"none", "succeeded", "partial", "failed"}]
  /\ raised \in [Requests -> BOOLEAN]
  /\ project \in [Requests -> {"none", "active", "deleted"}]
  /\ cpc \in [Cancels -> {"idle", "where", "reread", "delete", "done", "lost"}]
  /\ cseen \in [Cancels -> JobStatuses \cup {"none"}]
  /\ started \subseteq Requests /\ forwarded \subseteq Requests
  /\ emitted \subseteq Requests
  /\ events \subseteq {"ack", "result", "error"} \X Requests
  /\ faults \in 0..MaxFailures /\ crashes \in 0..MaxFailures

\* However often a message is sent again, and whatever two submissions see of
\* each other, one of them at most has an effect: its action is run, or its
\* message is forwarded.  (submit_a2a_message, a2a.py:1400-1434.)
EffectsAtMostOnce ==
  kind # "frontend" =>
    \A r, s \in started \cup forwarded : r = s

\* What the sender of a message is told agrees with the row: a result is not
\* published for a job recorded as failed or still running, nor an error for
\* one that succeeded, even when a call of the store raised in between.
\* (_process_server_message, a2a.py:1470-1556.)
ReplyAgreesWithRow ==
  kind = "server" => \A r \in Requests :
    /\ <<"result", r>> \in events => status \in {"succeeded", "partial", "cancelled"}
    /\ <<"error", r>> \in events => status \in {"failed", "cancelled"}

\* The row of a server's job does what JobLifecycle promises.
Lifecycle == INSTANCE JobLifecycle WITH
  status <- IF kind = "server" THEN status ELSE "none"
ImplementsLifecycle == Lifecycle!Spec

\* When POST /generate and the cancellations of its job have come to an end,
\* a cancelled job has left no project behind, in whatever order the project
\* was stored, the job was cancelled and the projects were deleted, as long as
\* nothing failed.  (main.py:848-878, 1639-1649.)
CancelledLeavesNoProject ==
  (/\ kind = "frontend" /\ status = "cancelled"
   /\ faults = 0 /\ crashes = 0
   /\ \A r \in Requests : pc[r] \in Ended \cup {"idle"}
   /\ \A c \in Cancels : cpc[c] \in {"idle", "done"})
    => \A r \in Requests : project[r] # "active"

\* On SQLite a cancellation that has been answered found the job finished or
\* has stopped it.  On Supabase it is dropped when the job starts running
\* between its read and its update.  (repositories.py:326, main.py:1639.)
CancelTakesEffect ==
  (kind = "server" /\ backend = "sqlite") =>
    \A c \in Cancels : cpc[c] = "done" => status \in TERMINAL_JOB_STATUSES

\* No event that a handler has reported is missing from the row, where the
\* read and the write of the events are one transaction, or one handler is at
\* work.  (append_progress_event, repositories.py:113 and 278.)
ProgressComplete ==
  (backend = "sqlite" \/ Cardinality(started) <= 1) => emitted \subseteq progress

\* A job that is queued or running ends, unless the store or the server fails:
\* nothing takes up a job that a dead server has left.  (a2a.py:1448, 1474.)
EveryJobEnds ==
  (kind # "agent" /\ status \in {"queued", "running"}) ~>
    (status \in TERMINAL_JOB_STATUSES \/ faults + crashes > 0)
=============================================================================
