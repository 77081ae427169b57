--------------------------- MODULE AgentJobsProofs ---------------------------
(***************************************************************************)
(* Theorems about the row of a job, for any number of requests,            *)
(* cancellations and messages, on both stores.                             *)
(*                                                                         *)
(* The inductive invariant says that at most one request of a message has  *)
(* got past the creation of the row (One), what the row can be while that  *)
(* request is at each place (RowFits), and that a project of a cancelled    *)
(* job is still to be deleted by somebody (Remembered).                    *)
(***************************************************************************)
EXTENDS AgentJobs, FiniteSetTheorems, TLAPS

Marking == {"mark", "marking"}
Running == {"run", "append", "check", "persist"}
Recording == {"read", "write"}
Clearing == {"confirm", "reread", "cancel", "cancelwhere", "delete"}

Beyond == {"ack", "route", "forward", "publish"} \cup Marking \cup Running \cup Recording
          \cup Clearing

Completed == {"succeeded", "partial", "failed"}

\* Where the store and the kind of the job let a request or a cancellation be.
PlacesFit ==
  /\ \A r \in Requests :
       /\ pc[r] \in {"create", "ack", "again"} => kind # "frontend"
       /\ pc[r] \in {"route", "forward"} => kind = "agent"
       /\ pc[r] \in Marking \cup Running \cup Recording => kind # "agent" /\ r \in started
       /\ pc[r] = "publish" => kind = "server" /\ r \in started
       /\ pc[r] \in Clearing => kind = "frontend" /\ r \in started
       /\ pc[r] \in {"marking", "append", "cancelwhere"} => backend = "supabase"
       /\ pc[r] \in {"confirm", "publish"} \cup Recording => value[r] # "none"
       /\ pc[r] \in {"marking", "cancelwhere"} => seen[r] \notin TERMINAL_JOB_STATUSES
  /\ \A c \in Cancels :
       cpc[c] = "where" => /\ backend = "supabase"
                           /\ cseen[c] \notin TERMINAL_JOB_STATUSES \cup {"none"}

Acting == {r \in Requests : pc[r] \in Beyond} \cup started \cup forwarded

\* Requests act only when there is a row, and of a message one at most.
One ==
  /\ Acting # {} => status # "none"
  /\ kind # "frontend" => \A r, s \in Acting : r = s

\* What the row of a server's job is while its request is at each place, and
\* once its sender has been answered.
RowFits ==
  kind = "server" =>
    /\ status \in {"none", "queued", "running", "cancelled"} \cup Completed
    /\ \A r \in Requests :
         /\ pc[r] \in {"ack"} \cup Marking => status \in {"queued", "cancelled"}
         /\ pc[r] = "marking" => seen[r] = "queued"
         /\ pc[r] \in Running => status \in {"running", "cancelled"}
         /\ pc[r] \in Recording => status \in {"running", "cancelled"} \cup Completed
         /\ pc[r] = "write" => seen[r] # "cancelled" /\ status \in {seen[r], "cancelled"}
         /\ pc[r] = "publish" => status \in {value[r], "cancelled"}
         /\ \A t \in {"result", "error"} :
              <<t, r>> \in events =>
                /\ r \in started /\ pc[r] \notin Beyond
                /\ status \in (IF t = "error" THEN {"failed", "cancelled"}
                               ELSE {"succeeded", "partial", "cancelled"})

\* What a cancellation has read of the row is not terminal, and what it has
\* done leaves a terminal row.
CancelFits ==
  kind = "server" /\ backend = "sqlite" =>
    \A c \in Cancels :
      cpc[c] \in {"reread", "delete", "done"} => status \in TERMINAL_JOB_STATUSES

\* Who has not lost an event: the only one who appends, or SQLite.
EventsFit ==
  /\ IsFiniteSet(started) /\ emitted \subseteq started
  /\ ProgressComplete

\* Where a handler still looks at the row, or will delete, after it has stored
\* a project.
Attending == {"read", "write"} \cup Clearing

Unfailing == faults = 0 /\ crashes = 0

Remembered ==
  kind = "frontend" /\ Unfailing =>
    /\ \A r \in Requests : project[r] = "active" => ~raised[r]
    /\ \A r \in Requests :
         pc[r] \in {"idle"} \cup Marking \cup Running => project[r] = "none" /\ ~raised[r]
    /\ status = "cancelled" =>
         \/ \A r \in Requests : project[r] = "active" => pc[r] \in Attending
         \/ \E r \in Requests : pc[r] = "delete"
         \/ \E c \in Cancels : cpc[c] \in {"reread", "delete"}

RowTypes ==
  /\ status \in JobStatuses \cup {"none"}
  /\ owner \in Messages /\ progress \subseteq Requests

WorkTypes ==
  /\ pc \in [Requests -> Beyond \cup Ended \cup {"idle", "create", "again"}]
  /\ seen \in [Requests -> JobStatuses \cup {"none"}]
  /\ held \in [Requests -> SUBSET Requests]
  /\ value \in [Requests -> {"none", "succeeded", "partial", "failed"}]
  /\ raised \in [Requests -> BOOLEAN]
  /\ project \in [Requests -> {"none", "active", "deleted"}]

OtherTypes ==
  /\ backend \in Backends /\ kind \in Kinds /\ message \in [Requests -> Messages]
  /\ cpc \in [Cancels -> {"idle", "where", "reread", "delete", "done", "lost"}]
  /\ cseen \in [Cancels -> JobStatuses \cup {"none"}]
  /\ started \subseteq Requests /\ forwarded \subseteq Requests /\ emitted \subseteq Requests
  /\ events \subseteq {"ack", "result", "error"} \X Requests
  /\ faults \in 0..MaxFailures /\ crashes \in 0..MaxFailures

Types == RowTypes /\ WorkTypes /\ OtherTypes

LEMMA TypesAreTypeOK == Types <=> TypeOK
BY DEF Types, RowTypes, WorkTypes, OtherTypes, TypeOK, Beyond, Marking, Running, Recording,
  Clearing

-----------------------------------------------------------------------------
(* Each conjunct is kept by every step. *)

LEMMA RowTypesKept == Types /\ PlacesFit /\ [Next]_vars => RowTypes'
<1> SUFFICES ASSUME Types, PlacesFit, [Next]_vars PROVE RowTypes' OBVIOUS
<1> USE DEF Types, RowTypes, WorkTypes, OtherTypes, JobStatuses, TERMINAL_JOB_STATUSES
<1>1. ASSUME UNCHANGED row PROVE RowTypes' BY <1>1 DEF row
<1>2. ASSUME NEW r \in Requests,
             \/ Lookup(r) \/ Acknowledge(r) \/ AcknowledgeAgain(r) \/ Forward(r)
             \/ EnsureActive(r) \/ ActionRaises(r) \/ Persist(r) \/ Confirm(r)
             \/ ReadCurrent(r) \/ Reply(r) \/ Reread(r) \/ HandlerDeletes(r)
             \/ MarkRunningRaises(r)
      PROVE  RowTypes'
  BY <1>1, <1>2 DEF Lookup, Acknowledge, AcknowledgeAgain, Forward, EnsureActive,
     ActionRaises, Persist, Confirm, ReadCurrent, Reply, Reread, HandlerDeletes,
     MarkRunningRaises
<1>3. ASSUME NEW r \in Requests, Create(r) \/ Generate(r) \/ Route(r) PROVE RowTypes'
  BY <1>3 DEF Create, Generate, Route, row
<1>4. ASSUME NEW r \in Requests,
             \/ MarkRunning(r) \/ MarkRunningWhere(r) \/ HandlerCancels(r)
             \/ HandlerCancelsWhere(r)
      PROVE  RowTypes'
  BY <1>4 DEF MarkRunning, MarkRunningWhere, HandlerCancels, HandlerCancelsWhere
<1>5. ASSUME NEW r \in Requests, AppendProgressEvent(r) \/ WriteProgressEvents(r)
      PROVE  RowTypes'
  BY <1>5 DEF AppendProgressEvent, WriteProgressEvents
<1>6. ASSUME NEW r \in Requests, Complete(r) \/ StoreRaises(r) PROVE RowTypes'
  BY <1>6 DEF Complete, StoreRaises, CompletedStatus
<1>7. ASSUME NEW c \in Cancels, CancelStep(c) PROVE RowTypes'
  BY <1>7 DEF CancelStep, Cancel, CancelWhere, CancelRereads, CancelDeletes, row
<1>8. ASSUME Crash \/ UNCHANGED vars PROVE RowTypes'
  BY <1>1, <1>8 DEF Crash, vars
<1> QED BY <1>2, <1>3, <1>4, <1>5, <1>6, <1>7, <1>8 DEF Next, Step, Raise

LEMMA WorkTypesKept == Types /\ [Next]_vars => WorkTypes'
<1> SUFFICES ASSUME Types, [Next]_vars PROVE WorkTypes' OBVIOUS
<1> USE DEF Types, RowTypes, WorkTypes, Goto, Forget, Beyond, Marking, Running, Recording,
            Clearing, Ended
<1>1. ASSUME NEW r \in Requests,
             \/ Lookup(r) \/ Create(r) \/ Acknowledge(r) \/ AcknowledgeAgain(r)
             \/ Route(r) \/ Forward(r)
      PROVE  WorkTypes'
  BY <1>1 DEF Lookup, Create, Acknowledge, AcknowledgeAgain, Route, Forward
<1>2. ASSUME NEW r \in Requests,
             \/ Generate(r) \/ MarkRunning(r) \/ MarkRunningWhere(r) \/ MarkRunningRaises(r)
      PROVE  WorkTypes'
  BY <1>2 DEF Generate, MarkRunning, MarkRunningWhere, MarkRunningRaises
<1>3. ASSUME NEW r \in Requests,
             \/ AppendProgressEvent(r) \/ WriteProgressEvents(r) \/ EnsureActive(r)
             \/ ActionRaises(r)
      PROVE  WorkTypes'
  <2>1. CASE AppendProgressEvent(r)
    <3>1. progress \in SUBSET Requests OBVIOUS
    <3>2. UNCHANGED <<seen, project>> BY <2>1 DEF AppendProgressEvent
    <3>3. CASE Cancelled(r) /\ UNCHANGED held BY <3>2, <3>3 DEF Cancelled
    <3>4. CASE Goto(r, "check") /\ UNCHANGED <<held, value, raised>> BY <3>2, <3>4
    <3>5. CASE Goto(r, "append") /\ UNCHANGED <<value, raised>>
               /\ held' = [held EXCEPT ![r] = progress]
      <4>1. held' \in [Requests -> SUBSET Requests] BY <3>1, <3>5
      <4> QED BY <3>2, <3>5, <4>1
    <3> QED BY <2>1, <3>3, <3>4, <3>5 DEF AppendProgressEvent
  <2>2. CASE WriteProgressEvents(r) BY <2>2 DEF WriteProgressEvents
  <2>3. CASE EnsureActive(r) BY <2>3 DEF EnsureActive, Cancelled
  <2>4. CASE ActionRaises(r) BY <2>4 DEF ActionRaises
  <2> QED BY <1>3, <2>1, <2>2, <2>3, <2>4
<1>4. ASSUME NEW r \in Requests, Persist(r) \/ Confirm(r) \/ Reply(r) \/ Reread(r)
      PROVE  WorkTypes'
  BY <1>4 DEF Persist, Confirm, Reply, Reread
<1>5. ASSUME NEW r \in Requests, ReadCurrent(r) \/ Complete(r) \/ StoreRaises(r)
      PROVE  WorkTypes'
  BY <1>5 DEF ReadCurrent, Complete, StoreRaises, Recorded
<1>6. ASSUME NEW r \in Requests,
             HandlerCancels(r) \/ HandlerCancelsWhere(r) \/ HandlerDeletes(r)
      PROVE  WorkTypes'
  BY <1>6 DEF HandlerCancels, HandlerCancelsWhere, HandlerDeletes, DeleteProjects, Delete
<1>7. ASSUME NEW c \in Cancels, CancelStep(c) PROVE WorkTypes'
  BY <1>7 DEF CancelStep, Cancel, CancelWhere, CancelRereads, CancelDeletes, work,
     DeleteProjects, Delete
<1>8. ASSUME Crash \/ UNCHANGED vars PROVE WorkTypes'
  BY <1>8 DEF Crash, Lost, vars, work
<1> QED BY <1>1, <1>2, <1>3, <1>4, <1>5, <1>6, <1>7, <1>8 DEF Next, Step, Raise

LEMMA OtherTypesKept == Types /\ [Next]_vars => OtherTypes'
<1> SUFFICES ASSUME Types, [Next]_vars PROVE OtherTypes' OBVIOUS
<1> USE JobsAssumption DEF Types, RowTypes, OtherTypes, config, ghosts, cancelling
<1>1. ASSUME UNCHANGED <<config, cancelling, ghosts, events, faults, crashes>>
      PROVE  OtherTypes'
  BY <1>1
<1>2. ASSUME NEW r \in Requests,
             \/ Lookup(r) \/ Create(r) \/ Route(r) \/ MarkRunning(r) \/ MarkRunningWhere(r)
             \/ EnsureActive(r) \/ ActionRaises(r) \/ Persist(r) \/ Confirm(r)
             \/ ReadCurrent(r) \/ Complete(r) \/ Reread(r) \/ HandlerCancels(r)
             \/ HandlerCancelsWhere(r) \/ HandlerDeletes(r)
      PROVE  OtherTypes'
  BY <1>1, <1>2 DEF Lookup, Create, Route, MarkRunning, MarkRunningWhere, EnsureActive,
     ActionRaises, Persist, Confirm, ReadCurrent, Complete, Reread, HandlerCancels,
     HandlerCancelsWhere, HandlerDeletes
<1>3. ASSUME NEW r \in Requests,
             \/ Acknowledge(r) \/ AcknowledgeAgain(r) \/ Forward(r) \/ Generate(r)
             \/ AppendProgressEvent(r) \/ WriteProgressEvents(r) \/ Reply(r)
      PROVE  OtherTypes'
  BY <1>3 DEF Acknowledge, AcknowledgeAgain, Forward, Generate, AppendProgressEvent,
     WriteProgressEvents, Reply, Publish
<1>4. Fault => faults' \in 0..MaxFailures BY DEF Fault
<1>5. ASSUME NEW r \in Requests, Raise(r) PROVE OtherTypes'
  BY <1>4, <1>5 DEF Raise, MarkRunningRaises, StoreRaises
<1>6. ASSUME NEW c \in Cancels, CancelStep(c) PROVE OtherTypes'
  BY <1>6 DEF CancelStep, Cancel, CancelWhere, CancelRereads, CancelDeletes, CancelGoto,
     row, JobStatuses
<1>7. ASSUME Crash PROVE OtherTypes'
  <2>1. crashes' \in 0..MaxFailures BY <1>7 DEF Crash
  <2> QED BY <1>7, <2>1 DEF Crash, Lost, JobStatuses
<1>8. ASSUME UNCHANGED vars PROVE OtherTypes'
  BY <1>8 DEF vars
<1> QED BY <1>2, <1>3, <1>5, <1>6, <1>7, <1>8 DEF Next, Step

LEMMA PlacesFitKept == Types /\ PlacesFit /\ [Next]_vars => PlacesFit'
<1> SUFFICES ASSUME Types, PlacesFit, [Next]_vars PROVE PlacesFit' OBVIOUS
<1> kind \in {"server", "agent", "frontend"} BY JobsAssumption DEF Types, OtherTypes
<1> USE DEF Types, WorkTypes, OtherTypes, PlacesFit, Goto, At, config, cancelling
<1>1. ASSUME NEW r \in Requests,
             \/ Lookup(r) \/ Create(r) \/ Acknowledge(r) \/ AcknowledgeAgain(r)
             \/ Route(r) \/ Forward(r) \/ Generate(r)
      PROVE  PlacesFit'
  <2> USE DEF Marking, Running, Recording, Clearing, ghosts
  <2>1. CASE Lookup(r) \/ Create(r) BY <2>1 DEF Lookup, Create
  <2>2. CASE Acknowledge(r) BY <2>2 DEF Acknowledge
  <2>3. CASE AcknowledgeAgain(r) \/ Route(r) \/ Forward(r)
    BY <2>3 DEF AcknowledgeAgain, Route, Forward
  <2>4. CASE Generate(r) BY <2>4 DEF Generate
  <2> QED BY <1>1, <2>1, <2>2, <2>3, <2>4
<1>2. ASSUME NEW r \in Requests,
             \/ MarkRunning(r) \/ MarkRunningWhere(r) \/ MarkRunningRaises(r)
      PROVE  PlacesFit'
  BY <1>2 DEF Marking, Running, Recording, Clearing, Forget,
     MarkRunning, MarkRunningWhere, MarkRunningRaises, ghosts
<1>3. ASSUME NEW r \in Requests,
             \/ AppendProgressEvent(r) \/ WriteProgressEvents(r) \/ EnsureActive(r)
             \/ ActionRaises(r)
      PROVE  PlacesFit'
  BY <1>3 DEF Marking, Running, Recording, Clearing, Cancelled,
     AppendProgressEvent, WriteProgressEvents, EnsureActive, ActionRaises, ghosts
<1>4. ASSUME NEW r \in Requests, Persist(r) \/ Confirm(r) \/ Reply(r) \/ Reread(r)
      PROVE  PlacesFit'
  <2> USE DEF Marking, Running, Recording, Clearing, ghosts
  <2>1. CASE Persist(r) BY <2>1 DEF Persist
  <2>2. CASE Confirm(r) \/ Reread(r) BY <2>2 DEF Confirm, Reread
  <2>3. CASE Reply(r) BY <2>3 DEF Reply
  <2> QED BY <1>4, <2>1, <2>2, <2>3
<1>5. ASSUME NEW r \in Requests, ReadCurrent(r) \/ Complete(r) \/ StoreRaises(r)
      PROVE  PlacesFit'
  <2> USE DEF Marking, Running, Recording, Clearing, Forget, ghosts
  <2>1. CASE ReadCurrent(r) BY <2>1 DEF ReadCurrent, Recorded
  <2>2. CASE Complete(r) BY <2>2 DEF Complete, Recorded
  <2>3. CASE StoreRaises(r) BY <2>3 DEF StoreRaises
  <2> QED BY <1>5, <2>1, <2>2, <2>3
<1>6. ASSUME NEW r \in Requests,
             HandlerCancels(r) \/ HandlerCancelsWhere(r) \/ HandlerDeletes(r)
      PROVE  PlacesFit'
  BY <1>6 DEF Marking, Running, Recording, Clearing, Forget, Cancellable,
     HandlerCancels, HandlerCancelsWhere, HandlerDeletes, ghosts
<1>7. ASSUME NEW c \in Cancels, CancelStep(c) PROVE PlacesFit'
  BY <1>7 DEF CancelStep, Cancel, CancelWhere, CancelRereads, CancelDeletes, CancelGoto,
     Cancellable, row, work, ghosts
<1>8. ASSUME Crash PROVE PlacesFit'
  BY <1>8 DEF Crash, Lost, Ended, Marking, Running, Recording, Clearing, ghosts
<1>9. ASSUME UNCHANGED vars PROVE PlacesFit'
  BY <1>9 DEF vars, work, ghosts
<1> QED BY <1>1, <1>2, <1>3, <1>4, <1>5, <1>6, <1>7, <1>8, <1>9 DEF Next, Step, Raise

\* A row is never removed.
LEMMA RowStays == Types /\ PlacesFit /\ [Next]_vars => (status # "none" => status' # "none")
<1> SUFFICES ASSUME Types, PlacesFit, [Next]_vars, status # "none" PROVE status' # "none"
  OBVIOUS
<1>1. ASSUME NEW r \in Requests, Step(r), status' # status PROVE status' # "none"
  <2>1. ASSUME Complete(r) PROVE status' # "none"
    BY <2>1 DEF Complete, CompletedStatus, PlacesFit, Recording, At
  <2> QED BY <1>1, <2>1 DEF Step, Lookup, Create, Acknowledge, AcknowledgeAgain, Route,
     Forward, Generate, MarkRunning, MarkRunningWhere, AppendProgressEvent,
     WriteProgressEvents, EnsureActive, ActionRaises, Persist, Confirm, ReadCurrent, Reply,
     Reread, HandlerCancels, HandlerCancelsWhere, HandlerDeletes, row
<1>2. ASSUME NEW r \in Requests, Raise(r) PROVE status' # "none"
  BY <1>2 DEF Raise, MarkRunningRaises, StoreRaises, CompletedStatus, PlacesFit,
     Recording, At, row
<1>3. ASSUME NEW c \in Cancels, CancelStep(c) PROVE status' # "none"
  BY <1>3 DEF CancelStep, Cancel, CancelWhere, CancelRereads, CancelDeletes, row
<1> QED BY <1>1, <1>2, <1>3 DEF Next, Crash, vars, row

\* A request begins to act only where it creates the row.
LEMMA ActingGrows ==
  Types /\ [Next]_vars =>
    \/ Acting' \subseteq Acting
    \/ \E r \in Requests : status = "none" /\ status' # "none" /\ Acting' \subseteq Acting \cup {r}
    \/ kind = "frontend" /\ status' # "none"
<1> SUFFICES ASSUME Types, [Next]_vars
             PROVE  \/ Acting' \subseteq Acting
                    \/ \E r \in Requests : /\ status = "none" /\ status' # "none"
                                           /\ Acting' \subseteq Acting \cup {r}
                    \/ kind = "frontend" /\ status' # "none"
  OBVIOUS
<1>1. ASSUME NEW r \in Requests, NEW l, Goto(r, l), pc[r] \in Beyond,
             started' \subseteq started \cup {r}, forwarded' \subseteq forwarded \cup {r}
      PROVE  Acting' \subseteq Acting
  BY <1>1 DEF Acting, Goto, Types, WorkTypes
<1>2. ASSUME NEW r \in Requests, NEW l, Goto(r, l), l \notin Beyond,
             UNCHANGED <<started, forwarded>>
      PROVE  Acting' \subseteq Acting
  BY <1>2 DEF Acting, Goto, Types, WorkTypes
<1>3. ASSUME NEW r \in Requests, Lookup(r) \/ AcknowledgeAgain(r) PROVE Acting' \subseteq Acting
  <2>1. \A l \in {"create", "again", "rejected", "done"} : l \notin Beyond
    BY DEF Beyond, Marking, Running, Recording, Clearing
  <2> QED BY <1>2, <1>3, <2>1 DEF Lookup, AcknowledgeAgain, ghosts
<1>4. ASSUME NEW r \in Requests, Create(r)
      PROVE  \/ Acting' \subseteq Acting
             \/ status = "none" /\ status' # "none" /\ Acting' \subseteq Acting \cup {r}
  <2>1. CASE status = "none" /\ Goto(r, "ack")
    BY <1>4, <2>1 DEF Create, ghosts, Acting, Goto, Types, WorkTypes
  <2>2. CASE Goto(r, "again") \/ Goto(r, "rejected")
    BY <1>2, <1>4, <2>2 DEF Create, ghosts, Beyond, Marking, Running, Recording, Clearing
  <2> QED BY <1>4, <2>1, <2>2 DEF Create
<1>5. ASSUME NEW r \in Requests,
             \/ Acknowledge(r) \/ Route(r) \/ Forward(r) \/ MarkRunning(r)
             \/ MarkRunningWhere(r) \/ AppendProgressEvent(r) \/ WriteProgressEvents(r)
             \/ EnsureActive(r) \/ ActionRaises(r) \/ Persist(r) \/ Confirm(r)
             \/ ReadCurrent(r) \/ Complete(r) \/ Reply(r) \/ Reread(r)
             \/ HandlerCancels(r) \/ HandlerCancelsWhere(r) \/ HandlerDeletes(r) \/ Raise(r)
      PROVE  Acting' \subseteq Acting
  <2>1. pc[r] \in Beyond
    BY <1>5 DEF At, Beyond, Marking, Running, Recording, Clearing, Acknowledge, Route,
       Forward, MarkRunning, MarkRunningWhere, AppendProgressEvent, WriteProgressEvents,
       EnsureActive, ActionRaises, Persist, Confirm, ReadCurrent, Complete, Reply, Reread,
       HandlerCancels, HandlerCancelsWhere, HandlerDeletes, Raise, MarkRunningRaises,
       StoreRaises
  <2>2. started' \subseteq started \cup {r} /\ forwarded' \subseteq forwarded \cup {r}
    BY <1>5 DEF ghosts, Acknowledge, Route,
       Forward, MarkRunning, MarkRunningWhere, AppendProgressEvent, WriteProgressEvents,
       EnsureActive, ActionRaises, Persist, Confirm, ReadCurrent, Complete, Reply, Reread,
       HandlerCancels, HandlerCancelsWhere, HandlerDeletes, Raise, MarkRunningRaises,
       StoreRaises
  <2>3. \E l : Goto(r, l)
    BY <1>5 DEF Cancelled, Acknowledge, Route,
       Forward, MarkRunning, MarkRunningWhere, AppendProgressEvent, WriteProgressEvents,
       EnsureActive, ActionRaises, Persist, Confirm, ReadCurrent, Complete, Reply, Reread,
       HandlerCancels, HandlerCancelsWhere, HandlerDeletes, Raise, MarkRunningRaises,
       StoreRaises
  <2> QED BY <1>1, <2>1, <2>2, <2>3
<1>6. ASSUME \/ \E c \in Cancels : CancelStep(c)
             \/ UNCHANGED vars
      PROVE  Acting' \subseteq Acting
  BY <1>6 DEF CancelStep, Cancel, CancelWhere, CancelRereads, CancelDeletes, vars, work,
     ghosts, Acting
<1>7. ASSUME Crash PROVE Acting' \subseteq Acting
  BY <1>7 DEF Crash, Lost, Ended, ghosts, Acting, Beyond, Marking, Running, Recording, Clearing
<1>8. \A r \in Requests : Generate(r) => kind = "frontend" /\ status' # "none"
  BY DEF Generate
<1> QED BY <1>3, <1>4, <1>5, <1>6, <1>7, <1>8 DEF Next, Step

LEMMA ConfigKept == [Next]_vars => UNCHANGED config
<1> SUFFICES ASSUME [Next]_vars PROVE UNCHANGED config OBVIOUS
<1>1. ASSUME NEW r \in Requests, Step(r) PROVE UNCHANGED config
  BY <1>1 DEF Step, Lookup, Create, Acknowledge, AcknowledgeAgain, Route,
     Forward, Generate, MarkRunning, MarkRunningWhere, AppendProgressEvent,
     WriteProgressEvents, EnsureActive, ActionRaises, Persist, Confirm, ReadCurrent,
     Complete, Reply, Reread, HandlerCancels, HandlerCancelsWhere, HandlerDeletes
<1>2. ASSUME NEW r \in Requests, Raise(r) PROVE UNCHANGED config
  BY <1>2 DEF Raise, MarkRunningRaises, StoreRaises
<1>3. ASSUME NEW c \in Cancels, CancelStep(c) PROVE UNCHANGED config
  BY <1>3 DEF CancelStep, Cancel, CancelWhere, CancelRereads, CancelDeletes
<1> QED BY <1>1, <1>2, <1>3 DEF Next, Crash, vars

LEMMA OneKept == Types /\ PlacesFit /\ One /\ [Next]_vars => One'
<1> SUFFICES ASSUME Types, PlacesFit, One, [Next]_vars
             PROVE  /\ (Acting # {} => status # "none")'
                    /\ kind # "frontend" => \A r, s \in Acting' : r = s
  BY ConfigKept DEF config, One
<1>1. status # "none" => status' # "none" BY RowStays
<1> QED BY <1>1, ActingGrows DEF One

LEMMA RowFitsKept ==
  Types /\ PlacesFit /\ One /\ RowFits /\ [Next]_vars => RowFits'
<1> SUFFICES ASSUME Types, PlacesFit, One, RowFits, [Next]_vars, kind = "server"
             PROVE  RowFits'
  BY ConfigKept DEF config, RowFits
<1>1. kind' = "server" BY ConfigKept DEF config
<1>2. ASSUME NEW r \in Requests, pc[r] \in Beyond
      PROVE  /\ \A s \in Requests : s # r => pc[s] \notin Beyond
             /\ \A t \in {"result", "error"}, s \in Requests : <<t, s>> \notin events
  <2>1. r \in Acting /\ \A s, q \in Acting : s = q BY <1>2 DEF One, Acting
  <2>2. \A s \in Requests : pc[s] \in Beyond \/ s \in started => s = r
    BY <2>1 DEF Acting
  <2>3. \A t \in {"result", "error"}, s \in Requests :
          <<t, s>> \in events => s \in started /\ pc[s] \notin Beyond
    BY DEF RowFits
  <2> QED BY <1>2, <2>2, <2>3
<1> USE <1>1 DEF RowFits, Types, RowTypes, WorkTypes, OtherTypes, JobStatuses,
                 TERMINAL_JOB_STATUSES, Completed, Marking, Running, Recording, Goto, At
<1>0. ASSUME NEW r \in Requests, NEW l, l \notin Beyond, Goto(r, l),
             UNCHANGED <<status, seen, value, started>>,
             \A t \in {"result", "error"}, s \in Requests :
               <<t, s>> \in events' => <<t, s>> \in events
      PROVE  RowFits'
  BY <1>0 DEF Beyond
<1>3. ASSUME NEW r \in Requests, Lookup(r) PROVE RowFits'
  <2>1. \E l : l \notin Beyond /\ Goto(r, l) BY <1>3 DEF Lookup, Beyond, Clearing
  <2> QED BY <1>0, <1>3, <2>1 DEF Lookup, row, ghosts
<1>4. ASSUME NEW r \in Requests, Create(r) PROVE RowFits'
  <2>1. CASE status = "none" /\ Goto(r, "ack") /\ status' = "queued"
    <3>1. \A s \in Requests : pc[s] \notin Beyond /\ s \notin started
      BY <2>1 DEF One, Acting
    <3> QED BY <1>4, <2>1, <3>1 DEF Create, ghosts, Beyond
  <2>2. CASE (Goto(r, "again") \/ Goto(r, "rejected")) /\ UNCHANGED row
    <3>1. \E l : l \notin Beyond /\ Goto(r, l) BY <2>2 DEF Beyond, Clearing
    <3> QED BY <1>0, <1>4, <2>2, <3>1 DEF Create, row, ghosts
  <2> QED BY <1>4, <2>1, <2>2 DEF Create
<1>5. ASSUME NEW r \in Requests, Acknowledge(r) PROVE RowFits'
  BY <1>2, <1>5 DEF Acknowledge, Publish, row, Beyond
<1>6. ASSUME NEW r \in Requests, AcknowledgeAgain(r) PROVE RowFits'
  <2>1. \E l : l \notin Beyond /\ Goto(r, l) BY <1>6 DEF AcknowledgeAgain, Beyond, Clearing
  <2> QED BY <1>0, <1>6, <2>1 DEF AcknowledgeAgain, Publish, row, ghosts
<1>7. ASSUME NEW r \in Requests, MarkRunning(r) PROVE RowFits'
  BY <1>2, <1>7 DEF MarkRunning, ghosts, Beyond
<1>8. ASSUME NEW r \in Requests, MarkRunningWhere(r) PROVE RowFits'
  BY <1>2, <1>8 DEF MarkRunningWhere, ghosts, Beyond, Forget, PlacesFit
<1>9. ASSUME NEW r \in Requests,
             \/ AppendProgressEvent(r) \/ WriteProgressEvents(r) \/ EnsureActive(r)
             \/ ActionRaises(r) \/ Persist(r)
      PROVE  RowFits'
  <2>1. /\ \A s \in Requests : s # r => pc[s] \notin Beyond
        /\ \A t \in {"result", "error"}, s \in Requests : <<t, s>> \notin events
    BY <1>2, <1>9 DEF AppendProgressEvent, WriteProgressEvents, EnsureActive,
       ActionRaises, Persist, Beyond
  <2>2. status' = status /\ events' = events /\ status \in {"running", "cancelled"}
    BY <1>9 DEF AppendProgressEvent, WriteProgressEvents, EnsureActive,
       ActionRaises, Persist, row
  <2>3. \E l \in Running \cup {"read"} : Goto(r, l)
    BY <1>9 DEF AppendProgressEvent, WriteProgressEvents, EnsureActive,
       ActionRaises, Persist, Cancelled
  <2> QED BY <2>1, <2>2, <2>3 DEF Beyond
<1>10. ASSUME NEW r \in Requests, ReadCurrent(r) PROVE RowFits'
  BY <1>2, <1>10 DEF ReadCurrent, Recorded, row, ghosts, Beyond
<1>11. ASSUME NEW r \in Requests, Complete(r) PROVE RowFits'
  <2>1. status' \in {value[r], "cancelled"}
    BY <1>11 DEF Complete, CompletedStatus, Completable
  <2>2. status' \in Completed \cup {"cancelled"} BY <1>11, <2>1 DEF Complete, PlacesFit
  <2> QED BY <1>2, <1>11, <2>1, <2>2 DEF Complete, Recorded, ghosts, Beyond
<1>12. ASSUME NEW r \in Requests, Reply(r) PROVE RowFits'
  <2>1. r \in started /\ value[r] # "none" BY <1>12 DEF Reply, PlacesFit
  <2>2. \A s \in Requests : s # r => pc'[s] = pc[s] /\ pc[s] \notin Beyond
    BY <1>2, <1>12 DEF Reply, Beyond
  <2>3. pc'[r] = "done" /\ UNCHANGED <<status, seen, value, started>>
    BY <1>12 DEF Reply, row, ghosts
  <2>4. \A t \in {"result", "error"}, s \in Requests :
          <<t, s>> \in events' => s = r /\ (t = "error" <=> value[r] = "failed")
    BY <1>2, <1>12 DEF Reply, Publish, Beyond
  <2>5. status \in {value[r], "cancelled"} BY <1>12 DEF Reply
  <2> QED BY <2>1, <2>2, <2>3, <2>4, <2>5 DEF Beyond, Clearing
<1>13. ASSUME NEW r \in Requests, MarkRunningRaises(r) PROVE RowFits'
  BY <1>2, <1>13 DEF MarkRunningRaises, row, ghosts, Beyond
<1>14. ASSUME NEW r \in Requests, StoreRaises(r) PROVE RowFits'
  <2>1. pc[r] \in Recording /\ value[r] \in Completed
    BY <1>14 DEF StoreRaises, PlacesFit, Clearing
  <2>2. status' \in {"running", "cancelled"} \cup Completed
    BY <1>14, <2>1 DEF StoreRaises, CompletedStatus
  <2> QED BY <1>2, <1>14, <2>1, <2>2 DEF StoreRaises, ghosts, Beyond
<1>15. ASSUME NEW c \in Cancels, CancelStep(c) PROVE RowFits'
  <2>1. /\ status' = status \/ (status' = "cancelled" /\ status \in {"queued", "running"})
        /\ UNCHANGED <<work, started, events>>
    BY <1>15 DEF CancelStep, Cancel, CancelWhere, CancelRereads, CancelDeletes, row,
       ghosts, Cancellable, PlacesFit
  <2> QED BY <2>1 DEF work
<1>16. ASSUME Crash PROVE RowFits'
  BY <1>16 DEF Crash, Lost, Ended, row, ghosts, Beyond
<1>17. ASSUME UNCHANGED vars PROVE RowFits'
  BY <1>17 DEF vars, row, work, ghosts
<1>18. \A r \in Requests :
         ~(\/ Route(r) \/ Forward(r) \/ Generate(r) \/ Confirm(r) \/ Reread(r)
           \/ HandlerCancels(r) \/ HandlerCancelsWhere(r) \/ HandlerDeletes(r))
  BY DEF PlacesFit, Clearing, Route, Forward, Generate, Confirm, Reread, HandlerCancels,
     HandlerCancelsWhere, HandlerDeletes
<1> QED BY <1>3, <1>4, <1>5, <1>6, <1>7, <1>8, <1>9, <1>10, <1>11, <1>12, <1>13, <1>14,
           <1>15, <1>16, <1>17, <1>18 DEF Next, Step, Raise

LEMMA CancelFitsKept ==
  Types /\ PlacesFit /\ RowFits /\ CancelFits /\ [Next]_vars => CancelFits'
<1> SUFFICES ASSUME Types, PlacesFit, RowFits, CancelFits, [Next]_vars,
                    kind = "server", backend = "sqlite"
             PROVE  CancelFits'
  BY ConfigKept DEF config, CancelFits
<1>1. kind' = "server" /\ backend' = "sqlite" BY ConfigKept DEF config
<1> USE <1>1 DEF CancelFits, Types, OtherTypes
<1>2. ASSUME UNCHANGED cpc, status \in TERMINAL_JOB_STATUSES => status' \in TERMINAL_JOB_STATUSES
      PROVE  CancelFits'
  BY <1>2
<1>3. ASSUME NEW r \in Requests, Step(r) PROVE CancelFits'
  <2>1. cpc' = cpc
    BY <1>3 DEF cancelling, Step, Lookup, Create, Acknowledge, AcknowledgeAgain, Route,
     Forward, Generate, MarkRunning, MarkRunningWhere, AppendProgressEvent,
     WriteProgressEvents, EnsureActive, ActionRaises, Persist, Confirm, ReadCurrent,
     Complete, Reply, Reread, HandlerCancels, HandlerCancelsWhere, HandlerDeletes
  <2>2. Complete(r) => (status \in TERMINAL_JOB_STATUSES => status' \in TERMINAL_JOB_STATUSES)
    BY DEF Complete, CompletedStatus, PlacesFit, Recording, WorkTypes, At,
       TERMINAL_JOB_STATUSES
  <2>3. ~(Route(r) \/ Generate(r) \/ MarkRunningWhere(r))
    BY DEF Route, Generate, MarkRunningWhere, At, PlacesFit
  <2>4. status \in TERMINAL_JOB_STATUSES => status' \in TERMINAL_JOB_STATUSES
    BY <1>3, <2>2, <2>3 DEF row, TERMINAL_JOB_STATUSES,
     Step, Lookup, Create, Acknowledge, AcknowledgeAgain,
     Forward, MarkRunning, AppendProgressEvent,
     WriteProgressEvents, EnsureActive, ActionRaises, Persist, Confirm, ReadCurrent,
     Reply, Reread, HandlerCancels, HandlerCancelsWhere, HandlerDeletes
  <2> QED BY <1>2, <2>1, <2>4
<1>4. ASSUME NEW r \in Requests, Raise(r) PROVE CancelFits'
  <2>1. cpc' = cpc BY <1>4 DEF cancelling, Raise, MarkRunningRaises, StoreRaises
  <2>2. StoreRaises(r) => status' = status \/ status' \in TERMINAL_JOB_STATUSES \/ status' = value[r]
    BY DEF StoreRaises, CompletedStatus
  <2>3. StoreRaises(r) => value[r] \in TERMINAL_JOB_STATUSES
    BY DEF StoreRaises, PlacesFit, Recording, WorkTypes, TERMINAL_JOB_STATUSES
  <2>4. MarkRunningRaises(r) => status' = status BY DEF MarkRunningRaises, row
  <2> QED BY <1>2, <1>4, <2>1, <2>2, <2>3, <2>4 DEF Raise
<1>5. ASSUME NEW c \in Cancels, Cancel(c) PROVE CancelFits'
  <2>1. status' \in TERMINAL_JOB_STATUSES
    BY <1>5 DEF Cancel, Cancellable, TERMINAL_JOB_STATUSES
  <2> QED BY <2>1
<1>6. ASSUME NEW c \in Cancels, CancelRereads(c) \/ CancelDeletes(c) PROVE CancelFits'
  BY <1>6 DEF CancelRereads, CancelDeletes, CancelGoto, row
<1>7. ASSUME NEW c \in Cancels PROVE ~CancelWhere(c)
  BY DEF CancelWhere, PlacesFit
<1>8. ASSUME Crash PROVE CancelFits'
  BY <1>8 DEF Crash, Lost, Ended, row
<1>9. ASSUME UNCHANGED vars PROVE CancelFits'
  BY <1>9 DEF vars, row, cancelling
<1> QED BY <1>3, <1>4, <1>5, <1>6, <1>7, <1>8, <1>9 DEF Next, CancelStep

LEMMA EventsFitKept ==
  Types /\ PlacesFit /\ One /\ EventsFit /\ [Next]_vars => EventsFit'
<1> SUFFICES ASSUME Types, PlacesFit, One, EventsFit, [Next]_vars PROVE EventsFit' OBVIOUS
<1>1. backend' = backend BY ConfigKept DEF config
<1>2. status = "none" => emitted = {} BY DEF One, Acting, EventsFit
<1> DEFINE Alone(S) == backend = "sqlite" \/ Cardinality(S) <= 1
<1>3. \A r \in Requests : /\ IsFiniteSet(started \cup {r})
                          /\ Alone(started \cup {r}) => Alone(started)
  <2>1. ASSUME NEW r \in Requests
        PROVE  /\ IsFiniteSet(started \cup {r})
               /\ Cardinality(started) <= Cardinality(started \cup {r})
               /\ Cardinality(started) \in Nat /\ Cardinality(started \cup {r}) \in Nat
    <3>1. IsFiniteSet(started) BY DEF EventsFit
    <3>2. IsFiniteSet(started \cup {r}) BY <3>1, FS_AddElement
    <3> QED BY <3>1, <3>2, FS_Subset, FS_CardinalityType
  <2> QED BY <2>1
<1>4. ASSUME started' = started \/ \E r \in Requests : started' = started \cup {r},
             emitted' = emitted, progress' = progress
      PROVE  EventsFit'
  BY <1>1, <1>2, <1>3, <1>4 DEF EventsFit, ProgressComplete
<1>5. ASSUME NEW r \in Requests, Create(r) PROVE EventsFit'
  <2>1. CASE status = "none"
    <3>1. emitted' = {} /\ started' = started /\ emitted = {}
      BY <1>2, <1>5, <2>1 DEF Create, ghosts
    <3> QED BY <3>1 DEF EventsFit, ProgressComplete
  <2>2. CASE UNCHANGED row BY <1>4, <1>5, <2>2 DEF Create, row, ghosts
  <2> QED BY <1>5, <2>1, <2>2 DEF Create
<1>6. ASSUME NEW r \in Requests, Generate(r) PROVE EventsFit'
  BY <1>3, <1>6 DEF Generate, EventsFit, ProgressComplete
<1>7. ASSUME NEW r \in Requests, AppendProgressEvent(r) PROVE EventsFit'
  <2>1. r \in started /\ started' = started BY <1>7 DEF AppendProgressEvent, PlacesFit, Running, At
  <2>2. CASE UNCHANGED <<progress, emitted>> BY <1>4, <2>1, <2>2
  <2>3. CASE progress' = progress \cup {r} /\ emitted' = emitted \cup {r}
    BY <1>1, <1>2, <2>1, <2>3 DEF EventsFit, ProgressComplete
  <2> QED BY <1>7, <2>2, <2>3 DEF AppendProgressEvent
<1>8. ASSUME NEW r \in Requests, WriteProgressEvents(r) PROVE EventsFit'
  <2>1. /\ backend = "supabase" /\ r \in started /\ started' = started
        /\ emitted' = emitted \cup {r} /\ r \in progress'
    BY <1>8 DEF WriteProgressEvents, PlacesFit, Running, At
  <2>2. Cardinality(started) <= 1 => started = {r}
    <3>1. IsFiniteSet(started) BY DEF EventsFit
    <3> QED BY <2>1, <3>1, FS_CardinalityType, FS_EmptySet, FS_Singleton
  <2> QED BY <1>1, <1>2, <2>1, <2>2 DEF EventsFit, ProgressComplete
<1>9. ASSUME NEW r \in Requests,
             \/ Lookup(r) \/ Acknowledge(r) \/ AcknowledgeAgain(r) \/ Route(r) \/ Forward(r)
             \/ MarkRunning(r) \/ MarkRunningWhere(r) \/ EnsureActive(r) \/ ActionRaises(r)
             \/ Persist(r) \/ Confirm(r) \/ ReadCurrent(r) \/ Complete(r) \/ Reply(r)
             \/ Reread(r) \/ HandlerCancels(r) \/ HandlerCancelsWhere(r)
             \/ HandlerDeletes(r) \/ Raise(r)
      PROVE  EventsFit'
  BY <1>4, <1>9 DEF row, ghosts, Lookup, Acknowledge, AcknowledgeAgain, Route, Forward,
     MarkRunning, MarkRunningWhere, EnsureActive, ActionRaises, Persist, Confirm,
     ReadCurrent, Complete, Reply, Reread, HandlerCancels, HandlerCancelsWhere,
     HandlerDeletes, Raise, MarkRunningRaises, StoreRaises
<1>10. ASSUME \/ \E c \in Cancels : CancelStep(c)
              \/ Crash \/ UNCHANGED vars
       PROVE  EventsFit'
  BY <1>4, <1>10 DEF CancelStep, Cancel, CancelWhere, CancelRereads, CancelDeletes, Crash,
     vars, row, ghosts
<1> QED BY <1>5, <1>6, <1>7, <1>8, <1>9, <1>10 DEF Next, Step

LEMMA RememberedKept == Types /\ PlacesFit /\ Remembered /\ [Next]_vars => Remembered'
<1> SUFFICES ASSUME Types, PlacesFit, Remembered, [Next]_vars, kind = "frontend", Unfailing'
             PROVE  Remembered'
  BY ConfigKept DEF config, Remembered
<1>1. Unfailing /\ \A r \in Requests : ~Raise(r)
  BY DEF Unfailing, Types, OtherTypes, Next, Step, Raise, MarkRunningRaises, StoreRaises,
     Fault, Lookup, Create, Acknowledge, AcknowledgeAgain, Route,
     Forward, Generate, MarkRunning, MarkRunningWhere, AppendProgressEvent,
     WriteProgressEvents, EnsureActive, ActionRaises, Persist, Confirm, ReadCurrent,
     Complete, Reply, Reread, HandlerCancels, HandlerCancelsWhere, HandlerDeletes,
     CancelStep, Cancel, CancelWhere, CancelRereads, CancelDeletes, Crash, vars
<1>2. ~Crash BY DEF Crash, Unfailing, Types, OtherTypes
<1> DEFINE Young == {"idle"} \cup Marking \cup Running
<1> DEFINE Watched == \/ \A r \in Requests : project[r] = "active" => pc[r] \in Attending
                      \/ \E r \in Requests : pc[r] = "delete"
                      \/ \E c \in Cancels : cpc[c] \in {"reread", "delete"}
<1>3. /\ \A r \in Requests : project[r] = "active" => ~raised[r]
      /\ \A r \in Requests : pc[r] \in Young => project[r] = "none" /\ ~raised[r]
      /\ status = "cancelled" => Watched
  BY <1>1 DEF Remembered
<1>4. SUFFICES /\ \A r \in Requests : project'[r] = "active" => ~raised'[r]
               /\ \A r \in Requests : pc'[r] \in Young => project'[r] = "none" /\ ~raised'[r]
               /\ status' = "cancelled" => Watched'
  BY DEF Remembered
<1> HIDE DEF Young, Watched
<1>5. ASSUME NEW r \in Requests, NEW l, Goto(r, l), UNCHANGED <<project, cpc>>,
             status' = "cancelled" => status = "cancelled",
             \/ raised' = raised /\ (l \in Young => pc[r] \in Young)
             \/ raised' = [raised EXCEPT ![r] = TRUE] /\ pc[r] \in Young /\ l \notin Young,
             status' # "cancelled" \/ pc[r] \in Young \/ l \in Attending, pc[r] # "delete"
      PROVE  /\ \A q \in Requests : project'[q] = "active" => ~raised'[q]
             /\ \A q \in Requests : pc'[q] \in Young => project'[q] = "none" /\ ~raised'[q]
             /\ status' = "cancelled" => Watched'
  <2>1. \A q \in Requests : pc'[q] = IF q = r THEN l ELSE pc[q]
    BY <1>5 DEF Goto, Types, WorkTypes
  <2>2. \A q \in Requests : raised'[q] = raised[q] \/ (q = r /\ pc[r] \in Young /\ l \notin Young)
    BY <1>5 DEF Types, WorkTypes
  <2>3. ASSUME status' = "cancelled" PROVE Watched'
    <3>1. status = "cancelled" /\ Watched BY <1>3, <1>5, <2>3
    <3>2. project[r] = "active" => pc'[r] \in Attending BY <1>3, <1>5, <2>1, <2>3
    <3> QED BY <1>5, <2>1, <3>1, <3>2 DEF Watched
  <2> QED BY <1>3, <1>5, <2>1, <2>2, <2>3
<1> DEFINE Done == /\ \A r \in Requests : project'[r] = "active" => ~raised'[r]
                   /\ \A r \in Requests : pc'[r] \in Young => project'[r] = "none" /\ ~raised'[r]
                   /\ (status' = "cancelled" => Watched')
<1> USE DEF At, Young, Attending, Marking, Running, Recording, Clearing
<1>6. ASSUME NEW r \in Requests, Generate(r) PROVE Done
  BY <1>3, <1>6 DEF Generate, Goto, Types, WorkTypes
<1>7. ASSUME NEW r \in Requests, MarkRunning(r) \/ MarkRunningWhere(r) PROVE Done
  <2>1. \E l \in Young : Goto(r, l) BY <1>7 DEF MarkRunning, MarkRunningWhere
  <2>2. UNCHANGED <<project, cpc, raised>> /\ (status' = "cancelled" => status = "cancelled")
    BY <1>7 DEF MarkRunning, MarkRunningWhere, cancelling
  <2> QED BY <1>5, <1>7, <2>1, <2>2 DEF MarkRunning, MarkRunningWhere
<1>8. ASSUME NEW r \in Requests,
             AppendProgressEvent(r) \/ WriteProgressEvents(r) \/ EnsureActive(r) \/ ActionRaises(r)
      PROVE  Done
  <2>1. UNCHANGED <<status, project, cpc>> /\ pc[r] \in Young
    BY <1>8 DEF AppendProgressEvent, WriteProgressEvents, EnsureActive, ActionRaises,
       cancelling, row
  <2>2. \/ raised' = raised /\ \E l : Goto(r, l)
        \/ raised' = [raised EXCEPT ![r] = TRUE] /\ Goto(r, "read")
    BY <1>8 DEF AppendProgressEvent, WriteProgressEvents, EnsureActive, ActionRaises, Cancelled
  <2> QED BY <1>5, <2>1, <2>2
<1>9. ASSUME NEW r \in Requests, Persist(r) PROVE Done
  <2>1. \A q \in Requests : /\ project'[q] = IF q = r THEN "active" ELSE project[q]
                            /\ pc'[q] = IF q = r THEN "confirm" ELSE pc[q]
    BY <1>9 DEF Persist, Goto, Types, WorkTypes
  <2>2. UNCHANGED <<status, cpc, raised>> /\ pc[r] \in Young
    BY <1>9 DEF Persist, row, cancelling
  <2> QED BY <1>3, <2>1, <2>2 DEF Watched
<1>10. ASSUME NEW r \in Requests,
              Confirm(r) \/ ReadCurrent(r) \/ Reread(r) \/ Complete(r)
       PROVE  Done
  <2>1. /\ UNCHANGED <<project, cpc, raised>>
        /\ status' # status => status' \in {"none", "succeeded", "partial", "failed"}
    BY <1>10 DEF Confirm, ReadCurrent, Reread, Complete, CompletedStatus, cancelling, row,
       Types, WorkTypes
  <2>2. pc[r] \in {"confirm", "read", "reread", "write"}
    BY <1>10 DEF Confirm, ReadCurrent, Reread, Complete
  <2>3. \E l \in {"cancel", "read", "write", "done", "reread"} : Goto(r, l)
    BY <1>10 DEF Confirm, ReadCurrent, Reread, Complete, Recorded
  <2>4. CASE status' = "cancelled" /\ project[r] = "active"
    <3>1. status = "cancelled" /\ ~raised[r] BY <1>3, <2>1, <2>4
    <3>2. \E l \in {"cancel", "read", "write", "reread"} : Goto(r, l)
      BY <1>10, <3>1 DEF Confirm, ReadCurrent, Reread, Complete, Recorded
    <3> QED BY <1>5, <2>1, <2>2, <3>1, <3>2
  <2>5. CASE status' # "cancelled" BY <1>5, <2>1, <2>2, <2>3, <2>5
  <2>6. CASE status' = "cancelled" /\ project[r] # "active"
    <3>1. \A q \in Requests : q # r => pc'[q] = pc[q] BY <2>3 DEF Goto
    <3>2. pc'[r] \notin Young BY <2>3 DEF Goto, Types, WorkTypes
    <3>3. status = "cancelled" /\ Watched BY <1>3, <2>1, <2>6
    <3> QED BY <1>3, <2>1, <2>2, <2>6, <3>1, <3>2, <3>3 DEF Watched
  <2> QED BY <2>4, <2>5, <2>6
<1>11. ASSUME NEW r \in Requests, HandlerCancels(r) \/ HandlerCancelsWhere(r) PROVE Done
  <2>1. UNCHANGED <<project, cpc, raised>>
    BY <1>11 DEF HandlerCancels, HandlerCancelsWhere, cancelling
  <2>2. CASE Goto(r, "delete")
    BY <1>3, <2>1, <2>2 DEF Goto, Watched, Types, WorkTypes
  <2>3. CASE Goto(r, "cancelwhere") /\ status' = status
    BY <1>5, <1>11, <2>1, <2>3 DEF HandlerCancels, HandlerCancelsWhere
  <2> QED BY <1>11, <2>2, <2>3 DEF HandlerCancels, HandlerCancelsWhere
<1>12. ASSUME DeleteProjects, UNCHANGED raised,
              pc' = pc \/ \E r \in Requests : Goto(r, "done")
       PROVE  Done
  <2>1. \A q \in Requests : project'[q] # "active" /\ (project[q] = "none" => project'[q] = "none")
    BY <1>12 DEF DeleteProjects, Delete
  <2>2. \A q \in Requests : pc'[q] \in Young => pc[q] \in Young
    BY <1>12 DEF Goto, Types, WorkTypes
  <2> QED BY <1>3, <1>12, <2>1, <2>2 DEF Watched
<1>13. ASSUME NEW r \in Requests, HandlerDeletes(r) PROVE Done
  BY <1>12, <1>13 DEF HandlerDeletes
<1>14. ASSUME NEW c \in Cancels, CancelDeletes(c) PROVE Done
  BY <1>12, <1>14 DEF CancelDeletes, work
<1>15. ASSUME NEW c \in Cancels, Cancel(c) \/ CancelWhere(c) \/ CancelRereads(c)
       PROVE  Done
  <2>1. UNCHANGED <<pc, project, raised>>
    BY <1>15 DEF Cancel, CancelWhere, CancelRereads, work
  <2>2. \E l : /\ cpc' = [cpc EXCEPT ![c] = l]
               /\ status' = "cancelled" => \/ l \in {"reread", "delete"}
                                           \/ status = "cancelled" /\ cpc[c] \notin {"reread", "delete"}
    BY <1>15 DEF Cancel, CancelWhere, CancelRereads, CancelGoto, Cancellable,
       TERMINAL_JOB_STATUSES, row
  <2>3. PICK l : /\ \A d \in Cancels : cpc'[d] = IF d = c THEN l ELSE cpc[d]
                 /\ status' = "cancelled" =>
                      \/ l \in {"reread", "delete"}
                      \/ status = "cancelled" /\ cpc[c] \notin {"reread", "delete"}
    BY <2>2 DEF Types, OtherTypes
  <2> QED BY <1>3, <2>1, <2>3 DEF Watched
<1>16. ASSUME UNCHANGED vars PROVE Done
  BY <1>3, <1>16 DEF vars, row, work, cancelling, Watched
<1>17. \A r \in Requests :
         ~(\/ Lookup(r) \/ Create(r) \/ Acknowledge(r) \/ AcknowledgeAgain(r) \/ Route(r)
           \/ Forward(r) \/ Reply(r))
  BY DEF PlacesFit, Lookup, Create, Acknowledge, AcknowledgeAgain, Route, Forward, Reply
<1> QED BY <1>1, <1>2, <1>6, <1>7, <1>8, <1>9, <1>10, <1>11, <1>13, <1>14, <1>15, <1>16,
           <1>17 DEF Next, Step, CancelStep

-----------------------------------------------------------------------------
(* The inductive invariant, and what follows from it. *)

IInv == Types /\ PlacesFit /\ One /\ RowFits /\ CancelFits /\ EventsFit /\ Remembered

LEMMA InitIInv == Init => IInv
<1> SUFFICES ASSUME Init PROVE IInv OBVIOUS
<1> USE DEF Init
<1>1. Types
  <2>1. owner \in Messages /\ 0 \in 0..MaxFailures BY JobsAssumption
  <2> QED BY <2>1, JobsAssumption DEF Types, RowTypes, WorkTypes, OtherTypes, JobStatuses
<1>2. PlacesFit
  BY DEF PlacesFit, Marking, Running, Recording, Clearing
<1>3. One
  <2>1. Acting = {} BY DEF Acting, Beyond, Marking, Running, Recording, Clearing
  <2> QED BY <2>1 DEF One
<1>4. RowFits /\ CancelFits
  BY DEF RowFits, CancelFits, Marking, Running, Recording
<1>5. EventsFit
  BY FS_EmptySet DEF EventsFit, ProgressComplete
<1>6. Remembered BY DEF Remembered
<1> QED BY <1>1, <1>2, <1>3, <1>4, <1>5, <1>6 DEF IInv

LEMMA NextIInv == IInv /\ [Next]_vars => IInv'
<1> SUFFICES ASSUME IInv, [Next]_vars PROVE IInv' OBVIOUS
<1>1. Types' BY RowTypesKept, WorkTypesKept, OtherTypesKept DEF IInv, Types
<1>2. PlacesFit' /\ One' /\ RowFits' BY PlacesFitKept, OneKept, RowFitsKept DEF IInv
<1>3. CancelFits' /\ EventsFit' /\ Remembered'
  BY CancelFitsKept, EventsFitKept, RememberedKept DEF IInv
<1> QED BY <1>1, <1>2, <1>3 DEF IInv

\* Every behaviour satisfies the inductive invariant.
THEOREM JobsInvariant == Spec => []IInv
BY InitIInv, NextIInv, PTL DEF Spec

\* The row, the handlers and the cancellations keep their types, for any
\* number of requests and cancellations and on both stores.
THEOREM JobsTypes == Spec => []TypeOK
<1>1. IInv => TypeOK BY TypesAreTypeOK DEF IInv
<1> QED BY <1>1, JobsInvariant, PTL

\* Of all the submissions of a job's message, one at most runs its action or
\* forwards it, however they interleave, fail or are repeated after a crash.
THEOREM EffectsAreAtMostOnce == Spec => []EffectsAtMostOnce
<1>1. IInv => EffectsAtMostOnce BY DEF IInv, One, Acting, EffectsAtMostOnce
<1> QED BY <1>1, JobsInvariant, PTL

\* What the sender of a message is told is what its row says.
THEOREM RepliesAgreeWithRow == Spec => []ReplyAgreesWithRow
<1>1. IInv => ReplyAgreesWithRow BY DEF IInv, RowFits, ReplyAgreesWithRow
<1> QED BY <1>1, JobsInvariant, PTL

\* On SQLite an answered cancellation has found the job ended or ended it.
THEOREM CancelsTakeEffect == Spec => []CancelTakesEffect
<1>1. IInv => CancelTakesEffect BY DEF IInv, CancelFits, CancelTakesEffect
<1> QED BY <1>1, JobsInvariant, PTL

\* No reported event is missing from the row on SQLite, nor on Supabase as
\* long as one handler was started.
THEOREM ProgressIsComplete == Spec => []ProgressComplete
<1>1. IInv => ProgressComplete BY DEF IInv, EventsFit
<1> QED BY <1>1, JobsInvariant, PTL

\* A cancelled generation leaves no project behind when all have ended and
\* nothing failed, for any number of requests and cancellations.
THEOREM CancelledLeavesNoProjects == Spec => []CancelledLeavesNoProject
<1>1. IInv => CancelledLeavesNoProject
  <2> SUFFICES ASSUME IInv, kind = "frontend", status = "cancelled", Unfailing,
                      \A r \in Requests : pc[r] \in Ended \cup {"idle"},
                      \A c \in Cancels : cpc[c] \in {"idle", "done"}
               PROVE  \A r \in Requests : project[r] # "active"
    BY DEF CancelledLeavesNoProject, Unfailing
  <2>1. \/ \A r \in Requests : project[r] = "active" => pc[r] \in Attending
        \/ \E r \in Requests : pc[r] = "delete"
        \/ \E c \in Cancels : cpc[c] \in {"reread", "delete"}
    BY DEF IInv, Remembered
  <2> QED BY <2>1 DEF Ended, Attending, Clearing
<1> QED BY <1>1, JobsInvariant, PTL

\* The row of a server's job does what JobLifecycle promises: it is created
\* once, started before it is finished, and left alone when it is cancelled.
THEOREM JobsImplementLifecycle == Spec => ImplementsLifecycle
<1> DEFINE shown == IF kind = "server" THEN status ELSE "none"
<1>1. Init => Lifecycle!Init BY DEF Init, Lifecycle!Init
<1>2. IInv /\ [Next]_vars => [Lifecycle!Next]_shown
  <2> SUFFICES ASSUME IInv, [Next]_vars, kind = "server", status' # status
               PROVE  Lifecycle!Next
    BY ConfigKept DEF config
  <2>1. kind' = "server" BY ConfigKept DEF config
  <2> USE <2>1 DEF Lifecycle!Next, Lifecycle!Create, Lifecycle!Start, Lifecycle!Finish,
                   Lifecycle!Cancel, Lifecycle!Finished
  <2> USE DEF IInv, RowFits, PlacesFit, Types, WorkTypes, At, Marking, Running, Recording,
              Clearing, Completed
  <2>2. ASSUME NEW r \in Requests, Create(r) PROVE Lifecycle!Next
    BY <2>2 DEF Create, row
  <2>3. ASSUME NEW r \in Requests, MarkRunning(r) \/ MarkRunningWhere(r)
        PROVE  Lifecycle!Next
    BY <2>3 DEF MarkRunning, MarkRunningWhere, TERMINAL_JOB_STATUSES
  <2>4. ASSUME NEW r \in Requests, Complete(r) \/ StoreRaises(r) PROVE Lifecycle!Next
    <3>1. status' = value[r] /\ Completable(r) /\ pc[r] = "write"
      BY <2>4 DEF Complete, StoreRaises, CompletedStatus
    <3>2. status # "cancelled" BY <3>1 DEF Completable
    <3> QED BY <3>1, <3>2
  <2>5. ASSUME NEW c \in Cancels, CancelStep(c) PROVE Lifecycle!Next
    BY <2>5 DEF CancelStep, Cancel, CancelWhere, CancelRereads, CancelDeletes, Cancellable,
       TERMINAL_JOB_STATUSES, row
  <2>6. \A r \in Requests :
          ~(\/ Route(r) \/ Generate(r) \/ HandlerCancels(r) \/ HandlerCancelsWhere(r))
    BY DEF Route, Generate, HandlerCancels, HandlerCancelsWhere
  <2>7. \A r \in Requests :
          ~(\/ Lookup(r) \/ Acknowledge(r) \/ AcknowledgeAgain(r) \/ Forward(r)
            \/ AppendProgressEvent(r) \/ WriteProgressEvents(r) \/ EnsureActive(r)
            \/ ActionRaises(r) \/ Persist(r) \/ Confirm(r) \/ ReadCurrent(r) \/ Reply(r)
            \/ Reread(r) \/ HandlerDeletes(r) \/ MarkRunningRaises(r))
    BY DEF row, Lookup, Acknowledge, AcknowledgeAgain, Forward, AppendProgressEvent,
       WriteProgressEvents, EnsureActive, ActionRaises, Persist, Confirm, ReadCurrent,
       Reply, Reread, HandlerDeletes, MarkRunningRaises
  <2>8. ~Crash /\ ~UNCHANGED vars BY DEF Crash, vars, row
  <2> QED BY <2>2, <2>3, <2>4, <2>5, <2>6, <2>7, <2>8 DEF Next, Step, Raise
<1> QED BY <1>1, <1>2, JobsInvariant, PTL DEF Spec, ImplementsLifecycle, Lifecycle!Spec
=============================================================================
