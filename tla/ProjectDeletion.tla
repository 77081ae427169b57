--------------------------- MODULE ProjectDeletion ---------------------------
(***************************************************************************)
(* The deletion of one project: the calls of its owner that delete it,     *)
(* restore it or withdraw the consent to a contribution, the removal of a  *)
(* project that a cancelled job has stored, and the workers of several     *)
(* servers that purge it when its retention is over.  A worker may fail,   *)
(* die or be slow; its claim is taken over when it is stale.  The gallery  *)
(* is read through a cache.  Time is what is ahead and what is over.       *)
(* Left out: audits, the rows of the gallery beside the project's own, and *)
(* the granting of consent.  A call ends before the retention it began.    *)
(***************************************************************************)
EXTENDS Naturals, FiniteSets

CONSTANTS
  Callers, Workers, Readers, None,
  MaxCalls, MaxClaims, MaxFaults  \* bounds on the owner's calls, on the claims
                                  \* of purges and on failures and crashes

ASSUME DeletionAssumption ==
  /\ MaxCalls \in Nat /\ MaxClaims \in Nat /\ MaxFaults \in Nat
  /\ Callers \cap Workers = {}
  /\ None \notin {"ahead", "over", "granted", "withdrawn", "unlinked", "pending", "anonymized"}

VARIABLES
  status,             \* of the project's row; "gone" when there is none
  deadline,           \* purge_after: none, ahead or over
  claim, stale,       \* purge_started_at, 0 if null, and whether it is too old
  whole,              \* no object of the project has been deleted
  consent, snapshot,  \* the consent of the owner and what was kept for it
  pc, seen,           \* of each process: where it is; the row that it has read
  mine,               \* the claim of each worker
  missed,             \* history: an invalidation has been lost
  hasty,              \* history: a purge was claimed before its time
  calls, claims, faults,
  entry, reading      \* of the cache

row == <<status, deadline, claim, stale>>
data == <<whole, consent, snapshot>>
bounds == <<calls, claims, faults>>
cache == <<entry, reading>>
vars == <<row, data, pc, seen, mine, missed, hasty, bounds, cache>>

Visible == IF status = "active" THEN "shown" ELSE "hidden"

ListCache == INSTANCE ProjectListCache WITH
  content <- Visible, Contents <- {"shown", "hidden"}

Row == [status |-> status, deadline |-> deadline, claim |-> claim]

Procs == Callers \cup Workers

Init ==
  /\ status = "active" /\ deadline = None /\ claim = 0 /\ stale = FALSE
  /\ whole = TRUE /\ consent \in {None, "granted"} /\ snapshot = None
  /\ pc = [p \in Procs |-> "idle"] /\ seen = [p \in Procs |-> None]
  /\ mine = [w \in Workers |-> 0] /\ missed = FALSE /\ hasty = FALSE
  /\ calls = 0 /\ claims = 0 /\ faults = 0
  /\ ListCache!Init

At(p, l) == pc[p] = l
Goto(p, l) == pc' = [pc EXCEPT ![p] = l]
Call(c) == At(c, "idle") /\ calls < MaxCalls /\ calls' = calls + 1
Fault == faults < MaxFaults /\ faults' = faults + 1

\* update_project_deletion_state: one conditional update of the row.
SetRow(s, d, c) ==
  status' = s /\ deadline' = d /\ claim' = c /\ stale' = FALSE

-----------------------------------------------------------------------------
(* Every update is followed by the invalidation of the cached lists. *)

Notified(l) ==
  CASE l = "delete.notify" -> "delete.consent"
    [] l = "restore.notify" -> "restore.publish"
    [] OTHER -> "idle"

Notifying(p) == pc[p] \in {"delete.notify", "restore.notify", "undo.notify", "clean.notify"}

Notify(c) ==
  /\ Notifying(c) /\ ListCache!Invalidate
  /\ Goto(c, Notified(pc[c])) /\ missed' = FALSE
  /\ UNCHANGED <<row, data, seen, mine, bounds, hasty>>

\* Redis is not reachable, or is not asked since it was not a moment ago.
NotifyFails(c) ==
  /\ Notifying(c) /\ Fault
  /\ Goto(c, Notified(pc[c])) /\ missed' = TRUE
  /\ UNCHANGED <<row, data, seen, mine, calls, claims, cache, hasty>>

CacheStep ==
  /\ \/ \E r \in Readers : ListCache!ReaderStep(r) /\ UNCHANGED missed
     \/ ListCache!Expire
        /\ missed' = (missed /\ \E r \in Readers : reading[r].current)
  /\ UNCHANGED <<row, data, pc, seen, mine, bounds, hasty>>

-----------------------------------------------------------------------------
(* request_project_deletion *)

Delete(c) ==
  /\ Call(c) /\ status = "active"
  /\ SetRow("deletion_pending", "ahead", 0) /\ Goto(c, "delete.notify")
  /\ UNCHANGED <<data, seen, mine, missed, claims, faults, cache, hasty>>

ReadConsent(c) ==
  /\ At(c, "delete.consent")
  /\ Goto(c, IF consent = "granted" THEN "delete.snapshot" ELSE "idle")
  /\ UNCHANGED <<row, data, seen, mine, missed, bounds, cache, hasty>>

\* A failure is recorded and passed over.
KeepSnapshot(c) ==
  /\ At(c, "delete.snapshot")
  /\ \/ snapshot' = "pending" /\ Goto(c, "delete.renew")
     \/ UNCHANGED snapshot /\ Goto(c, "idle")
  /\ UNCHANGED <<row, whole, consent, seen, mine, missed, bounds, cache, hasty>>

\* The consent is written back as it was read, not withdrawn; a failure is
\* passed over here too.
RenewConsent(c) ==
  /\ At(c, "delete.renew")
  /\ consent' \in {consent, IF consent = "unlinked" THEN consent ELSE "granted"}
  /\ Goto(c, "idle")
  /\ UNCHANGED <<row, whole, snapshot, seen, mine, missed, bounds, cache, hasty>>

\* _delete_cancelled_generation_projects sets no time to purge the project.
CleanUp(c) ==
  /\ Call(c) /\ status = "active"
  /\ SetRow("deletion_pending", deadline, claim) /\ Goto(c, "clean.notify")
  /\ UNCHANGED <<data, seen, mine, missed, claims, faults, cache, hasty>>

-----------------------------------------------------------------------------
(* restore_project *)

Restore(c) ==
  /\ Call(c)
  /\ status = "deletion_pending" /\ claim = 0 /\ deadline # "over"
  /\ seen' = [seen EXCEPT ![c] = Row] /\ Goto(c, "restore.update")
  /\ UNCHANGED <<row, data, mine, missed, claims, faults, cache, hasty>>

\* [Fault] What was read is trusted.
RestorableAlways == status # "gone"

Restorable == status = "deletion_pending"

RestoreUpdate(c) ==
  /\ At(c, "restore.update")
  /\ IF Restorable THEN SetRow("active", None, 0) /\ Goto(c, "restore.notify")
                        /\ UNCHANGED seen
     ELSE UNCHANGED row /\ Goto(c, "idle") /\ seen' = [seen EXCEPT ![c] = None]
  /\ UNCHANGED <<data, mine, missed, bounds, cache, hasty>>

\* A gallery that cannot be rebuilt undoes the restoration.
RestorePublish(c) ==
  /\ At(c, "restore.publish")
  /\ \/ Goto(c, "restore.snapshots") /\ UNCHANGED <<row, seen, faults>>
     \/ /\ Fault
        /\ IF status = "active"
           THEN SetRow("deletion_pending", seen[c].deadline, claim) /\ Goto(c, "undo.notify")
           ELSE UNCHANGED row /\ Goto(c, "idle")
        /\ seen' = [seen EXCEPT ![c] = None]
  /\ UNCHANGED <<data, mine, missed, calls, claims, cache, hasty>>

RestoreSnapshots(c) ==
  /\ At(c, "restore.snapshots")
  /\ snapshot' = IF consent # None /\ snapshot = "pending" THEN None ELSE snapshot
  /\ Goto(c, "idle") /\ seen' = [seen EXCEPT ![c] = None]
  /\ UNCHANGED <<row, whole, consent, mine, missed, bounds, cache, hasty>>

-----------------------------------------------------------------------------
(* withdraw_contribution *)

Withdraw(c) ==
  /\ Call(c) /\ consent \in {"granted", "withdrawn"} /\ status # "gone"
  /\ consent' = "withdrawn" /\ Goto(c, "withdraw.snapshots")
  /\ UNCHANGED <<row, whole, snapshot, seen, mine, missed, claims, faults, cache, hasty>>

WithdrawSnapshots(c) ==
  /\ At(c, "withdraw.snapshots")
  /\ snapshot' = IF snapshot = "pending" THEN None ELSE snapshot
  /\ Goto(c, "idle")
  /\ UNCHANGED <<row, whole, consent, seen, mine, missed, bounds, cache, hasty>>

-----------------------------------------------------------------------------
(* purge_due_projects and purge_project *)

Due == status \in {"deletion_pending", "deletion_failed", "purging"} /\ deadline = "over"

List(w) ==
  /\ At(w, "idle") /\ Due /\ Goto(w, "purge.read")
  /\ UNCHANGED <<row, data, seen, mine, missed, bounds, cache, hasty>>

\* [Fault] Only a purge that has failed is taken up again.
ClaimableIfFailed == status \in {"deletion_pending", "deletion_failed"}

Claimable ==
  \/ status \in {"deletion_pending", "deletion_failed"}
  \/ status = "purging" /\ stale

Read(w) ==
  /\ At(w, "purge.read")
  /\ IF Claimable THEN seen' = [seen EXCEPT ![w] = Row] /\ Goto(w, "purge.claim")
     ELSE UNCHANGED seen /\ Goto(w, "idle")
  /\ UNCHANGED <<row, data, mine, missed, bounds, cache, hasty>>

\* A purge that is taken over must still have the claim that was read.  Nothing
\* compares the deadline: a project that was restored and deleted again since it
\* was read is claimed before its time.
Claim(w) ==
  /\ At(w, "purge.claim") /\ claims < MaxClaims
  /\ IF status = seen[w].status /\ (status = "purging" => claim = seen[w].claim)
     THEN /\ claims' = claims + 1 /\ mine' = [mine EXCEPT ![w] = claims']
          /\ hasty' = (hasty \/ deadline # "over")
          /\ SetRow("purging", deadline, claims') /\ Goto(w, "purge.objects")
          /\ ListCache!Invalidate /\ missed' = FALSE
     ELSE UNCHANGED <<row, claims, mine, missed, hasty, cache>> /\ Goto(w, "idle")
  /\ seen' = [seen EXCEPT ![w] = None]
  /\ UNCHANGED <<data, calls, faults>>

\* Images, videos, artifacts and jobs.
DeleteObjects(w) ==
  /\ At(w, "purge.objects") /\ whole' = FALSE /\ Goto(w, "purge.consent")
  /\ UNCHANGED <<row, consent, snapshot, seen, mine, missed, bounds, cache, hasty>>

\* [Fault] A consent that was withdrawn is taken to have left nothing.
ReadGrantedConsent(w) ==
  /\ At(w, "purge.consent")
  /\ Goto(w, IF consent = "granted" THEN "purge.anonymize" ELSE "purge.row")
  /\ UNCHANGED <<row, data, seen, mine, missed, bounds, cache, hasty>>

ReadPurgedConsent(w) ==
  /\ At(w, "purge.consent")
  /\ Goto(w, CASE consent = "granted" -> "purge.anonymize"
               [] consent = "withdrawn" -> "purge.snapshots"
               [] OTHER -> "purge.row")
  /\ UNCHANGED <<row, data, seen, mine, missed, bounds, cache, hasty>>

PurgeSnapshot(w) ==
  /\ pc[w] \in {"purge.anonymize", "purge.snapshots"}
  /\ snapshot' = IF snapshot # "pending" THEN snapshot
                 ELSE IF At(w, "purge.anonymize") THEN "anonymized" ELSE None
  /\ Goto(w, "purge.unlink")
  /\ UNCHANGED <<row, whole, consent, seen, mine, missed, bounds, cache, hasty>>

Unlink(w) ==
  /\ At(w, "purge.unlink")
  /\ consent' = "unlinked" /\ Goto(w, "purge.row")
  /\ UNCHANGED <<row, whole, snapshot, seen, mine, missed, bounds, cache, hasty>>

\* The row is deleted whatever claim it shows, if it is still there.
HardPurge(w) ==
  /\ At(w, "purge.row")
  /\ SetRow("gone", None, 0) /\ Goto(w, "idle") /\ mine' = [mine EXCEPT ![w] = 0]
  /\ IF status = "gone" THEN UNCHANGED <<missed, cache>>
     ELSE ListCache!Invalidate /\ missed' = FALSE
  /\ UNCHANGED <<data, seen, bounds, hasty>>

Working(w) ==
  pc[w] \in {"purge.objects", "purge.consent", "purge.anonymize", "purge.snapshots",
             "purge.unlink", "purge.row"}

\* [Fault] The row is marked whoever holds the claim.
HoldsAnyClaim(w) == status = "purging"

HoldsClaim(w) == status = "purging" /\ claim = mine[w]

\* Any stage may raise.
Fail(w) ==
  /\ Working(w) /\ Fault
  /\ IF HoldsClaim(w)
     THEN /\ status' = "deletion_failed" /\ UNCHANGED <<deadline, claim, stale>>
          /\ ListCache!Invalidate /\ missed' = FALSE
     ELSE UNCHANGED <<row, missed, cache>>
  /\ Goto(w, "idle") /\ mine' = [mine EXCEPT ![w] = 0]
  /\ UNCHANGED <<data, seen, calls, claims, hasty>>

-----------------------------------------------------------------------------
(* Time and crashes. *)

\* The calls that delete are over long before the retention is.
RetentionEnds ==
  /\ deadline = "ahead"
  /\ \A c \in Callers :
       pc[c] \notin {"delete.notify", "delete.consent", "delete.snapshot", "delete.renew"}
  /\ deadline' = "over"
  /\ UNCHANGED <<status, claim, stale, data, pc, seen, mine, missed, bounds, cache, hasty>>

ClaimAges ==
  /\ status = "purging" /\ ~stale /\ stale' = TRUE
  /\ UNCHANGED <<status, deadline, claim, data, pc, seen, mine, missed, bounds, cache, hasty>>

Crash(p) ==
  /\ ~At(p, "idle") /\ Fault
  /\ Goto(p, "idle") /\ seen' = [seen EXCEPT ![p] = None]
  /\ mine' = [w \in Workers |-> IF w = p THEN 0 ELSE mine[w]]
  /\ missed' = (missed \/ Notifying(p))
  /\ UNCHANGED <<row, data, calls, claims, cache, hasty>>

CallerStep(c) ==
  \/ Notify(c) \/ NotifyFails(c) \/ ReadConsent(c) \/ KeepSnapshot(c) \/ RenewConsent(c)
  \/ RestoreUpdate(c) \/ RestorePublish(c) \/ RestoreSnapshots(c) \/ WithdrawSnapshots(c)

WorkerStep(w) ==
  \/ List(w) \/ Read(w) \/ Claim(w) \/ DeleteObjects(w) \/ ReadPurgedConsent(w)
  \/ PurgeSnapshot(w) \/ Unlink(w) \/ HardPurge(w)

Next ==
  \/ \E c \in Callers :
       Delete(c) \/ CleanUp(c) \/ Restore(c) \/ Withdraw(c) \/ CallerStep(c)
  \/ \E w \in Workers : WorkerStep(w) \/ Fail(w)
  \/ CacheStep \/ RetentionEnds \/ ClaimAges
  \/ \E p \in Procs : Crash(p)

Spec == Init /\ [][Next]_vars

FairSpec ==
  /\ Spec /\ WF_vars(ClaimAges)
  /\ \A w \in Workers : WF_vars(WorkerStep(w))

-----------------------------------------------------------------------------
(* Properties. *)

RowStatuses == {"active", "deletion_pending", "purging", "deletion_failed", "gone"}

Locations ==
  {"idle", "delete.notify", "delete.consent", "delete.snapshot", "delete.renew",
   "restore.update", "restore.notify", "restore.publish", "restore.snapshots",
   "undo.notify", "clean.notify", "withdraw.snapshots", "purge.read", "purge.claim",
   "purge.objects", "purge.consent", "purge.anonymize", "purge.snapshots",
   "purge.unlink", "purge.row"}

TypeOK ==
  /\ status \in RowStatuses /\ deadline \in {None, "ahead", "over"}
  /\ claim \in 0..MaxClaims /\ stale \in BOOLEAN /\ whole \in BOOLEAN
  /\ consent \in {None, "granted", "withdrawn", "unlinked"}
  /\ snapshot \in {None, "pending", "anonymized"}
  /\ pc \in [Procs -> Locations]
  /\ seen \in [Procs -> {None} \cup [status : RowStatuses, deadline : {None, "ahead", "over"},
                                    claim : 0..MaxClaims]]
  /\ mine \in [Workers -> 0..MaxClaims] /\ missed \in BOOLEAN /\ hasty \in BOOLEAN
  /\ calls \in 0..MaxCalls /\ claims \in 0..MaxClaims /\ faults \in 0..MaxFaults
  /\ ListCache!CacheTypeOK

\* A project that its owner can open has lost nothing and nobody is deleting
\* it: no restoration, in progress when a purge began or repeated after one
\* that failed halfway, brings it back.  (project_deletion.py:333, 410.)
ActiveIsWhole ==
  status = "active" => whole /\ \A w \in Workers : ~Working(w)

\* A purge that is marked as failed is not being carried out by the worker of
\* its last claim, however late an earlier worker fails.  (:448.)
FailedIsIdle ==
  status = "deletion_failed" => \A w \in Workers : Working(w) => mine[w] # claim

\* What new readers of the gallery are shown is what the database holds, unless
\* a writer is about to invalidate it or that was lost: a deleted project is
\* gone from the gallery when the call returns.  (project_list_cache.py:224.)
CacheIsCurrent ==
  entry \notin {None, Visible} => missed \/ \E c \in Callers : Notifying(c)

\* Not kept by the code, and checked by no run: once its owner has withdrawn,
\* nothing waits to be contributed.  (docs/project-deletion.md:19.)
WithdrawalHolds ==
  consent = "withdrawn" /\ (\A c \in Callers : ~At(c, "withdraw.snapshots"))
    => snapshot # "pending"

\* What was kept for a contribution does not outlive its project: once the project
\* is gone it is anonymized or deleted, whatever withdrawals, failures, deaths and
\* second workers met the purge, provided its retention was over.
\* (project_deletion.py:432, docs/project-deletion.md:19.)
NothingPendingIsLeft ==
  status = "gone" /\ ~hasty => snapshot # "pending"

\* A deletion that is due ends, unless its claims are used up: what a dead or
\* failed worker leaves behind is taken up again.  (:395, docs:9.)
DueEnds == Due ~> (status \in {"gone", "active"} \/ claims = MaxClaims)
=============================================================================
