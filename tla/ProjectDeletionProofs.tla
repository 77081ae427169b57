----------------------- MODULE ProjectDeletionProofs -----------------------
(***************************************************************************)
(* Theorems about the deletion of a project, for any number of callers,    *)
(* workers and readers: the types, that an active project is whole, that a *)
(* failed purge is nobody's, that the cached list is current, and that no  *)
(* snapshot is pending when the project is gone.                           *)
(*                                                                         *)
(* The inductive invariant says that objects are deleted, and workers are  *)
(* at work, only where no restoration can bring the project back (Intact), *)
(* that workers hold different claims (Claimed), and that a list that was  *)
(* read before a change of the project, in the cache or in the hands of a  *)
(* reader that may still store it, has an excuse (Fresh).  For the         *)
(* snapshots: no deletion is still at work when the retention is over      *)
(* (Prompt), nothing is kept without a consent (Consented) and, as long as *)
(* no purge was claimed before its time, nothing is kept behind the back   *)
(* of a purge and what it found is settled before it goes on (Orderly).    *)
(***************************************************************************)
EXTENDS ProjectDeletion, TLAPS

RowRecord == [status : RowStatuses, deadline : {None, "ahead", "over"},
              claim : 0..MaxClaims]

\* A restoration in progress knows the row that it has read, not yet due.
Held ==
  \A c \in Callers :
    pc[c] \in {"restore.update", "restore.notify", "restore.publish"}
      => seen[c] \in RowRecord /\ seen[c].deadline # "over"

\* No project that can be opened or restored is being purged.
Intact ==
  status \in {"active", "deletion_pending"} => whole /\ \A w \in Workers : ~Working(w)

Claimed ==
  /\ \A w \in Workers : mine[w] <= claims
  /\ \A u, w \in Workers : Working(u) /\ Working(w) /\ mine[u] = mine[w] => u = w
  /\ FailedIsIdle

\* What excuses a list that is not current.
Excused == missed \/ \E c \in Callers : Notifying(c)

Fresh ==
  /\ CacheIsCurrent
  /\ \A r \in Readers :
       reading[r].at = "store" /\ reading[r].current /\ reading[r].list # Visible => Excused

Deleting(c) ==
  pc[c] \in {"delete.notify", "delete.consent", "delete.snapshot", "delete.renew"}

Prompt == deadline = "over" => \A c \in Callers : ~Deleting(c)

Consented ==
  consent = None =>
    /\ snapshot # "pending"
    /\ \A c \in Callers : pc[c] \notin {"delete.snapshot", "delete.renew"}

Ended == {"purging", "deletion_failed", "gone"}

Orderly ==
  /\ status \in Ended => \A c \in Callers : ~Deleting(c)
  /\ status \in {"purging", "deletion_failed"} => deadline = "over"
  /\ consent = "unlinked" => status \in Ended /\ snapshot # "pending"
  /\ \A w \in Workers : pc[w] \in {"purge.unlink", "purge.row"} => snapshot # "pending"
  /\ status = "gone" => snapshot # "pending"

Settled == Prompt /\ Consented /\ (~hasty => Orderly)

RowOK ==
  /\ status \in RowStatuses /\ deadline \in {None, "ahead", "over"}
  /\ claim \in 0..MaxClaims /\ stale \in BOOLEAN /\ whole \in BOOLEAN
  /\ consent \in {None, "granted", "withdrawn", "unlinked"}
  /\ snapshot \in {None, "pending", "anonymized"}

BoundsOK ==
  /\ mine \in [Workers -> 0..MaxClaims] /\ missed \in BOOLEAN /\ hasty \in BOOLEAN
  /\ calls \in 0..MaxCalls /\ claims \in 0..MaxClaims /\ faults \in 0..MaxFaults

PlaceOK == pc \in [Procs -> Locations]
SeenOK == seen \in [Procs -> {None} \cup RowRecord]

LEMMA Parts == TypeOK <=> RowOK /\ BoundsOK /\ PlaceOK /\ SeenOK /\ ListCache!CacheTypeOK
BY DEF TypeOK, RowOK, BoundsOK, PlaceOK, SeenOK, RowRecord

LEMMA PlacesKept == PlaceOK /\ [Next]_vars => PlaceOK'
<1> SUFFICES ASSUME PlaceOK, [Next]_vars PROVE PlaceOK' OBVIOUS
<1>1. ASSUME NEW p, NEW l \in Locations, Goto(p, l) PROVE PlaceOK'
  BY <1>1 DEF Goto, PlaceOK
<1>2. ASSUME NEW c \in Callers,
             Delete(c) \/ CleanUp(c) \/ Restore(c) \/ Withdraw(c) \/ CallerStep(c)
      PROVE  PlaceOK'
  <2>1. Notified(pc[c]) \in Locations BY DEF Notified, Locations
  <2> QED BY <1>1, <1>2, <2>1 DEF Locations, CallerStep, Delete, CleanUp, Restore, Withdraw,
     Notify, NotifyFails, ReadConsent, KeepSnapshot, RenewConsent, RestoreUpdate,
     RestorePublish, RestoreSnapshots, WithdrawSnapshots
<1>3. ASSUME NEW w \in Workers, WorkerStep(w) \/ Fail(w) PROVE PlaceOK'
  BY <1>1, <1>3 DEF Locations, WorkerStep, List, Read, Claim, DeleteObjects,
     ReadPurgedConsent, PurgeSnapshot, Unlink, HardPurge, Fail
<1>4. ASSUME NEW p \in Procs, Crash(p) PROVE PlaceOK'
  BY <1>1, <1>4 DEF Locations, Crash
<1>5. ASSUME CacheStep \/ RetentionEnds \/ ClaimAges \/ UNCHANGED vars PROVE PlaceOK'
  BY <1>5 DEF CacheStep, RetentionEnds, ClaimAges, vars, PlaceOK
<1> QED BY <1>2, <1>3, <1>4, <1>5 DEF Next

LEMMA CacheKept == ListCache!CacheTypeOK /\ [Next]_vars => ListCache!CacheTypeOK'
<1> SUFFICES ASSUME ListCache!CacheTypeOK, [Next]_vars PROVE ListCache!CacheTypeOK' OBVIOUS
<1>1. ASSUME UNCHANGED cache PROVE ListCache!CacheTypeOK'
  BY <1>1 DEF cache, ListCache!CacheTypeOK
<1>2. ASSUME ListCache!Invalidate PROVE ListCache!CacheTypeOK'
  BY <1>2 DEF ListCache!Invalidate, ListCache!CacheTypeOK
<1>3. ASSUME NEW r \in Readers, ListCache!ReaderStep(r) PROVE ListCache!CacheTypeOK'
  <2> USE DEF ListCache!CacheTypeOK, ListCache!Idle
  <2>1. ASSUME ListCache!Lookup(r) PROVE ListCache!CacheTypeOK'
    BY <2>1 DEF ListCache!Lookup
  <2>2. ASSUME ListCache!Query(r) PROVE ListCache!CacheTypeOK'
    BY <2>2 DEF ListCache!Query, Visible
  <2>3. ASSUME ListCache!Store(r) PROVE ListCache!CacheTypeOK'
    BY <2>3 DEF ListCache!Store
  <2>4. ASSUME ListCache!StoreFails(r) PROVE ListCache!CacheTypeOK'
    BY <2>4 DEF ListCache!StoreFails
  <2> QED BY <1>3, <2>1, <2>2, <2>3, <2>4 DEF ListCache!ReaderStep
<1>4. ASSUME CacheStep PROVE ListCache!CacheTypeOK'
  BY <1>3, <1>4 DEF CacheStep, ListCache!Expire, ListCache!CacheTypeOK
<1>5. ASSUME NEW c \in Callers,
             Delete(c) \/ CleanUp(c) \/ Restore(c) \/ Withdraw(c) \/ CallerStep(c)
      PROVE  ListCache!CacheTypeOK'
  BY <1>1, <1>2, <1>5 DEF CallerStep, Delete, CleanUp, Restore, Withdraw,
     Notify, NotifyFails, ReadConsent, KeepSnapshot, RenewConsent, RestoreUpdate,
     RestorePublish, RestoreSnapshots, WithdrawSnapshots
<1>6. ASSUME NEW w \in Workers, WorkerStep(w) \/ Fail(w) PROVE ListCache!CacheTypeOK'
  BY <1>1, <1>2, <1>6 DEF WorkerStep, List, Read, Claim, DeleteObjects,
     ReadPurgedConsent, PurgeSnapshot, Unlink, HardPurge, Fail
<1>7. ASSUME RetentionEnds \/ ClaimAges \/ UNCHANGED vars \/ \E p \in Procs : Crash(p)
      PROVE  ListCache!CacheTypeOK'
  BY <1>1, <1>7 DEF RetentionEnds, ClaimAges, vars, Crash
<1> QED BY <1>4, <1>5, <1>6, <1>7 DEF Next

LEMMA BoundsKept == BoundsOK /\ [Next]_vars => BoundsOK'
<1> SUFFICES ASSUME BoundsOK, [Next]_vars PROVE BoundsOK' OBVIOUS
<1> USE DeletionAssumption DEF BoundsOK
<1>1. Fault => faults' \in 0..MaxFaults BY DEF Fault
<1>2. \A c \in Callers : Call(c) => calls' \in 0..MaxCalls BY DEF Call
<1>3. ASSUME NEW c \in Callers,
             Delete(c) \/ CleanUp(c) \/ Restore(c) \/ Withdraw(c) \/ CallerStep(c)
      PROVE  BoundsOK'
  BY <1>1, <1>2, <1>3 DEF CallerStep, Delete, CleanUp, Restore, Withdraw, bounds,
     Notify, NotifyFails, ReadConsent, KeepSnapshot, RenewConsent, RestoreUpdate,
     RestorePublish, RestoreSnapshots, WithdrawSnapshots
<1>4. ASSUME NEW w \in Workers, Claim(w) PROVE BoundsOK'
  <2>1. claims < MaxClaims => claims + 1 \in 0..MaxClaims OBVIOUS
  <2>2. missed' \in BOOLEAN /\ hasty' \in BOOLEAN /\ calls' = calls /\ faults' = faults
    BY <1>4 DEF Claim
  <2>3. CASE claims' = claims /\ mine' = mine BY <2>2, <2>3
  <2>4. CASE claims' = claims + 1 /\ mine' = [mine EXCEPT ![w] = claims']
    BY <1>4, <2>1, <2>2, <2>4 DEF Claim
  <2> QED BY <1>4, <2>3, <2>4 DEF Claim
<1>5. ASSUME NEW w \in Workers, HardPurge(w) \/ Fail(w) PROVE BoundsOK'
  <2>1. mine' = [mine EXCEPT ![w] = 0] /\ calls' = calls /\ claims' = claims
    BY <1>5 DEF HardPurge, Fail, bounds
  <2>2. missed' \in BOOLEAN /\ hasty' \in BOOLEAN /\ faults' \in 0..MaxFaults
    BY <1>1, <1>5 DEF HardPurge, Fail, bounds
  <2> QED BY <2>1, <2>2
<1>6. ASSUME NEW w \in Workers,
             \/ List(w) \/ Read(w) \/ DeleteObjects(w) \/ ReadPurgedConsent(w)
             \/ PurgeSnapshot(w) \/ Unlink(w)
      PROVE  BoundsOK'
  BY <1>6 DEF List, Read, DeleteObjects, ReadPurgedConsent, PurgeSnapshot, Unlink, bounds
<1>7. ASSUME NEW p \in Procs, Crash(p) PROVE BoundsOK'
  BY <1>1, <1>7 DEF Crash
<1>8. ASSUME CacheStep \/ RetentionEnds \/ ClaimAges \/ UNCHANGED vars PROVE BoundsOK'
  BY <1>8 DEF CacheStep, RetentionEnds, ClaimAges, vars, bounds
<1> QED BY <1>3, <1>4, <1>5, <1>6, <1>7, <1>8 DEF Next, WorkerStep

LEMMA RowKept == RowOK /\ BoundsOK /\ Held /\ [Next]_vars => RowOK'
<1> SUFFICES ASSUME RowOK, BoundsOK, Held, [Next]_vars PROVE RowOK' OBVIOUS
<1>1. claims \in 0..MaxClaims /\ MaxClaims \in Nat BY DeletionAssumption DEF BoundsOK
<1> USE DEF RowOK
<1>2. ASSUME NEW s \in RowStatuses, NEW d \in {None, "ahead", "over"}, NEW c \in 0..MaxClaims,
             SetRow(s, d, c), UNCHANGED data
      PROVE  RowOK'
  BY <1>2 DEF SetRow, data
<1>3. 0 \in 0..MaxClaims BY <1>1
<1>4. ASSUME NEW c \in Callers, Delete(c) \/ CleanUp(c) \/ RestoreUpdate(c) PROVE RowOK'
  BY <1>2, <1>3, <1>4 DEF RowStatuses, Delete, CleanUp, RestoreUpdate, row, data
<1>5. ASSUME NEW c \in Callers, RestorePublish(c) PROVE RowOK'
  <2>1. seen[c].deadline \in {None, "ahead", "over"}
    BY <1>5 DEF Held, RestorePublish, At, RowRecord
  <2> QED BY <1>2, <1>5, <2>1 DEF RowStatuses, RestorePublish, row, data
<1>6. ASSUME NEW c \in Callers,
             \/ Restore(c) \/ Withdraw(c) \/ Notify(c) \/ NotifyFails(c) \/ ReadConsent(c)
             \/ KeepSnapshot(c) \/ RenewConsent(c) \/ RestoreSnapshots(c)
             \/ WithdrawSnapshots(c)
      PROVE  RowOK'
  BY <1>6 DEF Restore, Withdraw, Notify, NotifyFails, ReadConsent, KeepSnapshot,
     RenewConsent, RestoreSnapshots, WithdrawSnapshots, row, data
<1>7. ASSUME NEW w \in Workers, Claim(w) \/ HardPurge(w) PROVE RowOK'
  <2>1. claims < MaxClaims => claims + 1 \in 0..MaxClaims BY <1>1
  <2> QED BY <1>2, <1>3, <1>7, <2>1 DEF RowStatuses, Claim, HardPurge, row, data
<1>8. ASSUME NEW w \in Workers, Fail(w) PROVE RowOK'
  BY <1>8 DEF RowStatuses, Fail, row, data
<1>9. ASSUME NEW w \in Workers,
             \/ List(w) \/ Read(w) \/ DeleteObjects(w) \/ ReadPurgedConsent(w)
             \/ PurgeSnapshot(w) \/ Unlink(w)
      PROVE  RowOK'
  BY <1>9 DEF List, Read, DeleteObjects, ReadPurgedConsent, PurgeSnapshot, Unlink, row, data
<1>10. ASSUME \/ CacheStep \/ RetentionEnds \/ ClaimAges \/ UNCHANGED vars
              \/ \E p \in Procs : Crash(p)
       PROVE  RowOK'
  BY <1>10 DEF CacheStep, RetentionEnds, ClaimAges, vars, Crash, row, data
<1> QED BY <1>4, <1>5, <1>6, <1>7, <1>8, <1>9, <1>10 DEF Next, CallerStep, WorkerStep

LEMMA SeenKept ==
  RowOK /\ PlaceOK /\ SeenOK /\ Held /\ [Next]_vars => SeenOK' /\ Held'
<1> SUFFICES ASSUME RowOK, PlaceOK, SeenOK, Held, [Next]_vars PROVE SeenOK' /\ Held'
  OBVIOUS
<1>1. Row \in RowRecord BY DEF RowOK, Row, RowRecord
<1> DEFINE Holding == {"restore.update", "restore.notify", "restore.publish"}
<1> USE DEF SeenOK, PlaceOK, Held, Procs
<1>2. ASSUME NEW c \in Callers, NEW l, Goto(c, l), UNCHANGED seen,
             l \in Holding => pc[c] \in Holding
      PROVE  SeenOK' /\ Held'
  BY <1>2 DEF Goto
<1>3. ASSUME NEW c \in Callers, NEW l, Goto(c, l), seen' = [seen EXCEPT ![c] = None],
             l \notin Holding
      PROVE  SeenOK' /\ Held'
  BY <1>3 DEF Goto
<1>4. ASSUME NEW c \in Callers, Restore(c) PROVE SeenOK' /\ Held'
  <2>1. Row.deadline # "over" BY <1>4 DEF Restore, Row
  <2> QED BY <1>1, <1>4, <2>1 DEF Restore, Goto
<1>5. ASSUME NEW w \in Workers, NEW l, Goto(w, l),
             seen' \in {seen, [seen EXCEPT ![w] = Row], [seen EXCEPT ![w] = None]}
      PROVE  SeenOK' /\ Held'
  BY <1>1, <1>5, DeletionAssumption DEF Goto
<1>6. ASSUME NEW c \in Callers, Notify(c) \/ NotifyFails(c) PROVE SeenOK' /\ Held'
  BY <1>2, <1>6 DEF Notify, NotifyFails, Notifying, Notified
<1>7. ASSUME NEW c \in Callers,
             \/ Delete(c) \/ CleanUp(c) \/ Withdraw(c) \/ ReadConsent(c)
             \/ KeepSnapshot(c) \/ RenewConsent(c) \/ WithdrawSnapshots(c)
      PROVE  SeenOK' /\ Held'
  BY <1>2, <1>7 DEF Delete, CleanUp, Withdraw, ReadConsent, KeepSnapshot, RenewConsent,
     WithdrawSnapshots
<1>8. ASSUME NEW c \in Callers, RestoreUpdate(c) \/ RestorePublish(c) \/ RestoreSnapshots(c)
      PROVE  SeenOK' /\ Held'
  BY <1>2, <1>3, <1>8 DEF RestoreUpdate, RestorePublish, RestoreSnapshots, At
<1>9. ASSUME NEW w \in Workers, WorkerStep(w) \/ Fail(w) PROVE SeenOK' /\ Held'
  BY <1>5, <1>9 DEF WorkerStep, List, Read, Claim, DeleteObjects, ReadPurgedConsent,
     PurgeSnapshot, Unlink, HardPurge, Fail
<1>10. ASSUME NEW p \in Procs, Crash(p) PROVE SeenOK' /\ Held'
  BY <1>10 DEF Crash, Goto
<1>11. ASSUME CacheStep \/ RetentionEnds \/ ClaimAges \/ UNCHANGED vars
       PROVE  SeenOK' /\ Held'
  BY <1>11 DEF CacheStep, RetentionEnds, ClaimAges, vars
<1> QED BY <1>4, <1>6, <1>7, <1>8, <1>9, <1>10, <1>11 DEF Next, CallerStep

LEMMA IntactKept == PlaceOK /\ Intact /\ [Next]_vars => Intact'
<1> SUFFICES ASSUME PlaceOK, Intact, [Next]_vars PROVE Intact' OBVIOUS
<1> DEFINE Quiet == {"active", "deletion_pending"}
<1> USE DEF Intact
<1>1. ASSUME status' \in Quiet => status \in Quiet, whole' = whole,
             \A w \in Workers : Working(w)' => Working(w)
      PROVE  Intact'
  BY <1>1
<1>2. ASSUME NEW p \in Procs, NEW l, Goto(p, l), UNCHANGED whole,
             status' \in Quiet => status \in Quiet,
             l \in {"purge.objects", "purge.consent", "purge.anonymize", "purge.snapshots",
                    "purge.unlink", "purge.row"} => p \in Workers /\ Working(p)
      PROVE  Intact'
  BY <1>1, <1>2 DEF Goto, Working, PlaceOK
<1>3. ASSUME NEW c \in Callers,
             \/ Delete(c) \/ CleanUp(c) \/ Restore(c) \/ Withdraw(c) \/ CallerStep(c)
      PROVE  Intact'
  BY <1>2, <1>3 DEF Procs, CallerStep, Delete, CleanUp, Restore, Withdraw, Call, SetRow,
     Restorable, row, data, Notify, Notified, NotifyFails, ReadConsent, KeepSnapshot,
     RenewConsent, RestoreUpdate, RestorePublish, RestoreSnapshots, WithdrawSnapshots
<1>4. ASSUME NEW w \in Workers, Claim(w) PROVE Intact'
  <2>1. CASE status' = "purging" BY <2>1
  <2>2. CASE UNCHANGED row /\ Goto(w, "idle")
    BY <1>2, <1>4, <2>2 DEF Claim, Procs, row, data
  <2> QED BY <1>4, <2>1, <2>2 DEF Claim, SetRow
<1>5. ASSUME NEW w \in Workers, HardPurge(w) PROVE Intact'
  BY <1>5 DEF HardPurge, SetRow
<1>6. ASSUME NEW w \in Workers, DeleteObjects(w) PROVE Intact'
  BY <1>6 DEF DeleteObjects, At, Working, row
<1>7. ASSUME NEW w \in Workers, Fail(w) PROVE Intact'
  BY <1>2, <1>7 DEF Fail, Procs, row, data
<1>8. ASSUME NEW w \in Workers,
             List(w) \/ Read(w) \/ ReadPurgedConsent(w) \/ PurgeSnapshot(w) \/ Unlink(w)
      PROVE  Intact'
  BY <1>2, <1>8 DEF List, Read, ReadPurgedConsent, PurgeSnapshot, Unlink, Procs, row, data,
     At, Working
<1>9. ASSUME NEW p \in Procs, Crash(p) PROVE Intact'
  BY <1>2, <1>9 DEF Crash, row, data
<1>10. ASSUME CacheStep \/ RetentionEnds \/ ClaimAges \/ UNCHANGED vars PROVE Intact'
  BY <1>1, <1>10 DEF CacheStep, RetentionEnds, ClaimAges, vars, row, data, Working
<1> QED BY <1>3, <1>4, <1>5, <1>6, <1>7, <1>8, <1>9, <1>10 DEF Next, WorkerStep

LEMMA ClaimedKept == BoundsOK /\ PlaceOK /\ Claimed /\ [Next]_vars => Claimed'
<1> SUFFICES ASSUME BoundsOK, PlaceOK, Claimed, [Next]_vars PROVE Claimed' OBVIOUS
<1>1. mine \in [Workers -> Nat] /\ claims \in Nat BY DeletionAssumption DEF BoundsOK
<1> USE DEF Claimed, FailedIsIdle
<1>2. ASSUME \A w \in Workers : Working(w)' => Working(w), UNCHANGED <<mine, claims>>,
             status' = "deletion_failed" => status = "deletion_failed" /\ claim' = claim
      PROVE  Claimed'
  BY <1>2
<1>3. ASSUME NEW p \in Procs, NEW l, Goto(p, l), UNCHANGED <<mine, claims>>,
             status' = "deletion_failed" => status = "deletion_failed" /\ claim' = claim,
             l \in {"purge.objects", "purge.consent", "purge.anonymize", "purge.snapshots",
                    "purge.unlink", "purge.row"} => p \in Workers /\ Working(p)
      PROVE  Claimed'
  BY <1>2, <1>3 DEF Goto, Working, PlaceOK
<1>4. ASSUME NEW c \in Callers,
             \/ Delete(c) \/ CleanUp(c) \/ Restore(c) \/ Withdraw(c) \/ CallerStep(c)
      PROVE  Claimed'
  BY <1>3, <1>4 DEF Procs, CallerStep, Delete, CleanUp, Restore, Withdraw, Call, SetRow,
     row, bounds, Notify, Notified, NotifyFails, ReadConsent, KeepSnapshot,
     RenewConsent, RestoreUpdate, RestorePublish, RestoreSnapshots, WithdrawSnapshots
<1>5. ASSUME NEW w \in Workers, Claim(w) PROVE Claimed'
  <2>1. CASE UNCHANGED <<row, claims, mine>> /\ Goto(w, "idle")
    BY <1>3, <2>1 DEF Procs, row
  <2>2. CASE /\ claims' = claims + 1 /\ mine' = [mine EXCEPT ![w] = claims']
             /\ status' = "purging" /\ Goto(w, "purge.objects")
    <3>1. \A u \in Workers : mine'[u] = IF u = w THEN claims + 1 ELSE mine[u]
      BY <1>1, <2>2
    <3>2. \A u \in Workers : u # w => (Working(u)' <=> Working(u))
      BY <2>2 DEF Goto, Working, PlaceOK, Procs
    <3> QED BY <1>1, <2>2, <3>1, <3>2
  <2> QED BY <1>5, <2>1, <2>2 DEF Claim, SetRow
<1>6. ASSUME NEW w \in Workers, HardPurge(w) \/ Fail(w) PROVE Claimed'
  <2>1. /\ mine' = [mine EXCEPT ![w] = 0] /\ claims' = claims /\ Goto(w, "idle")
    BY <1>6 DEF HardPurge, Fail, bounds
  <2>2. \A u \in Workers : mine'[u] = IF u = w THEN 0 ELSE mine[u] BY <1>1, <2>1
  <2>3. \A u \in Workers : Working(u)' => u # w /\ Working(u)
    BY <2>1 DEF Goto, Working, PlaceOK, Procs
  <2>4. \/ status' # "deletion_failed" \/ UNCHANGED row
        \/ claim' = claim /\ Working(w) /\ HoldsClaim(w)
    BY <1>6 DEF HardPurge, Fail, SetRow
  <2> QED BY <1>1, <2>1, <2>2, <2>3, <2>4 DEF row, HoldsClaim
<1>7. ASSUME NEW w \in Workers,
             \/ List(w) \/ Read(w) \/ DeleteObjects(w) \/ ReadPurgedConsent(w)
             \/ PurgeSnapshot(w) \/ Unlink(w)
      PROVE  Claimed'
  BY <1>3, <1>7 DEF List, Read, DeleteObjects, ReadPurgedConsent, PurgeSnapshot, Unlink,
     Procs, row, bounds, At, Working
<1>8. ASSUME NEW p \in Procs, Crash(p) PROVE Claimed'
  <2>1. \A u \in Workers : mine'[u] = IF u = p THEN 0 ELSE mine[u] BY <1>8 DEF Crash
  <2>2. \A u \in Workers : Working(u)' => u # p /\ Working(u)
    BY <1>8 DEF Crash, Goto, Working, PlaceOK, Procs
  <2> QED BY <1>1, <1>8, <2>1, <2>2 DEF Crash, row
<1>9. ASSUME CacheStep \/ RetentionEnds \/ ClaimAges \/ UNCHANGED vars PROVE Claimed'
  BY <1>2, <1>9 DEF CacheStep, RetentionEnds, ClaimAges, vars, row, bounds, Working
<1> QED BY <1>4, <1>5, <1>6, <1>7, <1>8, <1>9 DEF Next, WorkerStep

LEMMA FreshKept ==
  PlaceOK /\ ListCache!CacheTypeOK /\ Fresh /\ [Next]_vars => Fresh'
<1> SUFFICES ASSUME PlaceOK, ListCache!CacheTypeOK, Fresh, [Next]_vars PROVE Fresh'
  OBVIOUS
<1> USE DEF Fresh, CacheIsCurrent, Excused
<1>1. ASSUME UNCHANGED <<entry, reading>>, Visible' = Visible, Excused => Excused'
      PROVE  Fresh'
  BY <1>1
<1>2. ASSUME UNCHANGED <<entry, reading>>, Excused' PROVE Fresh'
  BY <1>2
<1>3. ASSUME ListCache!Invalidate PROVE Fresh'
  <2>1. \A r \in Readers : reading'[r].current = FALSE
    BY <1>3 DEF ListCache!Invalidate, ListCache!CacheTypeOK
  <2> QED BY <1>3, <2>1 DEF ListCache!Invalidate
<1>4. ASSUME NEW p \in Procs, NEW l, Goto(p, l), UNCHANGED <<entry, reading, missed>>,
             status' = status, p \in Callers => ~Notifying(p)
      PROVE  Fresh'
  <2>1. \A c \in Callers : Notifying(c) => Notifying(c)'
    BY <1>4 DEF Goto, Notifying, PlaceOK, Procs
  <2> QED BY <1>1, <1>4, <2>1 DEF Visible
<1>5. ASSUME NEW c \in Callers, NEW l \in {"delete.notify", "clean.notify", "restore.notify",
                                           "undo.notify"},
             Goto(c, l), UNCHANGED <<entry, reading>>
      PROVE  Fresh'
  <2>1. Notifying(c)' BY <1>5 DEF Goto, Notifying, PlaceOK, Procs
  <2> QED BY <1>2, <1>5, <2>1
<1>6. ASSUME NEW c \in Callers, Delete(c) \/ CleanUp(c) PROVE Fresh'
  BY <1>5, <1>6 DEF Delete, CleanUp, cache
<1>7. ASSUME NEW c \in Callers, RestoreUpdate(c) \/ RestorePublish(c) PROVE Fresh'
  <2>1. UNCHANGED <<entry, reading, missed>> /\ ~Notifying(c)
    BY <1>7 DEF RestoreUpdate, RestorePublish, cache, At, Notifying
  <2>2. \/ Goto(c, "restore.notify") \/ Goto(c, "undo.notify")
        \/ status' = status /\ (Goto(c, "idle") \/ Goto(c, "restore.snapshots"))
    BY <1>7 DEF RestoreUpdate, RestorePublish, row
  <2> QED BY <1>4, <1>5, <2>1, <2>2 DEF Procs
<1>8. ASSUME NEW c \in Callers, Notify(c) \/ NotifyFails(c) PROVE Fresh'
  BY <1>2, <1>3, <1>8 DEF Notify, NotifyFails, cache
<1>9. ASSUME NEW c \in Callers,
             \/ Restore(c) \/ Withdraw(c) \/ ReadConsent(c) \/ KeepSnapshot(c)
             \/ RenewConsent(c) \/ RestoreSnapshots(c) \/ WithdrawSnapshots(c)
      PROVE  Fresh'
  <2>1. UNCHANGED <<entry, reading, missed>> /\ status' = status
    BY <1>9 DEF Restore, Withdraw, ReadConsent, KeepSnapshot, RenewConsent,
       RestoreSnapshots, WithdrawSnapshots, cache, row
  <2>2. ~Notifying(c)
    BY <1>9 DEF Restore, Withdraw, ReadConsent, KeepSnapshot, RenewConsent,
       RestoreSnapshots, WithdrawSnapshots, Call, At, Notifying
  <2>3. \E l \in Locations : Goto(c, l)
    BY <1>9 DEF Restore, Withdraw, ReadConsent, KeepSnapshot, RenewConsent,
       RestoreSnapshots, WithdrawSnapshots, Locations
  <2> QED BY <1>4, <2>1, <2>2, <2>3 DEF Procs
<1>10. ASSUME NEW w \in Workers, Claim(w) \/ HardPurge(w) \/ Fail(w) PROVE Fresh'
  <2>1. \/ ListCache!Invalidate
        \/ /\ UNCHANGED <<entry, reading, missed>> /\ status' = status
           /\ Goto(w, "idle")
    BY <1>10 DEF Claim, HardPurge, Fail, SetRow, cache, row
  <2> QED BY <1>3, <1>4, <2>1, DeletionAssumption DEF Procs
<1>11. ASSUME NEW w \in Workers,
              \/ List(w) \/ Read(w) \/ DeleteObjects(w) \/ ReadPurgedConsent(w)
              \/ PurgeSnapshot(w) \/ Unlink(w)
       PROVE  Fresh'
  <2>1. UNCHANGED <<entry, reading, missed>> /\ status' = status
    BY <1>11 DEF List, Read, DeleteObjects, ReadPurgedConsent, PurgeSnapshot, Unlink,
       cache, row
  <2>2. \E l : Goto(w, l)
    BY <1>11 DEF List, Read, DeleteObjects, ReadPurgedConsent, PurgeSnapshot, Unlink
  <2> QED BY <1>4, <2>1, <2>2, DeletionAssumption DEF Procs
<1>12. ASSUME NEW p \in Procs, Crash(p) PROVE Fresh'
  <2>1. \A c \in Callers : Notifying(c) => missed' \/ Notifying(c)'
    <3>1. ASSUME NEW c \in Callers, c # p PROVE Notifying(c) => Notifying(c)'
      BY <1>12, <3>1 DEF Crash, Goto, Notifying, PlaceOK, Procs
    <3>2. Notifying(p) => missed' BY <1>12 DEF Crash
    <3> QED BY <3>1, <3>2
  <2>2. UNCHANGED <<entry, reading>> /\ status' = status /\ (missed => missed')
    BY <1>12 DEF Crash, cache, row
  <2> QED BY <1>1, <2>1, <2>2 DEF Visible
<1>13. ASSUME NEW r \in Readers, ListCache!ReaderStep(r),
              UNCHANGED <<missed, row, pc>>
       PROVE  Fresh'
  <2>1. Visible' = Visible /\ (Excused' <=> Excused)
    BY <1>13 DEF Visible, row, Notifying
  <2>2. ASSUME ListCache!Lookup(r) PROVE Fresh'
    BY <2>1, <2>2 DEF ListCache!Lookup, ListCache!CacheTypeOK
  <2>3. ASSUME ListCache!Query(r) PROVE Fresh'
    BY <2>1, <2>3 DEF ListCache!Query, ListCache!CacheTypeOK
  <2>4. ASSUME ListCache!Store(r) \/ ListCache!StoreFails(r) PROVE Fresh'
    BY <2>1, <2>4 DEF ListCache!Store, ListCache!StoreFails, ListCache!Idle,
       ListCache!CacheTypeOK
  <2> QED BY <1>13, <2>2, <2>3, <2>4 DEF ListCache!ReaderStep
<1>14. ASSUME ListCache!Expire, UNCHANGED <<row, pc>>,
              missed' = (missed /\ \E r \in Readers : reading[r].current)
       PROVE  Fresh'
  <2>1. Visible' = Visible /\ \A c \in Callers : Notifying(c)' <=> Notifying(c)
    BY <1>14 DEF Visible, row, Notifying
  <2>2. reading' = reading /\ entry' = None BY <1>14 DEF ListCache!Expire
  <2> QED BY <1>14, <2>1, <2>2
<1>15. ASSUME CacheStep PROVE Fresh'
  BY <1>13, <1>14, <1>15 DEF CacheStep
<1>16. ASSUME RetentionEnds \/ ClaimAges \/ UNCHANGED vars PROVE Fresh'
  BY <1>1, <1>16 DEF RetentionEnds, ClaimAges, vars, cache, row, Visible, Notifying
<1> QED BY <1>6, <1>7, <1>8, <1>9, <1>10, <1>11, <1>12, <1>15, <1>16
   DEF Next, CallerStep, WorkerStep

LEMMA PromptKept ==
  RowOK /\ PlaceOK /\ Held /\ Prompt /\ [Next]_vars => Prompt'
<1> SUFFICES ASSUME RowOK, PlaceOK, Held, Prompt, [Next]_vars PROVE Prompt' OBVIOUS
<1> DEFINE Places == {"delete.notify", "delete.consent", "delete.snapshot", "delete.renew"}
<1> USE DEF Prompt
<1>1. ASSUME NEW p \in Procs, NEW l, Goto(p, l), deadline' = deadline,
             p \in Callers /\ l \in Places => Deleting(p)
      PROVE  Prompt'
  BY <1>1 DEF Goto, Deleting, PlaceOK, Procs
<1>2. ASSUME deadline' # "over" PROVE Prompt' BY <1>2
<1>3. ASSUME NEW c \in Callers, Notify(c) \/ NotifyFails(c) PROVE Prompt'
  BY <1>1, <1>3 DEF Notify, NotifyFails, Notifying, Notified, Deleting, Procs, row
<1>4. ASSUME NEW c \in Callers,
             \/ CleanUp(c) \/ Restore(c) \/ Withdraw(c) \/ ReadConsent(c) \/ KeepSnapshot(c)
             \/ RenewConsent(c) \/ RestoreSnapshots(c) \/ WithdrawSnapshots(c)
      PROVE  Prompt'
  BY <1>1, <1>4 DEF CleanUp, Restore, Withdraw, ReadConsent, KeepSnapshot, RenewConsent,
     RestoreSnapshots, WithdrawSnapshots, SetRow, At, Deleting, Procs, row
<1>5. ASSUME NEW c \in Callers, Delete(c) PROVE Prompt'
  BY <1>2, <1>5 DEF Delete, SetRow
<1>6. ASSUME NEW c \in Callers, RestoreUpdate(c) \/ RestorePublish(c) PROVE Prompt'
  <2>1. CASE UNCHANGED row /\ \E l \in {"idle", "restore.snapshots"} : Goto(c, l)
    BY <1>1, <2>1 DEF row, Procs
  <2>2. CASE deadline' = None BY <1>2, <2>2, DeletionAssumption
  <2>3. CASE deadline' = seen[c].deadline /\ At(c, "restore.publish")
    BY <1>2, <2>3 DEF Held, At
  <2> QED BY <1>6, <2>1, <2>2, <2>3 DEF RestoreUpdate, RestorePublish, SetRow
<1>7. ASSUME NEW w \in Workers, WorkerStep(w) \/ Fail(w) PROVE Prompt'
  <2>1. w \in Procs /\ w \notin Callers BY DeletionAssumption DEF Procs
  <2>2. ASSUME HardPurge(w) PROVE Prompt'
    BY <1>2, <2>2, DeletionAssumption DEF HardPurge, SetRow
  <2> QED BY <1>1, <1>7, <2>1, <2>2 DEF WorkerStep, List, Read, Claim, DeleteObjects,
     ReadPurgedConsent, PurgeSnapshot, Unlink, Fail, SetRow, row
<1>8. ASSUME NEW p \in Procs, Crash(p) PROVE Prompt'
  BY <1>1, <1>8 DEF Crash, row
<1>9. ASSUME RetentionEnds PROVE Prompt'
  BY <1>9 DEF RetentionEnds, Deleting
<1>10. ASSUME CacheStep \/ ClaimAges \/ UNCHANGED vars PROVE Prompt'
  BY <1>10 DEF CacheStep, ClaimAges, vars, row, Deleting
<1> QED BY <1>3, <1>4, <1>5, <1>6, <1>7, <1>8, <1>9, <1>10 DEF Next, CallerStep

LEMMA ConsentedKept == PlaceOK /\ Consented /\ [Next]_vars => Consented'
<1> SUFFICES ASSUME PlaceOK, Consented, [Next]_vars PROVE Consented' OBVIOUS
<1> DEFINE Keeping == {"delete.snapshot", "delete.renew"}
<1> USE DEF Consented
<1>1. ASSUME NEW p \in Procs, NEW l, Goto(p, l), consent' = consent,
             snapshot' = "pending" => snapshot = "pending",
             l \in Keeping /\ p \in Callers => consent # None
      PROVE  Consented'
  BY <1>1 DEF Goto, PlaceOK, Procs
<1>2. ASSUME consent' # None PROVE Consented' BY <1>2
<1>3. ASSUME NEW c \in Callers,
             \/ Delete(c) \/ CleanUp(c) \/ Restore(c) \/ Notify(c) \/ NotifyFails(c)
             \/ RestoreUpdate(c) \/ RestorePublish(c)
      PROVE  Consented'
  BY <1>1, <1>3 DEF Delete, CleanUp, Restore, Notify, NotifyFails, Notifying, Notified,
     RestoreUpdate, RestorePublish, Procs, data
<1>4. ASSUME NEW c \in Callers, ReadConsent(c) PROVE Consented'
  <2>1. consent = "granted" => consent # None BY DeletionAssumption
  <2> QED BY <1>1, <1>4, <2>1 DEF ReadConsent, Procs, data
<1>5. ASSUME NEW c \in Callers, KeepSnapshot(c) \/ RenewConsent(c) PROVE Consented'
  <2>1. consent # None BY <1>5 DEF KeepSnapshot, RenewConsent, At
  <2> QED BY <1>2, <1>5, <2>1, DeletionAssumption DEF KeepSnapshot, RenewConsent
<1>6. ASSUME NEW c \in Callers, Withdraw(c) PROVE Consented'
  BY <1>2, <1>6, DeletionAssumption DEF Withdraw
<1>7. ASSUME NEW c \in Callers, RestoreSnapshots(c) \/ WithdrawSnapshots(c) PROVE Consented'
  BY <1>1, <1>7, DeletionAssumption DEF RestoreSnapshots, WithdrawSnapshots, Procs
<1>8. ASSUME NEW w \in Workers, Unlink(w) PROVE Consented'
  BY <1>2, <1>8, DeletionAssumption DEF Unlink
<1>9. ASSUME NEW w \in Workers, PurgeSnapshot(w) PROVE Consented'
  <2>1. snapshot' # "pending" BY <1>9, DeletionAssumption DEF PurgeSnapshot
  <2> QED BY <1>1, <1>9, <2>1 DEF PurgeSnapshot, Procs
<1>10. ASSUME NEW w \in Workers,
              \/ List(w) \/ Read(w) \/ Claim(w) \/ DeleteObjects(w) \/ ReadPurgedConsent(w)
              \/ HardPurge(w) \/ Fail(w)
       PROVE  Consented'
  <2>1. w \in Procs /\ w \notin Callers BY DeletionAssumption DEF Procs
  <2> QED BY <1>1, <1>10, <2>1 DEF List, Read, Claim, DeleteObjects, ReadPurgedConsent,
     HardPurge, Fail, data
<1>11. ASSUME NEW p \in Procs, Crash(p) PROVE Consented'
  BY <1>1, <1>11 DEF Crash, data
<1>12. ASSUME CacheStep \/ RetentionEnds \/ ClaimAges \/ UNCHANGED vars PROVE Consented'
  BY <1>12 DEF CacheStep, RetentionEnds, ClaimAges, vars, data
<1> QED BY <1>3, <1>4, <1>5, <1>6, <1>7, <1>8, <1>9, <1>10, <1>11, <1>12
   DEF Next, CallerStep, WorkerStep

LEMMA HastyKept == BoundsOK /\ [Next]_vars /\ ~hasty' => ~hasty
BY DEF BoundsOK, Next, CallerStep, WorkerStep, vars, Delete, CleanUp, Restore, Withdraw,
   Notify, NotifyFails, ReadConsent, KeepSnapshot, RenewConsent, RestoreUpdate,
   RestorePublish, RestoreSnapshots, WithdrawSnapshots, List, Read, Claim, DeleteObjects,
   ReadPurgedConsent, PurgeSnapshot, Unlink, HardPurge, Fail, CacheStep, RetentionEnds,
   ClaimAges, Crash

LEMMA OrderlyKept ==
  /\ RowOK /\ PlaceOK /\ Intact /\ Prompt /\ Consented /\ Orderly
  /\ [Next]_vars /\ ~hasty'
  => Orderly'
<1> SUFFICES ASSUME RowOK, PlaceOK, Intact, Prompt, Consented, Orderly, [Next]_vars, ~hasty'
             PROVE  Orderly'
  OBVIOUS
<1> DEFINE Settling == {"purge.unlink", "purge.row"}
           Places == {"delete.notify", "delete.consent", "delete.snapshot", "delete.renew"}
<1> USE DEF Orderly
<1>0. \A w \in Workers : Working(w) => status \in Ended
  BY DEF Intact, RowOK, RowStatuses, Ended
<1>1. ASSUME \A c \in Callers : Deleting(c)' => Deleting(c),
             \A w \in Workers : pc'[w] \in Settling => snapshot # "pending",
             status' = status, deadline' \in {deadline, "over"},
             consent' = "unlinked" => consent = "unlinked",
             snapshot' = "pending" => snapshot = "pending"
      PROVE  Orderly'
  BY <1>1
<1>2. ASSUME NEW p \in Procs, NEW l, Goto(p, l),
             p \in Callers /\ l \in Places => Deleting(p),
             p \in Workers /\ l \in Settling => snapshot # "pending",
             status' = status, deadline' = deadline,
             consent' = "unlinked" => consent = "unlinked",
             snapshot' = "pending" => snapshot = "pending"
      PROVE  Orderly'
  <2>1. \A c \in Callers : Deleting(c)' => Deleting(c)
    BY <1>2 DEF Goto, Deleting, PlaceOK, Procs
  <2>2. \A w \in Workers : pc'[w] \in Settling => snapshot # "pending"
    BY <1>2 DEF Goto, PlaceOK, Procs
  <2> QED BY <1>1, <1>2, <2>1, <2>2
\* A step of a caller before any purge.
<1>3. ASSUME NEW c \in Callers, NEW l, Goto(c, l), l \notin Settling, status \notin Ended,
             status' \notin Ended, consent' = consent
      PROVE  Orderly'
  <2>1. \A w \in Workers : pc[w] \notin Settling BY <1>0, <1>3 DEF Working
  <2>2. \A w \in Workers : pc'[w] \notin Settling
    BY <1>3, <2>1 DEF Goto, PlaceOK, Procs
  <2> QED BY <1>3, <2>2 DEF Ended
<1>4. ASSUME NEW c \in Callers,
             Delete(c) \/ CleanUp(c) \/ RestoreUpdate(c) \/ RestorePublish(c)
      PROVE  Orderly'
  <2>1. \/ status \notin Ended /\ status' \notin Ended
        \/ UNCHANGED row
    BY <1>4 DEF Delete, CleanUp, RestoreUpdate, RestorePublish, SetRow, Restorable, Ended
  <2>2. /\ consent' = consent /\ snapshot' = snapshot
        /\ \E l \in Locations \ Settling :
             Goto(c, l) /\ (UNCHANGED row => l \notin Places \/ Delete(c))
    BY <1>4 DEF Delete, CleanUp, RestoreUpdate, RestorePublish, data, Locations
  <2>3. Delete(c) => status \notin Ended /\ status' \notin Ended
    BY DEF Delete, SetRow, Ended
  <2> QED BY <1>2, <1>3, <2>1, <2>2, <2>3, DeletionAssumption DEF row, Procs
<1>5. ASSUME NEW c \in Callers, KeepSnapshot(c) PROVE Orderly'
  <2>1. status \notin Ended BY <1>5 DEF KeepSnapshot, At, Deleting
  <2> QED BY <1>3, <1>5, <2>1 DEF KeepSnapshot, row
<1>6. ASSUME NEW c \in Callers,
             \/ Restore(c) \/ Withdraw(c) \/ Notify(c) \/ NotifyFails(c) \/ ReadConsent(c)
             \/ RenewConsent(c) \/ RestoreSnapshots(c) \/ WithdrawSnapshots(c)
      PROVE  Orderly'
  <2>1. c \in Procs /\ c \notin Workers BY DeletionAssumption DEF Procs
  <2>2. /\ status' = status /\ deadline' = deadline
        /\ consent' = "unlinked" => consent = "unlinked"
        /\ snapshot' = "pending" => snapshot = "pending"
    BY <1>6, DeletionAssumption DEF Restore, Withdraw, Notify, NotifyFails, ReadConsent,
       RenewConsent, RestoreSnapshots, WithdrawSnapshots, row, data
  <2>3. \E l : Goto(c, l) /\ (l \in Places => Deleting(c))
    BY <1>6 DEF Restore, Withdraw, Notify, NotifyFails, Notifying, Notified, ReadConsent,
       RenewConsent, RestoreSnapshots, WithdrawSnapshots, At, Deleting
  <2> QED BY <1>2, <2>1, <2>2, <2>3
<1>7. ASSUME NEW w \in Workers PROVE w \in Procs /\ w \notin Callers
  BY DeletionAssumption DEF Procs
<1>8. ASSUME NEW w \in Workers, List(w) \/ Read(w) \/ DeleteObjects(w) PROVE Orderly'
  BY <1>2, <1>7, <1>8 DEF List, Read, DeleteObjects, row, data
<1>9. ASSUME NEW w \in Workers, Claim(w) PROVE Orderly'
  <2>1. CASE UNCHANGED row /\ Goto(w, "idle")
    BY <1>2, <1>7, <1>9, <2>1 DEF Claim, row, data
  <2>2. CASE Goto(w, "purge.objects") /\ status' = "purging" /\ deadline' = deadline
             /\ deadline = "over"
    <3>1. \A c \in Callers : ~Deleting(c) BY <2>2 DEF Prompt
    <3>2. \A c \in Callers : ~Deleting(c)'
      BY <1>7, <2>2, <3>1 DEF Goto, Deleting, PlaceOK, Procs
    <3>3. \A u \in Workers : pc'[u] \in Settling => pc[u] \in Settling
      BY <1>7, <2>2 DEF Goto, PlaceOK, Procs
    <3> QED BY <1>9, <2>2, <3>2, <3>3 DEF Claim, data, Ended
  <2> QED BY <1>9, <2>1, <2>2 DEF Claim, SetRow
<1>10. ASSUME NEW w \in Workers, ReadPurgedConsent(w) PROVE Orderly'
  <2>1. consent \notin {"granted", "withdrawn"} => snapshot # "pending"
    BY DEF RowOK, Consented
  <2>2. \E l : Goto(w, l) /\ (l \in Settling => snapshot # "pending")
    BY <1>10, <2>1 DEF ReadPurgedConsent
  <2> QED BY <1>2, <1>7, <1>10, <2>2 DEF ReadPurgedConsent, row, data
<1>11. ASSUME NEW w \in Workers, PurgeSnapshot(w) PROVE Orderly'
  <2>1. snapshot' # "pending" /\ Goto(w, "purge.unlink") /\ UNCHANGED <<row, consent>>
    BY <1>11, DeletionAssumption DEF PurgeSnapshot
  <2>2. \A c \in Callers : Deleting(c)' => Deleting(c)
    BY <1>7, <2>1 DEF Goto, Deleting, PlaceOK, Procs
  <2> QED BY <2>1, <2>2 DEF row
<1>12. ASSUME NEW w \in Workers, Unlink(w) PROVE Orderly'
  <2>1. snapshot # "pending" /\ status \in Ended
    BY <1>0, <1>12 DEF Unlink, At, Working
  <2>2. Goto(w, "purge.row") /\ snapshot' = snapshot /\ UNCHANGED row
    BY <1>12 DEF Unlink
  <2>3. \A c \in Callers : Deleting(c)' => Deleting(c)
    BY <1>7, <2>2 DEF Goto, Deleting, PlaceOK, Procs
  <2> QED BY <2>1, <2>2, <2>3 DEF row
<1>13. ASSUME NEW w \in Workers, HardPurge(w) PROVE Orderly'
  <2>1. snapshot # "pending" /\ status \in Ended
    BY <1>0, <1>13 DEF HardPurge, At, Working
  <2>2. Goto(w, "idle") /\ status' = "gone" /\ UNCHANGED <<consent, snapshot>>
    BY <1>13 DEF HardPurge, SetRow, data
  <2>3. \A c \in Callers : Deleting(c)' => Deleting(c)
    BY <1>7, <2>2 DEF Goto, Deleting, PlaceOK, Procs
  <2> QED BY <2>1, <2>2, <2>3 DEF Ended
<1>14. ASSUME NEW w \in Workers, Fail(w) PROVE Orderly'
  <2>1. CASE UNCHANGED row BY <1>2, <1>7, <1>14, <2>1 DEF Fail, row, data
  <2>2. CASE status = "purging" /\ status' = "deletion_failed" /\ UNCHANGED deadline
    <3>1. Goto(w, "idle") /\ UNCHANGED <<consent, snapshot>> BY <1>14 DEF Fail, data
    <3>2. \A c \in Callers : Deleting(c)' => Deleting(c)
      BY <1>7, <3>1 DEF Goto, Deleting, PlaceOK, Procs
    <3>3. \A u \in Workers : pc'[u] \in Settling => pc[u] \in Settling
      BY <1>7, <3>1 DEF Goto, PlaceOK, Procs
    <3> QED BY <2>2, <3>1, <3>2, <3>3 DEF Ended
  <2> QED BY <1>14, <2>1, <2>2 DEF Fail, HoldsClaim
<1>15. ASSUME NEW p \in Procs, Crash(p) PROVE Orderly'
  BY <1>2, <1>15 DEF Crash, row, data
<1>16. ASSUME CacheStep \/ RetentionEnds \/ ClaimAges \/ UNCHANGED vars PROVE Orderly'
  BY <1>1, <1>16 DEF CacheStep, RetentionEnds, ClaimAges, vars, row, data, Deleting
<1> QED BY <1>4, <1>5, <1>6, <1>8, <1>9, <1>10, <1>11, <1>12, <1>13, <1>14, <1>15, <1>16
   DEF Next, CallerStep, WorkerStep

-----------------------------------------------------------------------------
(* The inductive invariant, and what follows from it. *)

IInv == TypeOK /\ Held /\ Intact /\ Claimed /\ Fresh /\ Settled

LEMMA InitIInv == Init => IInv
<1> SUFFICES ASSUME Init PROVE IInv OBVIOUS
<1> USE DEF Init
<1>0. \A w \in Workers : ~Working(w)
  <2>1. \A w \in Workers : pc[w] = "idle" BY DEF Procs
  <2> QED BY <2>1 DEF Working
<1>1. RowOK /\ Intact
  <2>1. 0 \in 0..MaxClaims BY DeletionAssumption
  <2> QED BY <1>0, <2>1 DEF RowOK, RowStatuses, Intact
<1>2. BoundsOK /\ Claimed
  <2>1. 0 \in 0..MaxClaims /\ 0 \in 0..MaxCalls /\ 0 \in 0..MaxFaults
    BY DeletionAssumption
  <2>2. \A w \in Workers : mine[w] <= claims OBVIOUS
  <2> QED BY <1>0, <2>1, <2>2 DEF BoundsOK, Claimed, FailedIsIdle
<1>3. PlaceOK /\ SeenOK /\ Held
  BY DEF PlaceOK, SeenOK, Held, Locations, Procs
<1>4. ListCache!CacheTypeOK /\ Fresh
  BY DEF ListCache!Init, ListCache!Idle, ListCache!CacheTypeOK, Fresh, CacheIsCurrent
<1>5. Settled
  <2>1. \A p \in Procs : pc[p] = "idle" OBVIOUS
  <2> QED BY <2>1, DeletionAssumption
      DEF Settled, Prompt, Consented, Orderly, Deleting, Ended, Procs
<1> QED BY <1>1, <1>2, <1>3, <1>4, <1>5, Parts DEF IInv

LEMMA NextIInv == IInv /\ [Next]_vars => IInv'
<1> SUFFICES ASSUME IInv, [Next]_vars PROVE IInv' OBVIOUS
<1>1. RowOK /\ BoundsOK /\ PlaceOK /\ SeenOK /\ ListCache!CacheTypeOK
  BY Parts DEF IInv
<1>2. RowOK' /\ BoundsOK' /\ PlaceOK' /\ SeenOK' /\ Held' /\ ListCache!CacheTypeOK'
  BY <1>1, RowKept, BoundsKept, PlacesKept, SeenKept, CacheKept DEF IInv
<1>3. Intact' /\ Claimed' /\ Fresh'
  BY <1>1, IntactKept, ClaimedKept, FreshKept DEF IInv
<1>4. TypeOK'
  BY <1>2 DEF TypeOK, RowOK, BoundsOK, PlaceOK, SeenOK, RowRecord
<1>5. Settled'
  BY <1>1, PromptKept, ConsentedKept, HastyKept, OrderlyKept DEF IInv, Settled
<1> QED BY <1>2, <1>3, <1>4, <1>5 DEF IInv

\* Every behaviour satisfies the inductive invariant.
THEOREM DeletionInvariant == Spec => []IInv
BY InitIInv, NextIInv, PTL DEF Spec

\* The row, the consent, the places of the processes and the cache keep their
\* types, for any number of callers, workers and readers.
THEOREM DeletionTypes == Spec => []TypeOK
<1>1. IInv => TypeOK BY DEF IInv
<1> QED BY <1>1, DeletionInvariant, PTL

\* A project that can be opened has lost nothing and no worker is deleting it,
\* whatever the order of restorations, purges, failures and crashes.
THEOREM ActiveIsAlwaysWhole == Spec => []ActiveIsWhole
<1>1. IInv => ActiveIsWhole BY DEF IInv, Intact, ActiveIsWhole
<1> QED BY <1>1, DeletionInvariant, PTL

\* A purge that is marked as failed is not the work of its last claim.
THEOREM FailedIsAlwaysIdle == Spec => []FailedIsIdle
<1>1. IInv => FailedIsIdle BY DEF IInv, Claimed
<1> QED BY <1>1, DeletionInvariant, PTL

\* The cached list is the one of the database, or a writer is about to
\* invalidate it, or an invalidation was lost: for any number of readers.
THEOREM CacheIsAlwaysCurrent == Spec => []CacheIsCurrent
<1>1. IInv => CacheIsCurrent BY DEF IInv, Fresh
<1> QED BY <1>1, DeletionInvariant, PTL

\* A project that is gone leaves no snapshot pending, whatever withdrawals,
\* failures, deaths and takeovers met its purge, if no purge was claimed
\* before its time: for any number of callers and workers.
THEOREM NothingPendingIsEverLeft == Spec => []NothingPendingIsLeft
<1>1. IInv => NothingPendingIsLeft
  BY DEF IInv, Settled, Orderly, NothingPendingIsLeft
<1> QED BY <1>1, DeletionInvariant, PTL
=============================================================================
