------------------------- MODULE VerificationQueue -------------------------
(***************************************************************************)
(* The Registry's verification pipeline: release admission, the leased job *)
(* queue, the verifier workers, administrative retry and promotion, the    *)
(* deferred static publication, and the two-transaction purge of a         *)
(* rejected source snapshot (services/registry-api/src/sql-store.ts,       *)
(* verification-worker.ts, rejected-snapshot-cleanup.ts and the publish    *)
(* handler of index.ts).                                                   *)
(*                                                                         *)
(* One database transaction is one action.  Everything a worker or a       *)
(* handler carries in memory between two transactions is a variable, so    *)
(* two processes interleave exactly where the code awaits.  Time is not a  *)
(* number: a lease is live or lapsed, and lapsing is a step.               *)
(***************************************************************************)
EXTENDS Integers, FiniteSets

CONSTANTS
  Releases,     \* release coordinates namespace/name@version
  Snapshots,    \* SHA-256 identities of uploaded source bundles
  Keys,         \* object-store keys
  ObjectKey,    \* the key a release's upload of a snapshot is written under
  Workers,      \* verifier process identities (lease_owner values)
  MayPass,      \* releases whose build can pass
  MayReject,    \* releases whose build can be rejected, for whatever reason
  MaxAttempts,  \* verification_jobs.max_attempts
  ClockSkew,    \* may a worker's clock run ahead of the database's?
  MaxFaults,    \* bound: environment faults in a behaviour
  None          \* SQL null

(* writeSnapshot puts the content hash into the object key, and r2_key is   *)
(* unique in the schema: one key never holds two different snapshots.       *)
ASSUME KeyAssumption ==
  /\ ObjectKey \in [Releases \X Snapshots -> Keys]
  /\ \A p, q \in Releases \X Snapshots : ObjectKey[p] = ObjectKey[q] => p[2] = q[2]

ASSUME BoundAssumption ==
  /\ MaxAttempts \in Nat \ {0}
  /\ MaxFaults \in Nat
  /\ ClockSkew \in BOOLEAN
  /\ None \notin Snapshots
  /\ None \notin Keys
  /\ None \notin Workers
  /\ None \notin Releases
  /\ MayPass \subseteq Releases
  /\ MayReject \subseteq Releases

VARIABLES
  jobStatus, attempt, leaseOwner, leaseLive, evidence, lastError, \* verification_jobs
  vstatus, snapOf, purgedAt,                                       \* package_versions
  snapRow, r2Key, tombJob, tombAttempt,                            \* source_snapshots
  objects,                                                         \* object store
  publishing,    \* publish handlers between their check and their admission
  staticDue,     \* releases with a handler that still owes a static write
  wpc, wjob, wattempt, werr, wkey,                                 \* worker memory
  faults         \* environment faults so far

jobVars    == <<jobStatus, attempt, leaseOwner, leaseLive, evidence, lastError>>
versionVars == <<vstatus, snapOf, purgedAt>>
snapVars   == <<snapRow, r2Key, tombJob, tombAttempt>>
workerVars == <<wpc, wjob, wattempt, werr, wkey>>
vars == <<jobVars, versionVars, snapVars, objects, publishing, staticDue, workerVars, faults>>

JobStatus == {"none", "queued", "running", "publishing", "retry_wait", "succeeded", "dead_letter"}
ErrorCode == {"none", "rejected", "infrastructure", "static_registry_sync_deferred"}
VStatus   == {"none", "pending", "accepted", "rejected"}
SnapRow   == {"absent", "visible", "pending_delete", "purged"}
WorkerPC  == {"idle", "build", "resume", "promote", "sync", "complete", "fail", "purge", "delete"}

TypeOK ==
  /\ jobStatus \in [Releases -> JobStatus]
  /\ attempt \in [Releases -> Nat]
  /\ leaseOwner \in [Releases -> Workers \cup {None}]
  /\ leaseLive \in [Releases -> BOOLEAN]
  /\ evidence \in [Releases -> BOOLEAN]
  /\ lastError \in [Releases -> ErrorCode]
  /\ vstatus \in [Releases -> VStatus]
  /\ snapOf \in [Releases -> Snapshots \cup {None}]
  /\ purgedAt \in [Releases -> BOOLEAN]
  /\ snapRow \in [Snapshots -> SnapRow]
  /\ r2Key \in [Snapshots -> Keys \cup {None}]
  /\ tombJob \in [Snapshots -> Releases \cup {None}]
  /\ tombAttempt \in [Snapshots -> Nat]
  /\ objects \subseteq Keys
  /\ publishing \subseteq (Releases \X Snapshots \X {"checked", "written"})
  /\ staticDue \subseteq Releases
  /\ wpc \in [Workers -> WorkerPC]
  /\ wjob \in [Workers -> Releases \cup {None}]
  /\ wattempt \in [Workers -> Nat]
  /\ werr \in [Workers -> ErrorCode]
  /\ wkey \in [Workers -> Keys \cup {None}]
  /\ faults \in 0..MaxFaults

Init ==
  /\ jobStatus = [r \in Releases |-> "none"]
  /\ attempt = [r \in Releases |-> 0]
  /\ leaseOwner = [r \in Releases |-> None]
  /\ leaseLive = [r \in Releases |-> FALSE]
  /\ evidence = [r \in Releases |-> FALSE]
  /\ lastError = [r \in Releases |-> "none"]
  /\ vstatus = [r \in Releases |-> "none"]
  /\ snapOf = [r \in Releases |-> None]
  /\ purgedAt = [r \in Releases |-> FALSE]
  /\ snapRow = [s \in Snapshots |-> "absent"]
  /\ r2Key = [s \in Snapshots |-> None]
  /\ tombJob = [s \in Snapshots |-> None]
  /\ tombAttempt = [s \in Snapshots |-> 0]
  /\ objects = {}
  /\ publishing = {}
  /\ staticDue = {}
  /\ wpc = [w \in Workers |-> "idle"]
  /\ wjob = [w \in Workers |-> None]
  /\ wattempt = [w \in Workers |-> 0]
  /\ werr = [w \in Workers |-> "none"]
  /\ wkey = [w \in Workers |-> None]
  /\ faults = 0

(* An event the environment chooses: a failure, or an administrator's       *)
(* retry.  A behaviour has at most MaxFaults of them.                       *)
Fault == faults < MaxFaults /\ faults' = faults + 1

-----------------------------------------------------------------------------
(* Release admission: handlePublishVersion.                                 *)

(* The handler has seen no such release; it now reserves its idempotency    *)
(* key and its nonce before it writes anything.                             *)
BeginPublish(r, s) ==
  /\ vstatus[r] = "none"
  /\ publishing' = publishing \cup {<<r, s, "checked">>}
  /\ UNCHANGED <<jobVars, versionVars, snapVars, objects, staticDue, workerVars, faults>>

(* writeSnapshot: the bytes reach the object store before any row exists.   *)
WriteSnapshot(r, s) ==
  /\ <<r, s, "checked">> \in publishing
  /\ publishing' = (publishing \ {<<r, s, "checked">>}) \cup {<<r, s, "written">>}
  /\ objects' = objects \cup {ObjectKey[<<r, s>>]}
  /\ UNCHANGED <<jobVars, versionVars, snapVars, staticDue, workerVars, faults>>

(* The conditions under which the admission transaction commits.            *)
Admissible(r, s) ==
  /\ snapRow[s] # "absent" => r2Key[s] = ObjectKey[<<r, s>>]
  /\ snapRow[s] \in {"absent", "visible"}
  /\ vstatus[r] = "none"

AdmitPackageVersion(r, s) ==
  /\ <<r, s, "written">> \in publishing
  /\ Admissible(r, s)
  /\ publishing' = publishing \ {<<r, s, "written">>}
  /\ snapRow' = [snapRow EXCEPT ![s] = IF @ = "absent" THEN "visible" ELSE @]
  /\ r2Key' = [r2Key EXCEPT ![s] = IF snapRow[s] = "absent" THEN ObjectKey[<<r, s>>] ELSE @]
  /\ vstatus' = [vstatus EXCEPT ![r] = "pending"]
  /\ snapOf' = [snapOf EXCEPT ![r] = s]
  /\ jobStatus' = [jobStatus EXCEPT ![r] = "queued"]
  /\ staticDue' = staticDue \cup {r}
  /\ UNCHANGED <<attempt, leaseOwner, leaseLive, evidence, lastError, purgedAt,
                 tombJob, tombAttempt, objects, workerVars, faults>>

(* The handler throws: a refused admission, a throttled or crashed request. *)
(* Nothing it wrote to the object store is taken back.                      *)
AbortPublish(r, s) ==
  /\ \E step \in {"checked", "written"} :
       /\ <<r, s, step>> \in publishing
       /\ publishing' = publishing \ {<<r, s, step>>}
  /\ UNCHANGED <<jobVars, versionVars, snapVars, objects, staticDue, workerVars, faults>>

-----------------------------------------------------------------------------
(* Deferred static publication.  A handler that passed requireSnapshot (or  *)
(* the publish handler) still owes a static write, which it makes after its *)
(* own transaction has committed.                                           *)

Visible(r) == vstatus[r] # "none" /\ snapRow[snapOf[r]] = "visible"

BeginStaticWrite(r) ==
  /\ Visible(r)
  /\ staticDue' = staticDue \cup {r}
  /\ UNCHANGED <<jobVars, versionVars, snapVars, objects, publishing, workerVars, faults>>

StaticWritten(r) ==
  /\ r \in staticDue
  /\ staticDue' = staticDue \ {r}
  /\ UNCHANGED <<jobVars, versionVars, snapVars, objects, publishing, workerVars, faults>>

(* The put failed: tryWriteStaticRegistryVersionObject asks the queue to do *)
(* it.  requestStaticSync looks at the job's status only.                   *)
RequestStaticSync(r) ==
  /\ r \in staticDue
  /\ Fault
  /\ staticDue' = staticDue \ {r}
  /\ IF jobStatus[r] \in {"running", "publishing"}
     THEN UNCHANGED jobVars
     ELSE /\ jobStatus' = [jobStatus EXCEPT ![r] = "retry_wait"]
          /\ lastError' = [lastError EXCEPT ![r] = "static_registry_sync_deferred"]
          /\ leaseOwner' = [leaseOwner EXCEPT ![r] = None]
          /\ leaseLive' = [leaseLive EXCEPT ![r] = FALSE]
          /\ UNCHANGED <<attempt, evidence>>
  /\ UNCHANGED <<versionVars, snapVars, objects, publishing, workerVars>>

-----------------------------------------------------------------------------
(* Administration.                                                          *)

(* Mutant: a retry takes the rejection back as well.                        *)
RetryVerificationJob_Reopened(r) ==
  /\ jobStatus[r] = "dead_letter"
  /\ Visible(r)
  /\ Fault
  /\ jobStatus' = [jobStatus EXCEPT ![r] = "queued"]
  /\ attempt' = [attempt EXCEPT ![r] = 0]
  /\ lastError' = [lastError EXCEPT ![r] = "none"]
  /\ vstatus' = [vstatus EXCEPT ![r] = IF @ = "rejected" THEN "pending" ELSE @]
  /\ UNCHANGED <<leaseOwner, leaseLive, evidence, snapOf, purgedAt, snapVars, objects,
                 publishing, staticDue, workerVars>>

RetryVerificationJob(r) ==
  /\ jobStatus[r] = "dead_letter"
  /\ Visible(r)
  /\ Fault
  /\ jobStatus' = [jobStatus EXCEPT ![r] = "queued"]
  /\ attempt' = [attempt EXCEPT ![r] = 0]
  /\ leaseOwner' = [leaseOwner EXCEPT ![r] = None]
  /\ leaseLive' = [leaseLive EXCEPT ![r] = FALSE]
  /\ lastError' = [lastError EXCEPT ![r] = "none"]
  /\ UNCHANGED <<evidence, versionVars, snapVars, objects, publishing, staticDue, workerVars>>

(* The token-gated promotion with verified_build evidence: it moves the     *)
(* release and leaves the job alone.                                        *)
PromotePackageVersion(r) ==
  /\ vstatus[r] # "none"
  /\ ~purgedAt[r]
  /\ vstatus' = [vstatus EXCEPT ![r] = "accepted"]
  /\ UNCHANGED <<jobVars, snapOf, purgedAt, snapVars, objects, publishing, staticDue,
                 workerVars, faults>>

-----------------------------------------------------------------------------
(* A worker's pass over one job: processJob.                                *)

Idle(w) ==
  /\ wpc' = [wpc EXCEPT ![w] = "idle"]
  /\ wjob' = [wjob EXCEPT ![w] = None]
  /\ wattempt' = [wattempt EXCEPT ![w] = 0]
  /\ werr' = [werr EXCEPT ![w] = "none"]
  /\ wkey' = [wkey EXCEPT ![w] = None]

Goto(w, pc) ==
  /\ wpc' = [wpc EXCEPT ![w] = pc]
  /\ UNCHANGED <<wjob, wattempt, werr, wkey>>

Throw(w, code) ==
  /\ wpc' = [wpc EXCEPT ![w] = "fail"]
  /\ werr' = [werr EXCEPT ![w] = code]
  /\ UNCHANGED <<wjob, wattempt, wkey>>

(* The claim's assignments, for a status the job gets and an owner it gets. *)
Lease(w, r, status, owner) ==
  /\ jobStatus' = [jobStatus EXCEPT ![r] = status]
  /\ attempt' = [attempt EXCEPT ![r] = @ + 1]
  /\ leaseOwner' = [leaseOwner EXCEPT ![r] = owner]
  /\ leaseLive' = [leaseLive EXCEPT ![r] = TRUE]
  /\ wpc' = [wpc EXCEPT ![w] = IF evidence[r] THEN "resume" ELSE "build"]
  /\ wjob' = [wjob EXCEPT ![w] = r]
  /\ wattempt' = [wattempt EXCEPT ![w] = attempt[r] + 1]
  /\ UNCHANGED <<evidence, lastError, versionVars, snapVars, objects, publishing,
                 staticDue, werr, wkey>>

(* Mutants: a claim that keeps the previous lease_owner; a claim that runs  *)
(* the build again although the evidence was already committed.             *)
TakeLease_OwnerKept(w, r) ==
  Lease(w, r, IF evidence[r] THEN "publishing" ELSE "running",
        IF leaseOwner[r] = None THEN w ELSE leaseOwner[r])
TakeLease_CheckpointIgnored(w, r) == Lease(w, r, "running", w)

(* What the claiming statement writes, and what it returns to the worker.   *)
TakeLease(w, r) == Lease(w, r, IF evidence[r] THEN "publishing" ELSE "running", w)

(* Mutant: no crash recovery, a job whose lease has lapsed is not due.      *)
Claimable_NoRecovery(r) == jobStatus[r] \in {"queued", "retry_wait"}

(* A due job, or one whose lease has lapsed: its worker crashed or is late. *)
(* Nothing here compares attempt_count with max_attempts.                   *)
Claimable(r) ==
  \/ jobStatus[r] \in {"queued", "retry_wait"}
  \/ jobStatus[r] \in {"running", "publishing"} /\ ~leaseLive[r]

ClaimVerificationJob(w, r) ==
  /\ wpc[w] = "idle"
  /\ Claimable(r)
  /\ TakeLease(w, r)
  /\ UNCHANGED faults

(* The claim compares lease_expires_at with the worker's clock, the other   *)
(* operations with the database's: a fast worker takes a live lease.        *)
ClaimUnderSkew(w, r) ==
  /\ wpc[w] = "idle"
  /\ ClockSkew
  /\ Fault
  /\ jobStatus[r] \in {"running", "publishing"} /\ leaseLive[r]
  /\ TakeLease(w, r)

(* The lease reaches its expiry on the database's clock.  It does so for    *)
(* free once its worker is gone; while the worker is still at the job it is *)
(* a fault, the lease being longer than the job timeout.                    *)
LeaseLapses(r) ==
  /\ leaseLive[r]
  /\ leaseLive' = [leaseLive EXCEPT ![r] = FALSE]
  /\ IF wjob[leaseOwner[r]] = r THEN Fault ELSE UNCHANGED faults
  /\ UNCHANGED <<jobStatus, attempt, leaseOwner, evidence, lastError, versionVars,
                 snapVars, objects, publishing, staticDue, workerVars>>

HoldsLease(w, r) == leaseOwner[r] = w /\ leaseLive[r]

(* runBuildVerification over the stored object.                             *)
BuildPasses(w) ==
  /\ wpc[w] = "build"
  /\ r2Key[snapOf[wjob[w]]] \in objects
  /\ wjob[w] \in MayPass
  /\ Goto(w, "promote")
  /\ UNCHANGED <<jobVars, versionVars, snapVars, objects, publishing, staticDue, faults>>

(* Whatever the verifier reports with an error_code is a permanent          *)
(* rejection: a verdict on the source, and just as well its own trouble     *)
(* (verifier_internal_error) or bytes that are gone since the worker looked *)
(* at them (snapshot_unavailable).                                          *)
BuildRejected(w) ==
  /\ wpc[w] = "build"
  /\ wjob[w] \in MayReject
  /\ Throw(w, "rejected")
  /\ UNCHANGED <<jobVars, versionVars, snapVars, objects, publishing, staticDue, faults>>

(* Only what leaves no coded answer is an infrastructure error: an object   *)
(* the worker cannot read, a timeout, a verifier that cannot be started or  *)
(* whose output makes no sense.                                             *)
BuildBreaks(w) ==
  /\ wpc[w] = "build"
  /\ Throw(w, "infrastructure")
  /\ IF r2Key[snapOf[wjob[w]]] \in objects THEN Fault ELSE UNCHANGED faults
  /\ UNCHANGED <<jobVars, versionVars, snapVars, objects, publishing, staticDue>>

(* promoteVerifiedBuildForJob.  Its query reads no source_purged_at, so the *)
(* purge test of assertPromotionTransition sees a null there.               *)
PromoteVerifiedBuildForJob(w) ==
  LET r == wjob[w] IN
  /\ wpc[w] = "promote"
  /\ IF jobStatus[r] = "running" /\ HoldsLease(w, r)
     THEN /\ vstatus' = [vstatus EXCEPT ![r] = "accepted"]
          /\ jobStatus' = [jobStatus EXCEPT ![r] = "publishing"]
          /\ evidence' = [evidence EXCEPT ![r] = TRUE]
          /\ Goto(w, "sync")
     ELSE Throw(w, "infrastructure") /\ UNCHANGED <<vstatus, jobStatus, evidence>>
  /\ UNCHANGED <<attempt, leaseOwner, leaseLive, lastError, snapOf, purgedAt, snapVars,
                 objects, publishing, staticDue, faults>>

(* A job claimed with evidence only repeats the static write.               *)
ResumePublication(w) ==
  /\ wpc[w] = "resume"
  /\ IF vstatus[wjob[w]] = "accepted" THEN Goto(w, "sync") ELSE Throw(w, "infrastructure")
  /\ UNCHANGED <<jobVars, versionVars, snapVars, objects, publishing, staticDue, faults>>

(* syncStaticRegistryVersionObject: requireSnapshot, then the put.          *)
SyncStatic(w) ==
  /\ wpc[w] = "sync"
  /\ Visible(wjob[w])
  /\ Goto(w, "complete")
  /\ UNCHANGED <<jobVars, versionVars, snapVars, objects, publishing, staticDue, faults>>

SyncStaticFails(w) ==
  /\ wpc[w] = "sync"
  /\ Throw(w, "infrastructure")
  /\ IF Visible(wjob[w]) THEN Fault ELSE UNCHANGED faults
  /\ UNCHANGED <<jobVars, versionVars, snapVars, objects, publishing, staticDue>>

CompleteVerificationJob(w) ==
  LET r == wjob[w] IN
  /\ wpc[w] = "complete"
  /\ IF jobStatus[r] = "publishing" /\ HoldsLease(w, r)
     THEN /\ jobStatus' = [jobStatus EXCEPT ![r] = "succeeded"]
          /\ leaseOwner' = [leaseOwner EXCEPT ![r] = None]
          /\ leaseLive' = [leaseLive EXCEPT ![r] = FALSE]
          /\ lastError' = [lastError EXCEPT ![r] = "none"]
          /\ Idle(w)
     ELSE Throw(w, "infrastructure") /\ UNCHANGED <<jobStatus, leaseOwner, leaseLive, lastError>>
  /\ UNCHANGED <<attempt, evidence, versionVars, snapVars, objects, publishing,
                 staticDue, faults>>

(* failVerificationJob from processJob's catch block; a permanent rejection *)
(* that reached the dead-letter state goes on to the purge.                 *)
FailVerificationJob(w) ==
  LET r == wjob[w]
      retry == werr[w] # "rejected" /\ attempt[r] < MaxAttempts
  IN
  /\ wpc[w] = "fail"
  /\ IF jobStatus[r] \in {"running", "publishing"} /\ HoldsLease(w, r)
     THEN /\ jobStatus' = [jobStatus EXCEPT ![r] = IF retry THEN "retry_wait" ELSE "dead_letter"]
          /\ leaseOwner' = [leaseOwner EXCEPT ![r] = None]
          /\ leaseLive' = [leaseLive EXCEPT ![r] = FALSE]
          /\ lastError' = [lastError EXCEPT ![r] = werr[w]]
          /\ IF werr[w] = "rejected" THEN Goto(w, "purge") ELSE Idle(w)
     ELSE Idle(w) /\ UNCHANGED <<jobStatus, leaseOwner, leaseLive, lastError>>
  /\ UNCHANGED <<attempt, evidence, versionVars, snapVars, objects, publishing,
                 staticDue, faults>>

(* The process dies and restarts with the same worker id and no memory.     *)
WorkerCrash(w) ==
  /\ wpc[w] # "idle"
  /\ Fault
  /\ Idle(w)
  /\ UNCHANGED <<jobVars, versionVars, snapVars, objects, publishing, staticDue>>

-----------------------------------------------------------------------------
(* The purge of a rejected snapshot: purgeRejectedSnapshot, called by the   *)
(* worker that dead-lettered the job, or by the sweep that finds the        *)
(* tombstone of an interrupted purge.                                       *)

SweepPendingPurge(w, s) ==
  /\ wpc[w] = "idle"
  /\ snapRow[s] = "pending_delete"
  /\ wpc' = [wpc EXCEPT ![w] = "purge"]
  /\ wjob' = [wjob EXCEPT ![w] = tombJob[s]]
  /\ wattempt' = [wattempt EXCEPT ![w] = tombAttempt[s]]
  /\ werr' = [werr EXCEPT ![w] = "rejected"]
  /\ UNCHANGED <<wkey, jobVars, versionVars, snapVars, objects, publishing, staticDue, faults>>

(* The job is still the dead letter this purge was asked for.               *)
SameRejection(r, n) ==
  /\ jobStatus[r] = "dead_letter"
  /\ ~evidence[r]
  /\ attempt[r] = n
  /\ lastError[r] = "rejected"

(* Mutant: an interrupted purge is not resumed.                             *)
TombstoneOpen_NotResumed(r, n) == snapRow[snapOf[r]] = "visible"

(* A tombstone may only be resumed by the rejection that wrote it.          *)
TombstoneOpen(r, n) ==
  LET s == snapOf[r] IN
  \/ snapRow[s] = "visible"
  \/ snapRow[s] = "pending_delete" /\ tombJob[s] = r /\ tombAttempt[s] = n

(* Mutants: only accepted releases protect the bytes; only the job of the   *)
(* other release is asked.                                                  *)
ProtectedReference_AcceptedOnly(r) ==
  \E o \in Releases \ {r} : snapOf[o] = snapOf[r] /\ vstatus[o] = "accepted"
ProtectedReference_JobOnly(r) ==
  \E o \in Releases \ {r} : snapOf[o] = snapOf[r] /\ (jobStatus[o] # "dead_letter" \/ evidence[o])

(* Another release still needs the bytes.                                   *)
ProtectedReference(r) ==
  \E o \in Releases \ {r} :
    /\ snapOf[o] = snapOf[r]
    /\ vstatus[o] # "rejected" \/ jobStatus[o] # "dead_letter" \/ evidence[o]

PurgeApplies(r, n) ==
  SameRejection(r, n) /\ TombstoneOpen(r, n) /\ vstatus[r] \in {"pending", "rejected"}

(* First transaction: reject the release and, unless the bytes are shared,  *)
(* hide the snapshot and mark every release that references it.             *)
TombstoneSnapshot(w) ==
  LET r == wjob[w]
      s == snapOf[r]
  IN
  /\ wpc[w] = "purge"
  /\ PurgeApplies(r, wattempt[w])
  /\ vstatus' = [vstatus EXCEPT ![r] = "rejected"]
  /\ IF ProtectedReference(r)
     THEN Idle(w) /\ UNCHANGED <<purgedAt, snapVars>>
     ELSE /\ snapRow' = [snapRow EXCEPT ![s] = "pending_delete"]
          /\ tombJob' = [tombJob EXCEPT ![s] = r]
          /\ tombAttempt' = [tombAttempt EXCEPT ![s] = wattempt[w]]
          /\ purgedAt' = [o \in Releases |-> purgedAt[o] \/ snapOf[o] = s]
          /\ wpc' = [wpc EXCEPT ![w] = "delete"]
          /\ wkey' = [wkey EXCEPT ![w] = r2Key[s]]
          /\ UNCHANGED <<r2Key, wjob, wattempt, werr>>
  /\ UNCHANGED <<jobVars, snapOf, objects, publishing, staticDue, faults>>

PurgeDeclined(w) ==
  /\ wpc[w] = "purge"
  /\ ~PurgeApplies(wjob[w], wattempt[w])
  /\ Idle(w)
  /\ UNCHANGED <<jobVars, versionVars, snapVars, objects, publishing, staticDue, faults>>

(* Second transaction, under the snapshot's advisory and row locks: delete  *)
(* the bytes and close the tombstone.  The deletion may fail, and it may    *)
(* succeed while the closing commit is lost.                                *)
DeleteObject(w) ==
  LET s == snapOf[wjob[w]]
      pending == /\ snapRow[s] = "pending_delete"
                 /\ tombJob[s] = wjob[w] /\ tombAttempt[s] = wattempt[w]
                 /\ r2Key[s] = wkey[w]
  IN
  /\ wpc[w] = "delete"
  /\ \/ ~pending /\ UNCHANGED <<snapRow, objects, faults>>
     \/ /\ pending
        /\ snapRow' = [snapRow EXCEPT ![s] = "purged"]
        /\ objects' = objects \ {wkey[w]}
        /\ UNCHANGED faults
     \/ pending /\ Fault /\ UNCHANGED <<snapRow, objects>>
     \/ pending /\ Fault /\ objects' = objects \ {wkey[w]} /\ UNCHANGED snapRow
  /\ Idle(w)
  /\ UNCHANGED <<jobVars, versionVars, r2Key, tombJob, tombAttempt, publishing, staticDue>>

-----------------------------------------------------------------------------
Handlers ==
  \E r \in Releases :
    \/ \E s \in Snapshots : \/ BeginPublish(r, s)
                            \/ WriteSnapshot(r, s)
                            \/ AdmitPackageVersion(r, s)
                            \/ AbortPublish(r, s)
    \/ BeginStaticWrite(r)
    \/ StaticWritten(r)
    \/ RequestStaticSync(r)
    \/ RetryVerificationJob(r)
    \/ PromotePackageVersion(r)
    \/ LeaseLapses(r)

WorkerStep(w) ==
  \/ \E r \in Releases : ClaimVerificationJob(w, r) \/ ClaimUnderSkew(w, r)
  \/ BuildPasses(w)
  \/ BuildRejected(w)
  \/ BuildBreaks(w)
  \/ PromoteVerifiedBuildForJob(w)
  \/ ResumePublication(w)
  \/ SyncStatic(w)
  \/ SyncStaticFails(w)
  \/ CompleteVerificationJob(w)
  \/ FailVerificationJob(w)
  \/ WorkerCrash(w)
  \/ \E s \in Snapshots : SweepPendingPurge(w, s)
  \/ TombstoneSnapshot(w)
  \/ PurgeDeclined(w)
  \/ DeleteObject(w)

Next == Handlers \/ \E w \in Workers : WorkerStep(w)

Spec == Init /\ [][Next]_vars

(* A worker that holds a job goes on with it: every await of processJob is  *)
(* bounded by the job timeout or by the driver.                             *)
Proceed(w) ==
  \/ BuildPasses(w) \/ BuildRejected(w) \/ BuildBreaks(w)
  \/ PromoteVerifiedBuildForJob(w) \/ ResumePublication(w)
  \/ SyncStatic(w) \/ SyncStaticFails(w)
  \/ CompleteVerificationJob(w) \/ FailVerificationJob(w)
  \/ TombstoneSnapshot(w) \/ PurgeDeclined(w) \/ DeleteObject(w)

Abandoned(r) == leaseLive[r] /\ wjob[leaseOwner[r]] # r

(* The worker loop sweeps and claims in every turn, claims in the order the *)
(* jobs fell due and pages through the tombstones, so neither a due job nor *)
(* a tombstone is passed over for ever; a lease without a worker lapses.    *)
Fairness ==
  /\ \A w \in Workers : WF_vars(Proceed(w))
  /\ \A r \in Releases : SF_vars(\E w \in Workers : ClaimVerificationJob(w, r))
  /\ \A s \in Snapshots : SF_vars(\E w \in Workers : SweepPendingPurge(w, s))
  /\ \A r \in Releases : WF_vars(Abandoned(r) /\ LeaseLapses(r))

FairSpec == Spec /\ Fairness

-----------------------------------------------------------------------------
(* Properties.                                                              *)

(* An upload that was not yet judged can always be judged: while a release  *)
(* is pending its snapshot row is visible and its bytes are in the store,   *)
(* whatever was purged, retried, swept or re-published around it.           *)
PendingSourceRetained ==
  \A r \in Releases : vstatus[r] = "pending" =>
    snapRow[snapOf[r]] = "visible" /\ r2Key[snapOf[r]] \in objects

(* The release rows and the snapshot row agree on a purge: source_purged_at *)
(* is set exactly on the releases of a hidden snapshot, so the per-release  *)
(* test of assertPromotionTransition means what it says.                    *)
PurgeMarksAgree ==
  \A r \in Releases : vstatus[r] # "none" =>
    (purgedAt[r] <=> snapRow[snapOf[r]] \in {"pending_delete", "purged"})

(* A release that can pass is never rejected: the verifier gives one answer *)
(* per release however often it is asked, and no trouble of the verifier    *)
(* itself, which the worker takes for a verdict, befalls a release that     *)
(* would pass.                                                              *)
DeterministicVerifier == MayPass \cap MayReject = {}

(* An accepted release keeps its source: no interleaving of a late          *)
(* rejection, a sweep or a shared snapshot hides or deletes bytes that      *)
(* accepted evidence is about.  It needs a deterministic verifier.          *)
AcceptedSourceRetained ==
  \A r \in Releases : vstatus[r] = "accepted" =>
    snapRow[snapOf[r]] = "visible" /\ r2Key[snapOf[r]] \in objects

(* The worker id alone is a sound fencing token: a worker that still works  *)
(* on a job it owns works on the attempt it claimed, so the lease tests of  *)
(* promote, complete and fail never let an older attempt through.           *)
LeaseFencesAttempt ==
  \A w \in Workers, r \in Releases :
    (/\ leaseOwner[r] = w
     /\ wjob[w] = r
     /\ wpc[w] \in {"build", "resume", "promote", "sync", "complete", "fail"})
    => wattempt[w] = attempt[r] /\ jobStatus[r] \in {"running", "publishing"}

(* The queue's checkpoint: a job that is publishing or done has evidence,   *)
(* evidence belongs to an accepted release, and a lease is held exactly     *)
(* while a job is running or publishing (the CHECKs of migration 0002).     *)
CheckpointConsistent ==
  \A r \in Releases :
    /\ jobStatus[r] \in {"publishing", "succeeded"} => evidence[r]
    /\ evidence[r] => vstatus[r] = "accepted"
    /\ jobStatus[r] \in {"running", "publishing"} <=> leaseOwner[r] # None
    /\ jobStatus[r] = "running" => ~evidence[r]

TombstoneStep ==
  \A s \in Snapshots :
    /\ snapRow[s] = "pending_delete" =>
         /\ snapRow'[s] \in {"pending_delete", "purged"}
         /\ tombJob'[s] = tombJob[s] /\ tombAttempt'[s] = tombAttempt[s]
    /\ snapRow[s] = "purged" => snapRow'[s] = "purged"
    /\ snapRow[s] # "absent" /\ r2Key[s] \in objects /\ r2Key[s] \notin objects' =>
         snapRow[s] = "pending_delete"

(* A tombstone is never taken back and never changes its rejection, and     *)
(* bytes leave the store only under the tombstone of their own snapshot.    *)
TombstoneIrreversible == [][TombstoneStep]_vars

(* The queue drains: once the environment stops failing, every job of every *)
(* admitted release ends as succeeded or as a dead letter and stays there,  *)
(* across crashes, lapsed leases, lost checkpoints and reopened jobs.       *)
QueueDrains ==
  <>[](\A r \in Releases : jobStatus[r] \in {"none", "succeeded", "dead_letter"})

(* The sweep finishes interrupted purges: a tombstone whose rejection still *)
(* stands is not left open for ever.                                        *)
TombstonesClose ==
  \A s \in Snapshots :
    ~<>[](snapRow[s] = "pending_delete" /\ SameRejection(tombJob[s], tombAttempt[s]))

AcceptanceStep ==
  \A r \in Releases : /\ vstatus[r] = "accepted" => vstatus'[r] = "accepted"
                      /\ evidence[r] => evidence'[r]

(* Accepted evidence is final: no later rejection, retry or sweep takes a   *)
(* release or its job's checkpoint back.                                    *)
AcceptanceIsFinal == [][AcceptanceStep]_vars

-----------------------------------------------------------------------------
(* What the service's README says and the code does not keep.               *)

(* "Permanent verifier rejection purges an unshared source object": every   *)
(* tombstone is eventually closed.  A job reopened by requestStaticSync no  *)
(* longer carries the attempt and error its tombstone names, so no sweep    *)
(* ever matches that tombstone again.                                       *)
RejectedSourcePurged ==
  \A s \in Snapshots : snapRow[s] = "pending_delete" ~> snapRow[s] = "purged"

=============================================================================
