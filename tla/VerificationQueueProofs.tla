---------------------- MODULE VerificationQueueProofs -----------------------
(* Proofs about VerificationQueue, for every set of releases, snapshots,   *)
(* keys and workers, every verdict assignment and every fault bound.       *)
EXTENDS VerificationQueue, TLAPS

(* Rows of the three tables exist together, a tombstone names a release of *)
(* its own snapshot, and a busy worker works on an admitted release.       *)
Rows ==
  /\ \A r \in Releases : /\ vstatus[r] # "none" <=> snapOf[r] # None
                         /\ vstatus[r] # "none" <=> jobStatus[r] # "none"
                         /\ snapOf[r] # None => snapRow[snapOf[r]] # "absent"
                         /\ r \in staticDue => vstatus[r] # "none"
  /\ \A s \in Snapshots : snapRow[s] # "absent" => r2Key[s] # None
  /\ \A s \in Snapshots : snapRow[s] = "pending_delete" =>
       tombJob[s] # None /\ snapOf[tombJob[s]] = s
  /\ \A w \in Workers : wpc[w] # "idle" => wjob[w] # None /\ vstatus[wjob[w]] # "none"

(* A live lease has an owner; the rest is the queue's two invariants.      *)
Queue ==
  /\ \A r \in Releases : leaseLive[r] => leaseOwner[r] # None
  /\ CheckpointConsistent
  /\ LeaseFencesAttempt

(* An idle worker's memory is well typed.                                  *)
LEMMA IdleTypes ==
  ASSUME TypeOK, NEW w \in Workers, Idle(w)
  PROVE  /\ wpc' \in [Workers -> WorkerPC]
         /\ wjob' \in [Workers -> Releases \cup {None}]
         /\ wattempt' \in [Workers -> Nat]
         /\ werr' \in [Workers -> ErrorCode]
         /\ wkey' \in [Workers -> Keys \cup {None}]
  BY Zenon DEF TypeOK, Idle, WorkerPC, ErrorCode

(* Every step of the pipeline keeps the types and the row structure.       *)
LEMMA TypeRowsStep == TypeOK /\ Rows /\ [Next]_vars => TypeOK' /\ Rows'
<1> SUFFICES ASSUME TypeOK, Rows, [Next]_vars PROVE TypeOK' /\ Rows'
  OBVIOUS
<1> DEFINE Goal == TypeOK' /\ Rows'
<1> USE DEF TypeOK, Rows, jobVars, versionVars, snapVars, workerVars, JobStatus, ErrorCode, VStatus, SnapRow, WorkerPC
<1>1. ASSUME NEW r \in Releases, NEW s \in Snapshots,
              BeginPublish(r, s) \/ WriteSnapshot(r, s) \/ AdmitPackageVersion(r, s) \/
              AbortPublish(r, s)
       PROVE  Goal
  <2>1. CASE BeginPublish(r, s)
    BY Z3T(30), <2>1, KeyAssumption, BoundAssumption DEF BeginPublish
  <2>2. CASE WriteSnapshot(r, s)
    BY <2>2, KeyAssumption, BoundAssumption DEF WriteSnapshot
  <2>3. CASE AdmitPackageVersion(r, s)
    <3>1. ObjectKey[<<r, s>>] \in Keys
      BY Z3T(30), KeyAssumption
    <3>2. TypeOK'
      BY Z3T(30), <2>3, <3>1, BoundAssumption DEF AdmitPackageVersion
    <3>3. Rows'
      BY <2>3, <3>1, BoundAssumption DEF AdmitPackageVersion, Admissible
    <3> QED BY <3>2, <3>3, Zenon
  <2>4. CASE AbortPublish(r, s)
    BY <2>4, KeyAssumption, BoundAssumption, ZenonT(30) DEF AbortPublish
  <2> QED BY <1>1, <2>1, <2>2, <2>3, <2>4, Zenon
<1>2. ASSUME NEW r \in Releases,
              BeginStaticWrite(r) \/ StaticWritten(r) \/ RequestStaticSync(r) \/
              RetryVerificationJob(r) \/ PromotePackageVersion(r) \/ LeaseLapses(r)
       PROVE  Goal
  <2>1. CASE BeginStaticWrite(r)
    BY <2>1, KeyAssumption, BoundAssumption DEF BeginStaticWrite, Visible
  <2>2. CASE StaticWritten(r)
    BY <2>2, KeyAssumption, BoundAssumption, Zenon DEF StaticWritten
  <2>3. CASE RequestStaticSync(r)
    <3>1. CASE jobStatus[r] \in {"running", "publishing"}
      BY <2>3, <3>1, BoundAssumption DEF RequestStaticSync, Fault
    <3>2. CASE jobStatus[r] \notin {"running", "publishing"}
      <4>1. leaseLive' = [leaseLive EXCEPT ![r] = FALSE]
        BY <2>3, <3>2, Zenon DEF RequestStaticSync
      <4>2. leaseLive' \in [Releases -> BOOLEAN]
        BY <4>1, Zenon
      <4>3. /\ jobStatus' \in [Releases -> JobStatus]
            /\ lastError' \in [Releases -> ErrorCode]
            /\ leaseOwner' \in [Releases -> Workers \cup {None}]
        BY Z3T(30), <2>3, <3>2 DEF RequestStaticSync
      <4>a. TypeOK'
        BY Z3T(30), <2>3, <3>2, <4>2, <4>3, BoundAssumption DEF RequestStaticSync, Fault
      <4>b. Rows'
        BY Z3T(30), <2>3, <3>2, BoundAssumption DEF RequestStaticSync, Fault
      <4> QED BY <4>a, <4>b, Zenon
    <3> QED BY <3>1, <3>2, Zenon
  <2>4. CASE RetryVerificationJob(r)
    BY Z3T(30), <2>4, KeyAssumption, BoundAssumption DEF RetryVerificationJob, Visible, Fault
  <2>5. CASE PromotePackageVersion(r)
    BY Z3T(30), <2>5, KeyAssumption, BoundAssumption DEF PromotePackageVersion
  <2>6. CASE LeaseLapses(r)
    BY <2>6, KeyAssumption, BoundAssumption DEF LeaseLapses, Fault
  <2> QED BY <1>2, <2>1, <2>2, <2>3, <2>4, <2>5, <2>6, Zenon
<1>3. ASSUME NEW w \in Workers, NEW r \in Releases,
              ClaimVerificationJob(w, r) \/ ClaimUnderSkew(w, r)
       PROVE  Goal
  <2>1. CASE ClaimVerificationJob(w, r)
    BY Z3T(30), <2>1, BoundAssumption DEF ClaimVerificationJob, TakeLease, Lease, Claimable
  <2>2. CASE ClaimUnderSkew(w, r)
    BY Z3T(30), <2>2, KeyAssumption, BoundAssumption DEF ClaimUnderSkew, TakeLease, Lease, Fault
  <2> QED BY <1>3, <2>1, <2>2, ZenonT(30)
<1>4. ASSUME NEW w \in Workers, BuildPasses(w) \/ BuildRejected(w) \/ BuildBreaks(w) PROVE Goal
  <2>1. CASE BuildPasses(w)
    BY Z3T(30), <2>1, KeyAssumption, BoundAssumption DEF BuildPasses, Goto
  <2>2. CASE BuildRejected(w)
    BY Z3T(30), <2>2, KeyAssumption, BoundAssumption DEF BuildRejected, Throw
  <2>3. CASE BuildBreaks(w)
    BY <2>3, KeyAssumption, BoundAssumption DEF BuildBreaks, Throw, Fault
  <2> QED BY <1>4, <2>1, <2>2, <2>3, Zenon
<1>5. ASSUME NEW w \in Workers,
              PromoteVerifiedBuildForJob(w) \/ ResumePublication(w) \/ SyncStatic(w) \/
              SyncStaticFails(w)
       PROVE  Goal
  <2>1. CASE PromoteVerifiedBuildForJob(w)
    <3> DEFINE r == wjob[w]
    <3>0. r \in Releases /\ vstatus[r] # "none"
      BY <2>1 DEF PromoteVerifiedBuildForJob
    <3>1. CASE jobStatus[r] = "running" /\ HoldsLease(w, r)
      <4>1. evidence' = [evidence EXCEPT ![r] = TRUE]
        BY <2>1, <3>1, Zenon DEF PromoteVerifiedBuildForJob
      <4>2. evidence' \in [Releases -> BOOLEAN]
        BY <4>1, Zenon
      <4>a. TypeOK'
        BY Z3T(30), <2>1, <3>0, <3>1, <4>2 DEF PromoteVerifiedBuildForJob, Goto
      <4>b. Rows'
        BY Z3T(30), <2>1, <3>0, <3>1 DEF PromoteVerifiedBuildForJob, Goto
      <4> QED BY <4>a, <4>b, Zenon
    <3>2. CASE ~(jobStatus[r] = "running" /\ HoldsLease(w, r))
      BY Z3T(30), <2>1, <3>0, <3>2 DEF PromoteVerifiedBuildForJob, Throw
    <3> QED BY <3>1, <3>2, Zenon
  <2>2. CASE ResumePublication(w)
    <3>1. CASE vstatus[wjob[w]] = "accepted"
      BY Z3T(30), <2>2, <3>1 DEF ResumePublication, Goto
    <3>2. CASE vstatus[wjob[w]] # "accepted"
      BY Z3T(30), <2>2, <3>2 DEF ResumePublication, Throw
    <3> QED BY <3>1, <3>2, Zenon
  <2>3. CASE SyncStatic(w)
    BY Z3T(30), <2>3, KeyAssumption, BoundAssumption DEF SyncStatic, Goto, Visible
  <2>4. CASE SyncStaticFails(w)
    BY <2>4, KeyAssumption, BoundAssumption DEF SyncStaticFails, Throw, Fault, Visible
  <2> QED BY <1>5, <2>1, <2>2, <2>3, <2>4, Zenon
<1>6. ASSUME NEW w \in Workers,
              CompleteVerificationJob(w) \/ FailVerificationJob(w) \/ WorkerCrash(w)
       PROVE  Goal
  <2>1. CASE CompleteVerificationJob(w)
    <3> DEFINE r == wjob[w]
    <3>0. r \in Releases /\ vstatus[r] # "none"
      BY <2>1 DEF CompleteVerificationJob
    <3>1. CASE jobStatus[r] = "publishing" /\ HoldsLease(w, r)
      <4>1. leaseLive' = [leaseLive EXCEPT ![r] = FALSE]
        BY <2>1, <3>1, Zenon DEF CompleteVerificationJob
      <4>2. leaseLive' \in [Releases -> BOOLEAN]
        BY <4>1, Zenon
      <4>3. /\ jobStatus' \in [Releases -> JobStatus]
            /\ lastError' \in [Releases -> ErrorCode]
            /\ leaseOwner' \in [Releases -> Workers \cup {None}]
        BY Z3T(30), <2>1, <3>0 DEF CompleteVerificationJob
      <4>a. TypeOK'
        BY <2>1, <3>0, <3>1, <4>2, <4>3, IdleTypes, Zenon DEF CompleteVerificationJob
      <4>b. Rows'
        BY Z3T(30), <2>1, <3>1 DEF CompleteVerificationJob, Idle
      <4> QED BY <4>a, <4>b, Zenon
    <3>2. CASE ~(jobStatus[r] = "publishing" /\ HoldsLease(w, r))
      BY Z3T(30), <2>1, <3>0, <3>2 DEF CompleteVerificationJob, Throw
    <3> QED BY <3>1, <3>2, Zenon
  <2>2. CASE FailVerificationJob(w)
    <3> DEFINE r == wjob[w]
    <3>0. r \in Releases /\ vstatus[r] # "none"
      BY <2>2 DEF FailVerificationJob
    <3>1. CASE jobStatus[r] \in {"running", "publishing"} /\ HoldsLease(w, r)
      <4>a. leaseLive' = [leaseLive EXCEPT ![r] = FALSE]
        BY <2>2, <3>1, ZenonT(30) DEF FailVerificationJob
      <4>b. leaseLive' \in [Releases -> BOOLEAN]
        BY <4>a, Zenon
      <4>c. /\ jobStatus' \in [Releases -> JobStatus]
            /\ lastError' \in [Releases -> ErrorCode]
            /\ leaseOwner' \in [Releases -> Workers \cup {None}]
        BY Z3T(30), <2>2, <3>1 DEF FailVerificationJob
      <4>1. CASE werr[w] = "rejected"
        <5>a. TypeOK'
          BY Z3T(30), <2>2, <3>0, <3>1, <4>b, <4>c, <4>1 DEF FailVerificationJob, Goto
        <5>b. Rows'
          BY <2>2, <3>0, <3>1, <4>1 DEF FailVerificationJob, Goto
        <5> QED BY <5>a, <5>b, Zenon
      <4>2. CASE werr[w] # "rejected"
        <5>a. TypeOK'
          BY <2>2, <3>0, <3>1, <4>b, <4>c, <4>2, IdleTypes, ZenonT(30) DEF FailVerificationJob
        <5>b. Rows'
          BY Z3T(30), <2>2, <3>0, <3>1, <4>2 DEF FailVerificationJob, Idle
        <5> QED BY <5>a, <5>b, Zenon
      <4> QED BY <4>1, <4>2, Zenon
    <3>2. CASE ~(jobStatus[r] \in {"running", "publishing"} /\ HoldsLease(w, r))
      <4>1. /\ Idle(w) /\ UNCHANGED <<jobStatus, attempt, leaseOwner, leaseLive, evidence, lastError>>
            /\ UNCHANGED <<vstatus, snapOf, purgedAt, snapRow, r2Key, tombJob, tombAttempt>>
            /\ UNCHANGED <<objects, publishing, staticDue, faults>>
        BY <2>2, <3>2, ZenonT(30) DEF FailVerificationJob
      <4>a. TypeOK'
        BY <4>1, IdleTypes, ZenonT(30)
      <4>b. Rows'
        BY Z3T(30), <2>2, <3>0, <3>2 DEF FailVerificationJob, Idle
      <4> QED BY <4>a, <4>b, Zenon
    <3> QED BY <3>1, <3>2, Zenon
  <2>3. CASE WorkerCrash(w)
    BY <2>3, KeyAssumption, BoundAssumption DEF WorkerCrash, Idle, Fault
  <2> QED BY <1>6, <2>1, <2>2, <2>3, Zenon
<1>7. ASSUME NEW w \in Workers,
              TombstoneSnapshot(w) \/ PurgeDeclined(w) \/ DeleteObject(w)
       PROVE  Goal
  <2>1. CASE TombstoneSnapshot(w)
    <3> DEFINE r == wjob[w]
               s == snapOf[r]
    <3>0. /\ r \in Releases /\ vstatus[r] # "none"
          /\ s \in Snapshots /\ snapRow[s] # "absent" /\ r2Key[s] # None
      BY Z3T(30), <2>1 DEF TombstoneSnapshot
    <3>1. CASE ProtectedReference(r)
      <4>a. TypeOK'
        BY Z3T(30), <2>1, <3>0, <3>1 DEF TombstoneSnapshot, Idle
      <4>b. Rows'
        BY <2>1, <3>1 DEF TombstoneSnapshot, Idle
      <4> QED BY <4>a, <4>b, Zenon
    <3>2. CASE ~ProtectedReference(r)
      <4>1. purgedAt' = [o \in Releases |-> purgedAt[o] \/ snapOf[o] = s]
        BY <2>1, <3>2, Zenon DEF TombstoneSnapshot
      <4>2. purgedAt' \in [Releases -> BOOLEAN]
        BY <4>1, Zenon
      <4>3. snapRow' \in [Snapshots -> SnapRow] /\ tombAttempt' \in [Snapshots -> Nat]
        BY Z3T(30), <2>1, <3>0, <3>2 DEF TombstoneSnapshot
      <4>5. tombJob' = [tombJob EXCEPT ![s] = r]
        BY <2>1, <3>0, <3>2, Zenon DEF TombstoneSnapshot
      <4>6. tombJob' \in [Snapshots -> Releases \cup {None}]
        BY <3>0, <4>5, Zenon
      <4>4. /\ vstatus' \in [Releases -> VStatus]
            /\ wpc' \in [Workers -> WorkerPC]
            /\ wkey' \in [Workers -> Keys \cup {None}]
        BY Z3T(30), <2>1, <3>2 DEF TombstoneSnapshot
      <4>a. TypeOK'
        BY Z3T(30), <2>1, <3>0, <3>2, <4>2, <4>3, <4>4, <4>6 DEF TombstoneSnapshot
      <4>b. Rows'
        BY Z3T(30), <2>1, <3>2 DEF TombstoneSnapshot
      <4> QED BY <4>a, <4>b, Zenon
    <3> QED BY <3>1, <3>2, Zenon
  <2>2. CASE PurgeDeclined(w)
    BY Z3T(30), <2>2, KeyAssumption, BoundAssumption DEF PurgeDeclined, Idle
  <2>3. CASE DeleteObject(w)
    <3>a. TypeOK'
      BY Z3T(30), <2>3, KeyAssumption, BoundAssumption DEF DeleteObject, Idle, Fault
    <3>b. Rows'
      BY Z3T(30), <2>3, KeyAssumption, BoundAssumption DEF DeleteObject, Idle, Fault
    <3> QED BY <3>a, <3>b, Zenon
  <2> QED BY <1>7, <2>1, <2>2, <2>3, Zenon
<1>8. ASSUME NEW w \in Workers, NEW s \in Snapshots, SweepPendingPurge(w, s) PROVE Goal
  BY <1>8, KeyAssumption, BoundAssumption DEF SweepPendingPurge
<1>9. CASE UNCHANGED vars
  BY <1>9, Zenon DEF vars
<1> QED BY <1>1, <1>2, <1>3, <1>4, <1>5, <1>6, <1>7, <1>8, <1>9, Zenon DEF Next, Handlers, WorkerStep

(* The types of what the queue's invariant speaks of.                      *)
QueueTypes ==
  /\ jobStatus \in [Releases -> JobStatus]
  /\ attempt \in [Releases -> Nat]
  /\ leaseOwner \in [Releases -> Workers \cup {None}]
  /\ leaseLive \in [Releases -> BOOLEAN]
  /\ evidence \in [Releases -> BOOLEAN]
  /\ vstatus \in [Releases -> VStatus]
  /\ wpc \in [Workers -> WorkerPC]
  /\ wjob \in [Workers -> Releases \cup {None}]
  /\ wattempt \in [Workers -> Nat]

(* Steps that move no job, no release and no worker.                       *)
LEMMA QueueFrame ==
  ASSUME Queue, UNCHANGED <<jobVars, versionVars, workerVars>>
  PROVE  Queue'
  BY ZenonT(30) DEF Queue, CheckpointConsistent, LeaseFencesAttempt, jobVars, versionVars, workerVars

(* A step that only lets one worker go idle, or off to a purge.            *)
Aside(w) ==
  /\ wpc'[w] \in {"idle", "purge"}
  /\ \A v \in Workers \ {w} : wpc'[v] = wpc[v] /\ wjob'[v] = wjob[v] /\ wattempt'[v] = wattempt[v]

LEMMA IdleAside ==
  ASSUME QueueTypes, NEW w \in Workers, Idle(w)
  PROVE  Aside(w)
  BY Z3T(30) DEF QueueTypes, Idle, Aside

LEMMA QueueAside ==
  ASSUME Queue, NEW w \in Workers, Aside(w), UNCHANGED <<jobVars, versionVars>>
  PROVE  Queue'
<1>1. UNCHANGED <<jobStatus, attempt, leaseOwner, leaseLive, evidence, vstatus>>
  BY Zenon DEF jobVars, versionVars
<1>2. CheckpointConsistent'
  BY ZenonT(30), <1>1 DEF Queue, CheckpointConsistent
<1>3. \A r \in Releases : leaseLive'[r] => leaseOwner'[r] # None
  BY ZenonT(30), <1>1 DEF Queue
<1>4. LeaseFencesAttempt'
  <2> SUFFICES ASSUME NEW v \in Workers, NEW r \in Releases, leaseOwner'[r] = v, wjob'[v] = r,
                      wpc'[v] \in {"build", "resume", "promote", "sync", "complete", "fail"}
               PROVE  wattempt'[v] = attempt'[r] /\ jobStatus'[r] \in {"running", "publishing"}
    BY ZenonT(30) DEF LeaseFencesAttempt
  <2>1. v # w
    BY Z3T(30) DEF Aside
  <2>2. wpc'[v] = wpc[v] /\ wjob'[v] = wjob[v] /\ wattempt'[v] = wattempt[v]
    BY ZenonT(30), <2>1 DEF Aside
  <2> QED BY ZenonT(30), <1>1, <2>2 DEF Queue, LeaseFencesAttempt
<1> QED BY <1>2, <1>3, <1>4, Zenon DEF Queue

(* Every step of the pipeline keeps the queue's invariant.                 *)
LEMMA QueueStep == TypeOK /\ Rows /\ Queue /\ [Next]_vars => Queue'
<1> SUFFICES ASSUME TypeOK, Rows, Queue, [Next]_vars PROVE Queue'
  OBVIOUS
<1> QueueTypes
  BY Zenon DEF TypeOK, QueueTypes
<1> USE DEF QueueTypes, Queue, CheckpointConsistent, LeaseFencesAttempt, jobVars, versionVars, workerVars
<1>1. ASSUME NEW r \in Releases, NEW s \in Snapshots,
              BeginPublish(r, s) \/ WriteSnapshot(r, s) \/ AdmitPackageVersion(r, s) \/
              AbortPublish(r, s)
       PROVE  Queue'
  <2>1. CASE BeginPublish(r, s)
    BY <2>1, QueueFrame, Zenon DEF BeginPublish
  <2>2. CASE WriteSnapshot(r, s)
    BY <2>2, QueueFrame, ZenonT(30) DEF WriteSnapshot
  <2>3. CASE AdmitPackageVersion(r, s)
    BY <2>3, BoundAssumption DEF AdmitPackageVersion, Admissible, Rows
  <2>4. CASE AbortPublish(r, s)
    BY <2>4, QueueFrame, Zenon DEF AbortPublish
  <2> QED BY <1>1, <2>1, <2>2, <2>3, <2>4, Zenon
<1>2. ASSUME NEW r \in Releases,
              BeginStaticWrite(r) \/ StaticWritten(r) \/ RequestStaticSync(r) \/
              RetryVerificationJob(r) \/ PromotePackageVersion(r) \/ LeaseLapses(r)
       PROVE  Queue'
  <2>1. CASE BeginStaticWrite(r)
    BY <2>1, QueueFrame, Zenon DEF BeginStaticWrite
  <2>2. CASE StaticWritten(r)
    BY <2>2, QueueFrame, ZenonT(30) DEF StaticWritten
  <2>3. CASE RequestStaticSync(r)
    BY Z3T(30), <2>3 DEF RequestStaticSync, Fault
  <2>4. CASE RetryVerificationJob(r)
    BY Z3T(30), <2>4 DEF RetryVerificationJob, Fault
  <2>5. CASE PromotePackageVersion(r)
    BY Z3T(30), <2>5 DEF PromotePackageVersion
  <2>6. CASE LeaseLapses(r)
    BY <2>6 DEF LeaseLapses, Fault
  <2> QED BY <1>2, <2>1, <2>2, <2>3, <2>4, <2>5, <2>6, Zenon
<1>3. ASSUME NEW w \in Workers, NEW r \in Releases,
              ClaimVerificationJob(w, r) \/ ClaimUnderSkew(w, r)
       PROVE  Queue'
  <2>1. CASE ClaimVerificationJob(w, r)
    BY Z3T(30), <2>1, BoundAssumption DEF ClaimVerificationJob, TakeLease, Lease, Claimable
  <2>2. CASE ClaimUnderSkew(w, r)
    BY <2>2, BoundAssumption DEF ClaimUnderSkew, TakeLease, Lease, Fault
  <2> QED BY <1>3, <2>1, <2>2, ZenonT(30)
<1>4. ASSUME NEW w \in Workers, BuildPasses(w) \/ BuildRejected(w) \/ BuildBreaks(w) PROVE Queue'
  <2>1. CASE BuildPasses(w)
    BY Z3T(30), <2>1 DEF BuildPasses, Goto
  <2>2. CASE BuildRejected(w)
    BY Z3T(30), <2>2 DEF BuildRejected, Throw
  <2>3. CASE BuildBreaks(w)
    BY <2>3 DEF BuildBreaks, Throw
  <2> QED BY <1>4, <2>1, <2>2, <2>3, ZenonT(30)
<1>5. ASSUME NEW w \in Workers,
              PromoteVerifiedBuildForJob(w) \/ ResumePublication(w) \/ SyncStatic(w) \/
              SyncStaticFails(w)
       PROVE  Queue'
  <2>1. CASE PromoteVerifiedBuildForJob(w)
    BY Z3T(30), <2>1 DEF PromoteVerifiedBuildForJob, Goto, Throw
  <2>2. CASE ResumePublication(w)
    BY Z3T(30), <2>2 DEF ResumePublication, Goto, Throw
  <2>3. CASE SyncStatic(w)
    BY Z3T(30), <2>3 DEF SyncStatic, Goto
  <2>4. CASE SyncStaticFails(w)
    BY <2>4 DEF SyncStaticFails, Throw
  <2> QED BY <1>5, <2>1, <2>2, <2>3, <2>4, ZenonT(30)
<1>6. ASSUME NEW w \in Workers,
              CompleteVerificationJob(w) \/ FailVerificationJob(w) \/ WorkerCrash(w)
       PROVE  Queue'
  <2>1. CASE CompleteVerificationJob(w)
    <3> DEFINE r == wjob[w]
    <3>0. r \in Releases
      BY <2>1 DEF CompleteVerificationJob, Rows
    <3>1. CASE jobStatus[r] = "publishing" /\ HoldsLease(w, r)
      <4>1. CheckpointConsistent'
        BY Z3T(30), <2>1, <3>0, <3>1 DEF CompleteVerificationJob, HoldsLease
      <4>2. LeaseFencesAttempt'
        BY Z3T(30), <2>1, <3>0, <3>1, BoundAssumption DEF CompleteVerificationJob, Idle
      <4>3. \A o \in Releases : leaseLive'[o] => leaseOwner'[o] # None
        BY Z3T(30), <2>1, <3>0, <3>1 DEF CompleteVerificationJob
      <4> QED BY <4>1, <4>2, <4>3, Zenon
    <3>2. CASE ~(jobStatus[r] = "publishing" /\ HoldsLease(w, r))
      BY Z3T(30), <2>1, <3>0, <3>2 DEF CompleteVerificationJob, Throw
    <3> QED BY <3>1, <3>2, ZenonT(30)
  <2>2. CASE FailVerificationJob(w)
    <3>1. CheckpointConsistent'
      BY Z3T(30), <2>2, BoundAssumption DEF FailVerificationJob, Rows, Idle, Goto, HoldsLease
    <3>2. LeaseFencesAttempt'
      BY Z3T(30), <2>2, BoundAssumption DEF FailVerificationJob, Rows, Idle, Goto, HoldsLease
    <3>3. \A o \in Releases : leaseLive'[o] => leaseOwner'[o] # None
      BY Z3T(30), <2>2, BoundAssumption DEF FailVerificationJob, Rows, Idle, Goto, HoldsLease
    <3> QED BY <3>1, <3>2, <3>3, Zenon
  <2>3. CASE WorkerCrash(w)
    BY <2>3, IdleAside, QueueAside, ZenonT(30) DEF WorkerCrash
  <2> QED BY <1>6, <2>1, <2>2, <2>3, Zenon
<1>7. ASSUME NEW w \in Workers,
              TombstoneSnapshot(w) \/ PurgeDeclined(w) \/ DeleteObject(w)
       PROVE  Queue'
  <2>1. CASE TombstoneSnapshot(w)
    BY Z3T(30), <2>1 DEF TombstoneSnapshot, Idle, PurgeApplies
  <2>2. CASE PurgeDeclined(w)
    BY <2>2, IdleAside, QueueAside, ZenonT(30) DEF PurgeDeclined
  <2>3. CASE DeleteObject(w)
    BY <2>3, IdleAside, QueueAside, ZenonT(30) DEF DeleteObject
  <2> QED BY <1>7, <2>1, <2>2, <2>3, Zenon
<1>8. ASSUME NEW w \in Workers, NEW s \in Snapshots, SweepPendingPurge(w, s) PROVE Queue'
  <2>1. Aside(w)
    BY Z3T(30), <1>8 DEF SweepPendingPurge, Aside
  <2> QED BY <1>8, <2>1, QueueAside, ZenonT(30) DEF SweepPendingPurge
<1>9. CASE UNCHANGED vars
  BY <1>9, QueueFrame, Zenon DEF vars
<1> QED BY <1>1, <1>2, <1>3, <1>4, <1>5, <1>6, <1>7, <1>8, <1>9, Zenon DEF Next, Handlers, WorkerStep

-----------------------------------------------------------------------------
(* The inductive invariant of the queue, for any verifier.                 *)

QueueInv == TypeOK /\ Rows /\ Queue

LEMMA QueueInvInit == Init => QueueInv
<1> SUFFICES ASSUME Init PROVE QueueInv
  BY Z3T(30)
<1> USE KeyAssumption, BoundAssumption DEF Init
<1>1. TypeOK
  BY DEF TypeOK, JobStatus, ErrorCode, VStatus, SnapRow, WorkerPC
<1>2. Rows
  BY Zenon DEF Rows
<1>3. Queue
  BY Zenon DEF Queue, CheckpointConsistent, LeaseFencesAttempt
<1> QED BY <1>1, <1>2, <1>3, Zenon DEF QueueInv

LEMMA QueueInvStep == QueueInv /\ [Next]_vars => QueueInv'
  BY TypeRowsStep, QueueStep, Zenon DEF QueueInv

LEMMA QueueInvAlways == Spec => []QueueInv
  BY QueueInvInit, QueueInvStep, PTL DEF Spec

(* Type correctness of the pipeline: every row and every piece of worker   *)
(* memory stays in its domain, whatever interleaves and whatever fails.    *)
THEOREM TypeCorrect == Spec => []TypeOK
<1>1. QueueInv => TypeOK
  BY Zenon DEF QueueInv
<1> QED BY <1>1, QueueInvAlways, PTL

(* The queue's checkpoint and its leases fit the release rows: the CHECKs  *)
(* of the schema are never hit, and evidence belongs to accepted releases. *)
THEOREM CheckpointAlways == Spec => []CheckpointConsistent
<1>1. QueueInv => CheckpointConsistent
  BY Zenon DEF QueueInv, Queue
<1> QED BY <1>1, QueueInvAlways, PTL

(* lease_owner alone fences stale workers, for any number of workers and   *)
(* although the claim trusts the workers' clocks.                          *)
THEOREM LeaseFencesAlways == Spec => []LeaseFencesAttempt
<1>1. QueueInv => LeaseFencesAttempt
  BY Zenon DEF QueueInv, Queue
<1> QED BY <1>1, QueueInvAlways, PTL

-----------------------------------------------------------------------------
(* What the purge may take: releases, snapshots and bytes, on top of the    *)
(* queue's invariant; and what no step takes back, two action properties.   *)

Hidden(s) == snapRow[s] \in {"pending_delete", "purged"}

(* A snapshot row's key is one an upload of that snapshot was written to.  *)
KeyOfSnapshot ==
  \A s \in Snapshots : snapRow[s] # "absent" => \E r \in Releases : r2Key[s] = ObjectKey[<<r, s>>]

(* Bytes stay until their snapshot is hidden, for a handler that has       *)
(* written them and is about to admit them too.                            *)
BytesPresent ==
  /\ \A s \in Snapshots : snapRow[s] = "visible" => r2Key[s] \in objects
  /\ \A r \in Releases, s \in Snapshots :
       <<r, s, "written">> \in publishing => ObjectKey[<<r, s>>] \in objects \/ Hidden(s)

(* Only judged releases hang on a hidden snapshot, and the marks agree.    *)
MarksFit ==
  /\ \A r \in Releases : vstatus[r] = "none" => ~purgedAt[r]
  /\ \A r \in Releases : vstatus[r] = "pending" => ~Hidden(snapOf[r])
  /\ PurgeMarksAgree

Retention == KeyOfSnapshot /\ BytesPresent /\ MarksFit

(* What the releases, the snapshots and the object store hold, and the     *)
(* steps that write any of it.                                             *)
store == <<vstatus, snapOf, purgedAt, evidence, snapRow, r2Key, tombJob, tombAttempt, objects, publishing>>
StoreStep ==
  \/ \E r \in Releases, s \in Snapshots :
       BeginPublish(r, s) \/ WriteSnapshot(r, s) \/ AdmitPackageVersion(r, s) \/ AbortPublish(r, s)
  \/ \E r \in Releases : PromotePackageVersion(r)
  \/ \E w \in Workers : PromoteVerifiedBuildForJob(w) \/ TombstoneSnapshot(w) \/ DeleteObject(w)

LEMMA StoreSteps ==
  ASSUME [Next]_vars
  PROVE  StoreStep \/ UNCHANGED store
<1> USE DEF store, jobVars, versionVars, snapVars
<1>1. ASSUME NEW r \in Releases, BeginStaticWrite(r) PROVE UNCHANGED store
  BY <1>1, Zenon DEF BeginStaticWrite
<1>2. ASSUME NEW r \in Releases, StaticWritten(r) PROVE UNCHANGED store
  BY <1>2, Zenon DEF StaticWritten
<1>3. ASSUME NEW r \in Releases, RequestStaticSync(r) PROVE UNCHANGED store
  BY <1>3, Zenon DEF RequestStaticSync
<1>4. ASSUME NEW r \in Releases, RetryVerificationJob(r) PROVE UNCHANGED store
  BY <1>4, Zenon DEF RetryVerificationJob
<1>5. ASSUME NEW r \in Releases, LeaseLapses(r) PROVE UNCHANGED store
  BY <1>5, Zenon DEF LeaseLapses
<1>6. ASSUME NEW w \in Workers, NEW r \in Releases, ClaimVerificationJob(w, r) PROVE UNCHANGED store
  BY <1>6, Zenon DEF ClaimVerificationJob, TakeLease, Lease
<1>7. ASSUME NEW w \in Workers, NEW r \in Releases, ClaimUnderSkew(w, r) PROVE UNCHANGED store
  BY <1>7, Zenon DEF ClaimUnderSkew, TakeLease, Lease
<1>8. ASSUME NEW w \in Workers, BuildPasses(w) PROVE UNCHANGED store
  BY <1>8, Zenon DEF BuildPasses
<1>9. ASSUME NEW w \in Workers, BuildRejected(w) PROVE UNCHANGED store
  BY <1>9, Zenon DEF BuildRejected
<1>10. ASSUME NEW w \in Workers, BuildBreaks(w) PROVE UNCHANGED store
  BY <1>10, Zenon DEF BuildBreaks
<1>11. ASSUME NEW w \in Workers, ResumePublication(w) PROVE UNCHANGED store
  BY <1>11, Zenon DEF ResumePublication
<1>12. ASSUME NEW w \in Workers, SyncStatic(w) PROVE UNCHANGED store
  BY <1>12, Zenon DEF SyncStatic
<1>13. ASSUME NEW w \in Workers, SyncStaticFails(w) PROVE UNCHANGED store
  BY <1>13, Zenon DEF SyncStaticFails
<1>14. ASSUME NEW w \in Workers, CompleteVerificationJob(w) PROVE UNCHANGED store
  BY <1>14, Zenon DEF CompleteVerificationJob
<1>15. ASSUME NEW w \in Workers, FailVerificationJob(w) PROVE UNCHANGED store
  BY <1>15, Zenon DEF FailVerificationJob
<1>16. ASSUME NEW w \in Workers, WorkerCrash(w) PROVE UNCHANGED store
  BY <1>16, Zenon DEF WorkerCrash
<1>17. ASSUME NEW w \in Workers, PurgeDeclined(w) PROVE UNCHANGED store
  BY <1>17, Zenon DEF PurgeDeclined
<1>18. ASSUME NEW w \in Workers, NEW s \in Snapshots, SweepPendingPurge(w, s) PROVE UNCHANGED store
  BY <1>18, Zenon DEF SweepPendingPurge
<1>19. CASE UNCHANGED vars
  BY <1>19, Zenon DEF vars
<1> QED
  BY <1>1, <1>2, <1>3, <1>4, <1>5, <1>6, <1>7, <1>8, <1>9, <1>10, <1>11, <1>12, <1>13, <1>14, <1>15, <1>16, <1>17, <1>18, <1>19, Zenon
  DEF Next, Handlers, WorkerStep, StoreStep

(* Steps that move neither a release, a snapshot, the store nor an upload.  *)
LEMMA RetentionFrame ==
  ASSUME Retention, UNCHANGED <<vstatus, snapOf, purgedAt, snapRow, r2Key, objects, publishing>>
  PROVE  Retention'
  BY Zenon DEF Retention, KeyOfSnapshot, BytesPresent, MarksFit, PurgeMarksAgree, Hidden

(* Every step of the pipeline keeps the retention invariant.               *)
LEMMA RetentionStep == TypeOK /\ Rows /\ Retention /\ [Next]_vars => Retention'
<1> SUFFICES ASSUME TypeOK, Rows, Retention, [Next]_vars PROVE Retention'
  OBVIOUS
<1>1. ASSUME NEW r \in Releases, NEW s \in Snapshots, BeginPublish(r, s) PROVE Retention'
  <2>1. KeyOfSnapshot'
    BY <1>1, Zenon DEF BeginPublish, Retention, KeyOfSnapshot, snapVars
  <2>2. BytesPresent'
    BY <1>1, KeyAssumption, BoundAssumption, Zenon DEF BeginPublish, TypeOK, Rows, Hidden, Retention, KeyOfSnapshot, BytesPresent, MarksFit, PurgeMarksAgree, versionVars, snapVars, VStatus, SnapRow
  <2>3. MarksFit'
    BY <1>1, KeyAssumption, BoundAssumption, Zenon DEF BeginPublish, TypeOK, Rows, Hidden, Retention, KeyOfSnapshot, BytesPresent, MarksFit, PurgeMarksAgree, versionVars, snapVars, VStatus, SnapRow
  <2> QED BY <2>1, <2>2, <2>3, Zenon DEF Retention
<1>2. ASSUME NEW r \in Releases, NEW s \in Snapshots, WriteSnapshot(r, s) PROVE Retention'
  <2>1. KeyOfSnapshot'
    BY <1>2, Zenon DEF WriteSnapshot, Retention, KeyOfSnapshot, snapVars
  <2>2. BytesPresent'
    BY <1>2, Zenon DEF WriteSnapshot, Hidden, Retention, BytesPresent, snapVars
  <2>3. MarksFit'
    BY <1>2, KeyAssumption, BoundAssumption, Zenon DEF WriteSnapshot, TypeOK, Rows, Hidden, Retention, KeyOfSnapshot, BytesPresent, MarksFit, PurgeMarksAgree, versionVars, snapVars, VStatus, SnapRow
  <2> QED BY <2>1, <2>2, <2>3, Zenon DEF Retention
<1>3. ASSUME NEW r \in Releases, NEW s \in Snapshots, AdmitPackageVersion(r, s) PROVE Retention'
  <2>1. KeyOfSnapshot'
    <3> SUFFICES ASSUME NEW t \in Snapshots, snapRow'[t] # "absent"
                 PROVE  \E o \in Releases : r2Key'[t] = ObjectKey[<<o, t>>]
      BY Zenon DEF KeyOfSnapshot
    <3>1. CASE t = s
      <4>1. r2Key'[s] = ObjectKey[<<r, s>>]
        BY <1>3, ZenonT(30) DEF AdmitPackageVersion, Admissible, TypeOK, Rows, SnapRow
      <4> QED BY <3>1, <4>1, Zenon
    <3>2. CASE t # s
      BY <1>3, <3>2 DEF AdmitPackageVersion, Retention, KeyOfSnapshot
    <3> QED BY <3>1, <3>2, Zenon
  <2>2. BytesPresent'
    <3>1. r2Key'[s] = ObjectKey[<<r, s>>] /\ snapRow'[s] = "visible"
      BY <1>3 DEF AdmitPackageVersion, Admissible, TypeOK, Rows, SnapRow
    <3>2. ObjectKey[<<r, s>>] \in objects
      BY <1>3, Zenon DEF AdmitPackageVersion, Admissible, Retention, BytesPresent, Hidden
    <3>3. \A t \in Snapshots : t # s => snapRow'[t] = snapRow[t] /\ r2Key'[t] = r2Key[t]
      BY <1>3, Zenon DEF AdmitPackageVersion, TypeOK
    <3>4. objects' = objects /\ publishing' \subseteq publishing
      BY <1>3, Zenon DEF AdmitPackageVersion
    <3>5. \A t \in Snapshots : Hidden(t) => Hidden(t)'
      BY <1>3, <3>3, Zenon DEF Hidden, AdmitPackageVersion, Admissible
    <3>6. \A t \in Snapshots : snapRow'[t] = "visible" => r2Key'[t] \in objects'
      BY <3>1, <3>2, <3>3, <3>4, ZenonT(30) DEF Retention, BytesPresent
    <3> QED BY <3>4, <3>5, <3>6, ZenonT(30) DEF Retention, BytesPresent
  <2>3. MarksFit'
    BY <1>3 DEF AdmitPackageVersion, Admissible, TypeOK, Hidden, Retention, MarksFit, PurgeMarksAgree
  <2> QED BY <2>1, <2>2, <2>3, Zenon DEF Retention
<1>4. ASSUME NEW r \in Releases, NEW s \in Snapshots, AbortPublish(r, s) PROVE Retention'
  <2>1. KeyOfSnapshot'
    BY <1>4, Zenon DEF AbortPublish, Retention, KeyOfSnapshot, snapVars
  <2>2. BytesPresent'
    BY <1>4, KeyAssumption, BoundAssumption, Zenon DEF AbortPublish, TypeOK, Rows, Hidden, Retention, KeyOfSnapshot, BytesPresent, MarksFit, PurgeMarksAgree, versionVars, snapVars, VStatus, SnapRow
  <2>3. MarksFit'
    BY <1>4, KeyAssumption, BoundAssumption, Zenon DEF AbortPublish, TypeOK, Rows, Hidden, Retention, KeyOfSnapshot, BytesPresent, MarksFit, PurgeMarksAgree, versionVars, snapVars, VStatus, SnapRow
  <2> QED BY <2>1, <2>2, <2>3, Zenon DEF Retention
<1>5. ASSUME NEW r \in Releases, PromotePackageVersion(r) PROVE Retention'
  <2>1. KeyOfSnapshot'
    BY <1>5, Zenon DEF PromotePackageVersion, Retention, KeyOfSnapshot, snapVars
  <2>2. BytesPresent'
    BY <1>5, KeyAssumption, BoundAssumption, ZenonT(30) DEF PromotePackageVersion, TypeOK, Rows, Hidden, Retention, KeyOfSnapshot, BytesPresent, MarksFit, PurgeMarksAgree, versionVars, snapVars, VStatus, SnapRow
  <2>3. MarksFit'
    BY Z3T(30), <1>5, KeyAssumption, BoundAssumption DEF PromotePackageVersion, TypeOK, Rows, Hidden, Retention, KeyOfSnapshot, BytesPresent, MarksFit, PurgeMarksAgree, versionVars, snapVars, VStatus, SnapRow
  <2> QED BY <2>1, <2>2, <2>3, Zenon DEF Retention
<1>6. ASSUME NEW w \in Workers, PromoteVerifiedBuildForJob(w) PROVE Retention'
  <2>0. wjob[w] \in Releases /\ vstatus[wjob[w]] # "none"
    BY <1>6 DEF PromoteVerifiedBuildForJob, TypeOK, Rows
  <2>1. KeyOfSnapshot'
    BY <1>6, Zenon DEF PromoteVerifiedBuildForJob, Retention, KeyOfSnapshot, snapVars
  <2>2. BytesPresent'
    BY <1>6, <2>0, KeyAssumption, BoundAssumption, ZenonT(30) DEF PromoteVerifiedBuildForJob, TypeOK, Rows, Hidden, Retention, KeyOfSnapshot, BytesPresent, MarksFit, PurgeMarksAgree, versionVars, snapVars, VStatus, SnapRow
  <2>3. MarksFit'
    BY Z3T(30), <1>6, <2>0 DEF PromoteVerifiedBuildForJob, TypeOK, Hidden, Retention, MarksFit, PurgeMarksAgree, snapVars, SnapRow
  <2> QED BY <2>1, <2>2, <2>3, Zenon DEF Retention
<1>7. ASSUME NEW w \in Workers, TombstoneSnapshot(w) PROVE Retention'
  <2>0. /\ wjob[w] \in Releases /\ vstatus[wjob[w]] # "none"
        /\ snapOf[wjob[w]] \in Snapshots /\ snapRow[snapOf[wjob[w]]] # "absent"
    BY <1>7 DEF TombstoneSnapshot, TypeOK, Rows
  <2>1. KeyOfSnapshot'
    <3>1. /\ r2Key' = r2Key
          /\ \A t \in Snapshots : snapRow'[t] # "absent" => snapRow[t] # "absent"
      BY ZenonT(30), <1>7, <2>0 DEF TombstoneSnapshot, snapVars, TypeOK
    <3> QED BY <3>1, Zenon DEF Retention, KeyOfSnapshot
  <2>2. BytesPresent'
    <3> DEFINE s == snapOf[wjob[w]]
    <3>1. UNCHANGED <<r2Key, objects, publishing>>
      BY <1>7, ZenonT(30) DEF TombstoneSnapshot, snapVars
    <3>2. snapRow' = snapRow \/ snapRow' = [snapRow EXCEPT ![s] = "pending_delete"]
      BY <1>7, ZenonT(30) DEF TombstoneSnapshot, snapVars
    <3> HIDE DEF s
    <3>3. \A t \in Snapshots : /\ snapRow'[t] = "visible" => snapRow[t] = "visible"
                               /\ Hidden(t) => Hidden(t)'
      BY <3>2, ZenonT(30) DEF TypeOK, Hidden
    <3> QED BY <3>1, <3>3, ZenonT(30) DEF Retention, BytesPresent
  <2>3. MarksFit'
    <3> DEFINE r == wjob[w]
               s == snapOf[r]
    <3>1. vstatus' = [vstatus EXCEPT ![r] = "rejected"] /\ snapOf' = snapOf
      BY <1>7, Zenon DEF TombstoneSnapshot
    <3>2. CASE ProtectedReference(r)
      <4>1. UNCHANGED <<purgedAt, snapRow>>
        BY <1>7, <3>2, Zenon DEF TombstoneSnapshot, snapVars
      <4> QED BY <2>0, <3>1, <4>1 DEF Retention, MarksFit, PurgeMarksAgree, Hidden, TypeOK, VStatus
    <3>3. CASE ~ProtectedReference(r)
      <4>1. /\ purgedAt' = [o \in Releases |-> purgedAt[o] \/ snapOf[o] = s]
            /\ snapRow' = [snapRow EXCEPT ![s] = "pending_delete"]
        BY <1>7, <3>3, Zenon DEF TombstoneSnapshot
      <4>2. \A o \in Releases : snapOf[o] = s /\ o # r => vstatus[o] = "rejected"
        BY <3>3, ZenonT(30) DEF ProtectedReference
      <4>3. \A o \in Releases : vstatus'[o] = "none" => ~purgedAt'[o]
        BY Z3T(30), <2>0, <3>1, <4>1, BoundAssumption DEF Retention, MarksFit, Rows, TypeOK, VStatus
      <4>4. \A o \in Releases : vstatus'[o] = "pending" => ~Hidden(snapOf[o])'
        BY <2>0, <3>1, <4>1, <4>2, BoundAssumption DEF Retention, MarksFit, Rows, TypeOK, Hidden
      <4>5. PurgeMarksAgree'
        <5> SUFFICES ASSUME NEW o \in Releases, vstatus'[o] # "none"
                     PROVE  purgedAt'[o] <=> snapRow'[snapOf[o]] \in {"pending_delete", "purged"}
          BY <3>1, ZenonT(30) DEF PurgeMarksAgree
        <5>1. vstatus[o] # "none" /\ snapOf[o] \in Snapshots
          BY <2>0, <3>1 DEF Rows, TypeOK
        <5>2. CASE snapOf[o] = s
          BY <2>0, <4>1, <5>2, Zenon DEF TypeOK
        <5>3. CASE snapOf[o] # s
          BY ZenonT(30), <2>0, <4>1, <5>1, <5>3 DEF Retention, MarksFit, PurgeMarksAgree, TypeOK
        <5> QED BY <5>2, <5>3, Zenon
      <4> QED BY <3>1, <4>3, <4>4, <4>5, Zenon DEF MarksFit, Hidden
    <3> QED BY <3>2, <3>3, Zenon
  <2> QED BY <2>1, <2>2, <2>3, Zenon DEF Retention
<1>8. ASSUME NEW w \in Workers, DeleteObject(w) PROVE Retention'
  <2>0. wjob[w] \in Releases /\ vstatus[wjob[w]] # "none"
    BY <1>8 DEF DeleteObject, TypeOK, Rows
  <2> DEFINE s == snapOf[wjob[w]]
  <2>1. KeyOfSnapshot'
    <3>1. /\ r2Key' = r2Key
          /\ \A t \in Snapshots : snapRow'[t] # "absent" => snapRow[t] # "absent"
      BY <1>8, Zenon DEF DeleteObject, TypeOK
    <3> QED BY <3>1, Zenon DEF Retention, KeyOfSnapshot
  <2>2. BytesPresent'
    <3>1. CASE objects' = objects
      <4>1. \A t \in Snapshots : /\ snapRow'[t] = "visible" => snapRow[t] = "visible"
                                 /\ Hidden(t) => Hidden(t)'
        BY <1>8, ZenonT(30) DEF DeleteObject, TypeOK, Hidden
      <4>2. UNCHANGED <<r2Key, publishing>>
        BY <1>8, Zenon DEF DeleteObject
      <4> QED BY <3>1, <4>1, <4>2, Zenon DEF Retention, BytesPresent, Hidden
    <3>2. CASE objects' # objects
      <4>1. /\ s \in Snapshots /\ snapRow[s] = "pending_delete"
            /\ objects' = objects \ {r2Key[s]}
            /\ snapRow' \in {snapRow, [snapRow EXCEPT ![s] = "purged"]}
        BY <1>8, <2>0, <3>2, BoundAssumption DEF DeleteObject, TypeOK, Rows
      <4>2. PICK q \in Releases : r2Key[s] = ObjectKey[<<q, s>>]
        BY <4>1, ZenonT(30) DEF Retention, KeyOfSnapshot
      <4>3. \A o \in Releases, t \in Snapshots : t # s => ObjectKey[<<o, t>>] # r2Key[s]
        BY <4>1, <4>2, KeyAssumption
      <4>4. \A t \in Snapshots : snapRow[t] = "visible" => r2Key[t] # r2Key[s]
        <5> TAKE t \in Snapshots
        <5> HAVE snapRow[t] = "visible"
        <5>1. PICK o \in Releases : r2Key[t] = ObjectKey[<<o, t>>]
          BY Zenon DEF Retention, KeyOfSnapshot
        <5> QED BY <4>1, <4>3, <5>1, ZenonT(30)
      <4>5. \A t \in Snapshots : /\ snapRow'[t] = "visible" => snapRow[t] = "visible"
                                 /\ Hidden(t) => Hidden(t)'
        BY <4>1, Zenon DEF TypeOK, Hidden
      <4>6. \A t \in Snapshots : snapRow'[t] = "visible" => r2Key[t] \in objects'
        <5> TAKE t \in Snapshots
        <5> HAVE snapRow'[t] = "visible"
        <5>1. r2Key[t] \in objects
          BY <4>5, Zenon DEF Retention, BytesPresent
        <5>2. r2Key[t] # r2Key[s]
          BY <4>4, <4>5, Zenon
        <5> QED BY <4>1, <5>1, <5>2, Zenon
      <4>7. \A o \in Releases, t \in Snapshots : <<o, t, "written">> \in publishing =>
              ObjectKey[<<o, t>>] \in objects' \/ Hidden(t)'
        <5> TAKE o \in Releases, t \in Snapshots
        <5> HAVE <<o, t, "written">> \in publishing
        <5>1. CASE t = s
          BY <4>1, <4>5, <5>1, Zenon DEF Hidden
        <5>2. CASE t # s
          <6>1. ObjectKey[<<o, t>>] \in objects \/ Hidden(t)
            BY Zenon DEF Retention, BytesPresent
          <6>2. ObjectKey[<<o, t>>] # r2Key[s]
            BY <4>3, <5>2, Zenon
          <6> QED BY <4>1, <4>5, <6>1, <6>2, Zenon
        <5> QED BY <5>1, <5>2, Zenon
      <4>8. UNCHANGED <<r2Key, publishing>>
        BY <1>8, ZenonT(30) DEF DeleteObject
      <4> QED BY <4>6, <4>7, <4>8, ZenonT(30) DEF BytesPresent, Hidden
    <3> QED BY <3>1, <3>2, Zenon
  <2>3. MarksFit'
    BY <1>8 DEF DeleteObject, TypeOK, Rows, Hidden, Retention, MarksFit, PurgeMarksAgree, versionVars, VStatus, SnapRow
  <2> QED BY <2>1, <2>2, <2>3, Zenon DEF Retention
<1>9. CASE UNCHANGED store
  BY <1>9, RetentionFrame, Zenon DEF store
<1> QED BY <1>1, <1>2, <1>3, <1>4, <1>5, <1>6, <1>7, <1>8, <1>9, StoreSteps, Zenon DEF StoreStep

-----------------------------------------------------------------------------
(* The inductive invariant, whatever the verifier answers.                 *)

Inv == TypeOK /\ Rows /\ Queue /\ Retention

LEMMA InvInit == Init => Inv
<1> SUFFICES ASSUME Init PROVE Inv
  OBVIOUS
<1>1. QueueInv
  BY QueueInvInit, Zenon
<1>2. Retention
  BY KeyAssumption, BoundAssumption, Zenon
  DEF Init, Retention, KeyOfSnapshot, BytesPresent, MarksFit, PurgeMarksAgree, Hidden
<1> QED BY <1>1, <1>2, Zenon DEF Inv, QueueInv

LEMMA InvStep == Inv /\ [Next]_vars => Inv'
  BY TypeRowsStep, QueueStep, RetentionStep, Zenon DEF Inv

LEMMA InvAlways == Spec => []Inv
  BY InvInit, InvStep, PTL DEF Spec

(* The purge never takes the source of a release that is still pending,    *)
(* however many releases share it, whatever the verifier answers.          *)
THEOREM PendingRetainedAlways == Spec => []PendingSourceRetained
<1>1. Inv => PendingSourceRetained
  <2> SUFFICES ASSUME Inv, NEW r \in Releases, vstatus[r] = "pending"
               PROVE  snapRow[snapOf[r]] = "visible" /\ r2Key[snapOf[r]] \in objects
    BY ZenonT(30) DEF PendingSourceRetained
  <2>1. snapOf[r] \in Snapshots /\ snapRow[snapOf[r]] # "absent"
    BY DEF Inv, Rows, TypeOK
  <2>2. snapRow[snapOf[r]] = "visible"
    BY <2>1, Zenon DEF Inv, TypeOK, SnapRow, Retention, MarksFit, Hidden
  <2> QED BY <2>1, <2>2, Zenon DEF Inv, Retention, BytesPresent
<1> QED BY <1>1, InvAlways, PTL

(* source_purged_at is set exactly on the releases of hidden snapshots.    *)
THEOREM PurgeMarksAgreeAlways == Spec => []PurgeMarksAgree
<1>1. Inv => PurgeMarksAgree
  BY ZenonT(30) DEF Inv, Retention, MarksFit
<1> QED BY <1>1, InvAlways, PTL

-----------------------------------------------------------------------------
(* What no step takes back.                                                 *)

(* Two snapshot rows never share an object key.                            *)
LEMMA KeyDistinct ==
  ASSUME KeyOfSnapshot, NEW s \in Snapshots, NEW t \in Snapshots, s # t,
         snapRow[s] # "absent", snapRow[t] # "absent"
  PROVE  r2Key[s] # r2Key[t]
<1>1. PICK p \in Releases : r2Key[s] = ObjectKey[<<p, s>>]
  BY ZenonT(30) DEF KeyOfSnapshot
<1>2. PICK q \in Releases : r2Key[t] = ObjectKey[<<q, t>>]
  BY ZenonT(30) DEF KeyOfSnapshot
<1> DEFINE a == <<p, s>>  b == <<q, t>>
<1>3. a \in Releases \X Snapshots /\ b \in Releases \X Snapshots /\ a[2] = s /\ b[2] = t
  BY Z3T(30)
<1> HIDE DEF a, b
<1>4. ObjectKey[a] # ObjectKey[b]
  BY ZenonT(30), <1>3, KeyAssumption
<1> QED BY ZenonT(30), <1>1, <1>2, <1>4 DEF a, b

(* Steps that touch no snapshot row and no object.                         *)
LEMMA TombstoneFrame ==
  ASSUME UNCHANGED <<snapRow, tombJob, tombAttempt, r2Key, objects>>
  PROVE  TombstoneStep
  BY DEF TombstoneStep

LEMMA TombstoneSteps ==
  ASSUME Inv, [Next]_vars
  PROVE  TombstoneStep
<1>1. ASSUME NEW r \in Releases, NEW s \in Snapshots, BeginPublish(r, s) PROVE TombstoneStep
  BY Z3T(30), <1>1, TombstoneFrame DEF BeginPublish, snapVars
<1>2. ASSUME NEW r \in Releases, NEW s \in Snapshots, WriteSnapshot(r, s) PROVE TombstoneStep
  BY Z3T(30), <1>2 DEF WriteSnapshot, snapVars, TombstoneStep
<1>3. ASSUME NEW r \in Releases, NEW s \in Snapshots, AdmitPackageVersion(r, s) PROVE TombstoneStep
  BY <1>3 DEF AdmitPackageVersion, Admissible, TombstoneStep, Inv, TypeOK
<1>4. ASSUME NEW r \in Releases, NEW s \in Snapshots, AbortPublish(r, s) PROVE TombstoneStep
  BY <1>4, TombstoneFrame DEF AbortPublish, snapVars
<1>5. ASSUME NEW r \in Releases, PromotePackageVersion(r) PROVE TombstoneStep
  BY ZenonT(30), <1>5, TombstoneFrame DEF PromotePackageVersion, snapVars
<1>6. ASSUME NEW w \in Workers, PromoteVerifiedBuildForJob(w) PROVE TombstoneStep
  BY ZenonT(30), <1>6, TombstoneFrame DEF PromoteVerifiedBuildForJob, snapVars
<1>7. ASSUME NEW w \in Workers, TombstoneSnapshot(w) PROVE TombstoneStep
  <2> DEFINE r == wjob[w]
             s == snapOf[r]
  <2>0. r \in Releases /\ s \in Snapshots /\ objects' = objects
    BY <1>7 DEF TombstoneSnapshot, Inv, TypeOK, Rows
  <2>1. CASE ProtectedReference(r)
    <3>1. UNCHANGED <<snapRow, tombJob, tombAttempt, r2Key>>
      BY <1>7, <2>1, ZenonT(30) DEF TombstoneSnapshot, snapVars
    <3> QED BY <2>0, <3>1, TombstoneFrame
  <2>2. CASE ~ProtectedReference(r)
    <3>1. /\ snapRow' = [snapRow EXCEPT ![s] = "pending_delete"]
          /\ tombJob' = [tombJob EXCEPT ![s] = r]
          /\ tombAttempt' = [tombAttempt EXCEPT ![s] = wattempt[w]]
      BY <1>7, <2>2, Zenon DEF TombstoneSnapshot
    <3>2. TombstoneOpen(r, wattempt[w])
      BY Zenon, <1>7 DEF TombstoneSnapshot, PurgeApplies
    <3> QED BY <2>0, <3>1, <3>2 DEF TombstoneOpen, TombstoneStep, Inv, TypeOK
  <2> QED BY Z3T(30), <2>1, <2>2
<1>8. ASSUME NEW w \in Workers, DeleteObject(w) PROVE TombstoneStep
  <2> DEFINE s == snapOf[wjob[w]]
  <2>0. s \in Snapshots
    BY Z3T(30), <1>8 DEF DeleteObject, Inv, TypeOK, Rows
  <2>1. /\ UNCHANGED <<r2Key, tombJob, tombAttempt>>
        /\ snapRow' = snapRow \/ (snapRow[s] = "pending_delete" /\ snapRow' = [snapRow EXCEPT ![s] = "purged"])
        /\ objects' = objects \/ (snapRow[s] = "pending_delete" /\ objects' = objects \ {r2Key[s]})
    BY ZenonT(30), <1>8, <2>0 DEF DeleteObject
  <2>2. \A t \in Snapshots : t # s /\ snapRow[t] # "absent" /\ snapRow[s] # "absent" => r2Key[t] # r2Key[s]
    BY Z3T(30), <2>0, KeyDistinct DEF Inv, Retention
  <2>3. \A t \in Snapshots : snapRow[t] = "pending_delete" => snapRow'[t] \in {"pending_delete", "purged"}
    BY <2>0, <2>1 DEF Inv, TypeOK
  <2>4. \A t \in Snapshots : snapRow[t] = "purged" => snapRow'[t] = "purged"
    BY ZenonT(30), <2>0, <2>1 DEF Inv, TypeOK
  <2>5. \A t \in Snapshots : snapRow[t] # "absent" /\ r2Key[t] \in objects /\ r2Key[t] \notin objects' =>
          snapRow[t] = "pending_delete"
    BY ZenonT(30), <2>0, <2>1, <2>2
  <2> QED BY ZenonT(30), <2>1, <2>3, <2>4, <2>5 DEF TombstoneStep
<1>9. CASE UNCHANGED store
  BY <1>9, TombstoneFrame DEF store
<1> QED BY <1>1, <1>2, <1>3, <1>4, <1>5, <1>6, <1>7, <1>8, <1>9, StoreSteps DEF StoreStep

(* A tombstone is irreversible: no admission, retry, sweep or second purge *)
(* shows a purged source again, and nothing else ever deletes bytes.       *)
THEOREM TombstoneIrreversibleAlways == Spec => TombstoneIrreversible
<1>1. Inv /\ [Next]_vars => [TombstoneStep]_vars
  BY TombstoneSteps
<1> QED BY <1>1, InvAlways, PTL DEF Spec, TombstoneIrreversible

LEMMA AcceptanceFrame ==
  ASSUME UNCHANGED <<vstatus, evidence>>
  PROVE  AcceptanceStep
  BY Z3T(30) DEF AcceptanceStep

LEMMA AcceptanceSteps ==
  ASSUME Inv, [Next]_vars
  PROVE  AcceptanceStep
<1>1. ASSUME NEW r \in Releases, NEW s \in Snapshots, BeginPublish(r, s) PROVE AcceptanceStep
  BY <1>1, AcceptanceFrame DEF BeginPublish, jobVars, versionVars
<1>2. ASSUME NEW r \in Releases, NEW s \in Snapshots, WriteSnapshot(r, s) PROVE AcceptanceStep
  BY ZenonT(30), <1>2, AcceptanceFrame DEF WriteSnapshot, jobVars, versionVars
<1>3. ASSUME NEW r \in Releases, NEW s \in Snapshots, AdmitPackageVersion(r, s) PROVE AcceptanceStep
  BY <1>3 DEF AdmitPackageVersion, Admissible, AcceptanceStep, Inv, TypeOK
<1>4. ASSUME NEW r \in Releases, NEW s \in Snapshots, AbortPublish(r, s) PROVE AcceptanceStep
  BY Z3T(30), <1>4, AcceptanceFrame DEF AbortPublish, jobVars, versionVars
<1>5. ASSUME NEW r \in Releases, PromotePackageVersion(r) PROVE AcceptanceStep
  BY <1>5 DEF PromotePackageVersion, AcceptanceStep, Inv, TypeOK, jobVars
<1>6. ASSUME NEW w \in Workers, PromoteVerifiedBuildForJob(w) PROVE AcceptanceStep
  BY ZenonT(30), <1>6 DEF PromoteVerifiedBuildForJob, AcceptanceStep, Inv, TypeOK
<1>7. ASSUME NEW w \in Workers, TombstoneSnapshot(w) PROVE AcceptanceStep
  BY Zenon, <1>7 DEF TombstoneSnapshot, PurgeApplies, AcceptanceStep, Inv, TypeOK, jobVars
<1>8. ASSUME NEW w \in Workers, DeleteObject(w) PROVE AcceptanceStep
  BY ZenonT(30), <1>8, AcceptanceFrame DEF DeleteObject, jobVars, versionVars
<1>9. CASE UNCHANGED store
  BY <1>9, AcceptanceFrame DEF store
<1> QED BY <1>1, <1>2, <1>3, <1>4, <1>5, <1>6, <1>7, <1>8, <1>9, StoreSteps DEF StoreStep

(* Accepted evidence is final, whatever the verifier answers later.        *)
THEOREM AcceptanceIsFinalAlways == Spec => AcceptanceIsFinal
<1>1. Inv /\ [Next]_vars => [AcceptanceStep]_vars
  BY AcceptanceSteps
<1> QED BY <1>1, InvAlways, PTL DEF Spec, AcceptanceIsFinal

=============================================================================
