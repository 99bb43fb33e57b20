---------------------- MODULE VerificationLedgerProofs ----------------------
(* The pipeline implements the ledger, for every instance with a           *)
(* deterministic verifier.                                                 *)
EXTENDS VerificationQueueProofs, VerificationLedger

(* With a deterministic verifier: whatever was rejected cannot pass, so no *)
(* accepted release hangs on a hidden snapshot.                            *)
RejectedCannotPass ==
  \A r \in Releases : lastError[r] = "rejected" \/ vstatus[r] = "rejected" => r \notin MayPass
WorkersJudgeRightly ==
  \A w \in Workers : /\ werr[w] = "rejected" => wjob[w] \notin MayPass
                     /\ wpc[w] = "promote" => wjob[w] \in MayPass
                     /\ wpc[w] = "idle" => werr[w] = "none"
AcceptedVisible == \A r \in Releases : vstatus[r] = "accepted" => ~Hidden(snapOf[r])
TombstonesCannotPass ==
  \A s \in Snapshots : snapRow[s] = "pending_delete" => tombJob[s] \notin MayPass
Verdicts == RejectedCannotPass /\ WorkersJudgeRightly /\ AcceptedVisible /\ TombstonesCannotPass

(* Steps that move no release, no snapshot and no error code.              *)
LEMMA VerdictsFrame ==
  ASSUME Verdicts, UNCHANGED <<lastError, vstatus, snapOf, snapRow, tombJob>>, WorkersJudgeRightly'
  PROVE  Verdicts'
  BY Zenon DEF Verdicts, RejectedCannotPass, AcceptedVisible, TombstonesCannotPass, Hidden

(* With a deterministic verifier every step keeps the verdict invariant.   *)
LEMMA VerdictsStep ==
  ASSUME DeterministicVerifier, TypeOK, Rows, Retention, Verdicts, [Next]_vars
  PROVE  Verdicts'
<1>1. ASSUME NEW r \in Releases, NEW s \in Snapshots,
              BeginPublish(r, s) \/ WriteSnapshot(r, s) \/ AdmitPackageVersion(r, s) \/
              AbortPublish(r, s)
       PROVE  Verdicts'
  <2>1. CASE BeginPublish(r, s)
    BY <2>1, VerdictsFrame, Zenon DEF BeginPublish, jobVars, versionVars, snapVars, workerVars, Verdicts, WorkersJudgeRightly
  <2>2. CASE WriteSnapshot(r, s)
    BY <2>2, VerdictsFrame, Zenon DEF WriteSnapshot, jobVars, versionVars, snapVars, workerVars, Verdicts, WorkersJudgeRightly
  <2>3. CASE AdmitPackageVersion(r, s)
    <3>1. RejectedCannotPass' /\ WorkersJudgeRightly'
      BY <2>3, Zenon DEF AdmitPackageVersion, Verdicts, RejectedCannotPass, WorkersJudgeRightly, TypeOK, jobVars, versionVars, snapVars, workerVars
    <3>2. AcceptedVisible' /\ TombstonesCannotPass'
      BY <2>3 DEF AdmitPackageVersion, Verdicts, AcceptedVisible, TombstonesCannotPass, Hidden, TypeOK, jobVars, versionVars, snapVars, workerVars
    <3> QED BY <3>1, <3>2, Zenon DEF Verdicts
  <2>4. CASE AbortPublish(r, s)
    BY <2>4, VerdictsFrame, Zenon DEF AbortPublish, jobVars, versionVars, snapVars, workerVars, Verdicts, WorkersJudgeRightly
  <2> QED BY <1>1, <2>1, <2>2, <2>3, <2>4, Zenon
<1>2. ASSUME NEW r \in Releases,
              BeginStaticWrite(r) \/ StaticWritten(r) \/ RequestStaticSync(r) \/
              RetryVerificationJob(r) \/ PromotePackageVersion(r) \/ LeaseLapses(r)
       PROVE  Verdicts'
  <2>1. CASE BeginStaticWrite(r)
    BY <2>1, VerdictsFrame, Zenon DEF BeginStaticWrite, jobVars, versionVars, snapVars, workerVars, Verdicts, WorkersJudgeRightly
  <2>2. CASE StaticWritten(r)
    BY <2>2, VerdictsFrame, Zenon DEF StaticWritten, jobVars, versionVars, snapVars, workerVars, Verdicts, WorkersJudgeRightly
  <2>3. CASE RequestStaticSync(r)
    <3>1. RejectedCannotPass' /\ WorkersJudgeRightly'
      BY <2>3 DEF RequestStaticSync, Verdicts, RejectedCannotPass, WorkersJudgeRightly, TypeOK, jobVars, versionVars, snapVars, workerVars
    <3>2. AcceptedVisible' /\ TombstonesCannotPass'
      BY <2>3, Zenon DEF RequestStaticSync, Verdicts, AcceptedVisible, TombstonesCannotPass, Hidden, TypeOK, jobVars, versionVars, snapVars, workerVars
    <3> QED BY <3>1, <3>2, Zenon DEF Verdicts
  <2>4. CASE RetryVerificationJob(r)
    <3>1. RejectedCannotPass' /\ WorkersJudgeRightly'
      BY <2>4, Zenon DEF RetryVerificationJob, Verdicts, RejectedCannotPass, WorkersJudgeRightly, TypeOK, jobVars, versionVars, snapVars, workerVars
    <3>2. AcceptedVisible' /\ TombstonesCannotPass'
      BY <2>4, Zenon DEF RetryVerificationJob, Verdicts, AcceptedVisible, TombstonesCannotPass, Hidden, TypeOK, jobVars, versionVars, snapVars, workerVars
    <3> QED BY <3>1, <3>2, Zenon DEF Verdicts
  <2>5. CASE PromotePackageVersion(r)
    <3>1. RejectedCannotPass' /\ WorkersJudgeRightly' /\ TombstonesCannotPass'
      BY <2>5, Zenon DEF PromotePackageVersion, Verdicts, RejectedCannotPass, WorkersJudgeRightly, TombstonesCannotPass, TypeOK, jobVars, versionVars, snapVars, workerVars
    <3>2. ~Hidden(snapOf[r])
      BY <2>5, Zenon DEF PromotePackageVersion, Retention, MarksFit, PurgeMarksAgree, Hidden
    <3>3. AcceptedVisible'
      BY <2>5, <3>2, Zenon DEF PromotePackageVersion, Verdicts, AcceptedVisible, Hidden, TypeOK, snapVars
    <3> QED BY <3>1, <3>3, Zenon DEF Verdicts
  <2>6. CASE LeaseLapses(r)
    BY <2>6, VerdictsFrame, Zenon DEF LeaseLapses, jobVars, versionVars, snapVars, workerVars, Verdicts, WorkersJudgeRightly
  <2> QED BY <1>2, <2>1, <2>2, <2>3, <2>4, <2>5, <2>6, Zenon
<1>3. ASSUME NEW w \in Workers, NEW r \in Releases,
              ClaimVerificationJob(w, r) \/ ClaimUnderSkew(w, r)
       PROVE  Verdicts'
  <2>1. CASE ClaimVerificationJob(w, r)
    <3>1. WorkersJudgeRightly'
      BY <2>1, Zenon DEF ClaimVerificationJob, TakeLease, Lease, Verdicts, WorkersJudgeRightly, TypeOK
    <3> QED BY <2>1, <3>1, VerdictsFrame, Zenon DEF ClaimVerificationJob, TakeLease, Lease, jobVars, versionVars, snapVars, workerVars
  <2>2. CASE ClaimUnderSkew(w, r)
    <3>1. WorkersJudgeRightly'
      BY <2>2, Zenon DEF ClaimUnderSkew, TakeLease, Lease, Verdicts, WorkersJudgeRightly, TypeOK
    <3> QED BY <2>2, <3>1, VerdictsFrame, Zenon DEF ClaimUnderSkew, TakeLease, Lease, jobVars, versionVars, snapVars, workerVars
  <2> QED BY <1>3, <2>1, <2>2, Zenon
<1>4. ASSUME NEW w \in Workers, BuildPasses(w) \/ BuildRejected(w) \/ BuildBreaks(w) PROVE Verdicts'
  <2>1. CASE BuildPasses(w)
    <3>1. WorkersJudgeRightly'
      BY <2>1, Zenon DEF BuildPasses, Goto, Verdicts, WorkersJudgeRightly, TypeOK
    <3> QED BY <2>1, <3>1, VerdictsFrame, Zenon DEF BuildPasses, jobVars, versionVars, snapVars, workerVars
  <2>2. CASE BuildRejected(w)
    <3>1. WorkersJudgeRightly'
      BY <2>2, Zenon DEF BuildRejected, Throw, Verdicts, WorkersJudgeRightly, TypeOK, DeterministicVerifier
    <3> QED BY <2>2, <3>1, VerdictsFrame, Zenon DEF BuildRejected, jobVars, versionVars, snapVars, workerVars
  <2>3. CASE BuildBreaks(w)
    <3>1. WorkersJudgeRightly'
      BY <2>3, Zenon DEF BuildBreaks, Throw, Verdicts, WorkersJudgeRightly, TypeOK
    <3> QED BY <2>3, <3>1, VerdictsFrame, Zenon DEF BuildBreaks, jobVars, versionVars, snapVars, workerVars
  <2> QED BY <1>4, <2>1, <2>2, <2>3, Zenon
<1>5. ASSUME NEW w \in Workers,
              PromoteVerifiedBuildForJob(w) \/ ResumePublication(w) \/ SyncStatic(w) \/
              SyncStaticFails(w)
       PROVE  Verdicts'
  <2>1. CASE PromoteVerifiedBuildForJob(w)
    <3> DEFINE r == wjob[w]
    <3>0. r \in Releases /\ vstatus[r] # "none"
      BY <2>1 DEF PromoteVerifiedBuildForJob, TypeOK, Rows
    <3>1. RejectedCannotPass' /\ WorkersJudgeRightly' /\ TombstonesCannotPass'
      BY <2>1 DEF PromoteVerifiedBuildForJob, Goto, Throw, Verdicts, RejectedCannotPass, WorkersJudgeRightly, TombstonesCannotPass, TypeOK, jobVars, snapVars
    <3>2. r \in MayPass
      BY <2>1, Zenon DEF PromoteVerifiedBuildForJob, Verdicts, WorkersJudgeRightly
    <3>3. vstatus[r] \in {"pending", "accepted"}
      BY <3>0, <3>2, Zenon DEF Verdicts, RejectedCannotPass, TypeOK, VStatus
    <3>4. ~Hidden(snapOf[r])
      BY <3>0, <3>3, Zenon DEF Retention, MarksFit, Verdicts, AcceptedVisible
    <3>5. AcceptedVisible'
      BY <2>1, <3>0, <3>4, ZenonT(30) DEF PromoteVerifiedBuildForJob, Verdicts, AcceptedVisible, Hidden, TypeOK, snapVars
    <3> QED BY <3>1, <3>5, Zenon DEF Verdicts
  <2>2. CASE ResumePublication(w)
    <3>1. WorkersJudgeRightly'
      BY <2>2 DEF ResumePublication, Goto, Throw, Verdicts, WorkersJudgeRightly, TypeOK
    <3> QED BY <2>2, <3>1, VerdictsFrame, Zenon DEF ResumePublication, jobVars, versionVars, snapVars, workerVars
  <2>3. CASE SyncStatic(w)
    <3>1. WorkersJudgeRightly'
      BY <2>3, Zenon DEF SyncStatic, Goto, Verdicts, WorkersJudgeRightly, TypeOK
    <3> QED BY <2>3, <3>1, VerdictsFrame, Zenon DEF SyncStatic, jobVars, versionVars, snapVars, workerVars
  <2>4. CASE SyncStaticFails(w)
    <3>1. WorkersJudgeRightly'
      BY <2>4, ZenonT(30) DEF SyncStaticFails, Throw, Verdicts, WorkersJudgeRightly, TypeOK
    <3> QED BY <2>4, <3>1, VerdictsFrame, Zenon DEF SyncStaticFails, jobVars, versionVars, snapVars, workerVars
  <2> QED BY <1>5, <2>1, <2>2, <2>3, <2>4, Zenon
<1>6. ASSUME NEW w \in Workers,
              CompleteVerificationJob(w) \/ FailVerificationJob(w) \/ WorkerCrash(w)
       PROVE  Verdicts'
  <2>1. CASE CompleteVerificationJob(w)
    <3>0. wjob[w] \in Releases
      BY <2>1 DEF CompleteVerificationJob, TypeOK, Rows
    <3>1. RejectedCannotPass' /\ WorkersJudgeRightly'
      BY <2>1, <3>0 DEF CompleteVerificationJob, Idle, Throw, Verdicts, RejectedCannotPass, WorkersJudgeRightly, TypeOK, versionVars
    <3>2. AcceptedVisible' /\ TombstonesCannotPass'
      BY <2>1, Zenon DEF CompleteVerificationJob, Verdicts, AcceptedVisible, TombstonesCannotPass, Hidden, TypeOK, jobVars, versionVars, snapVars, workerVars
    <3> QED BY <3>1, <3>2, Zenon DEF Verdicts
  <2>2. CASE FailVerificationJob(w)
    <3>0. wjob[w] \in Releases
      BY Z3T(30), <2>2 DEF FailVerificationJob, TypeOK, Rows
    <3>1. WorkersJudgeRightly'
      BY Z3T(30), <2>2, <3>0 DEF FailVerificationJob, Idle, Goto, Verdicts, WorkersJudgeRightly, TypeOK
    <3>2. RejectedCannotPass'
      BY <2>2, <3>0 DEF FailVerificationJob, Verdicts, RejectedCannotPass, WorkersJudgeRightly, TypeOK, versionVars
    <3>3. AcceptedVisible' /\ TombstonesCannotPass'
      BY <2>2, Zenon DEF FailVerificationJob, Verdicts, AcceptedVisible, TombstonesCannotPass, Hidden, versionVars, snapVars
    <3> QED BY <3>1, <3>2, <3>3, Zenon DEF Verdicts
  <2>3. CASE WorkerCrash(w)
    <3>1. WorkersJudgeRightly'
      BY <2>3, Zenon DEF WorkerCrash, Idle, Verdicts, WorkersJudgeRightly, TypeOK
    <3> QED BY <2>3, <3>1, VerdictsFrame, Zenon DEF WorkerCrash, jobVars, versionVars, snapVars, workerVars
  <2> QED BY <1>6, <2>1, <2>2, <2>3, Zenon
<1>7. ASSUME NEW w \in Workers,
              TombstoneSnapshot(w) \/ PurgeDeclined(w) \/ DeleteObject(w)
       PROVE  Verdicts'
  <2>1. CASE TombstoneSnapshot(w)
    <3> DEFINE r == wjob[w]
               s == snapOf[r]
    <3>0. r \in Releases /\ s \in Snapshots
      BY <2>1 DEF TombstoneSnapshot, TypeOK, Rows
    <3>1. r \notin MayPass
      BY <2>1, <3>0, Zenon DEF TombstoneSnapshot, PurgeApplies, SameRejection, Verdicts, RejectedCannotPass
    <3>2. vstatus' = [vstatus EXCEPT ![r] = "rejected"] /\ UNCHANGED <<snapOf, lastError>>
      BY <2>1, Zenon DEF TombstoneSnapshot, jobVars
    <3>3. RejectedCannotPass'
      BY <3>0, <3>1, <3>2, ZenonT(30) DEF Verdicts, RejectedCannotPass, TypeOK
    <3>4. WorkersJudgeRightly'
      BY <2>1 DEF TombstoneSnapshot, Idle, Verdicts, WorkersJudgeRightly, TypeOK
    <3>5. CASE ProtectedReference(r)
      <4>1. UNCHANGED <<snapRow, tombJob>>
        BY <2>1, <3>5, Zenon DEF TombstoneSnapshot, snapVars
      <4>2. AcceptedVisible' /\ TombstonesCannotPass'
        BY <3>0, <3>2, <4>1, Zenon DEF Verdicts, AcceptedVisible, TombstonesCannotPass, Hidden, TypeOK
      <4> QED BY <3>3, <3>4, <4>2, Zenon DEF Verdicts
    <3>6. CASE ~ProtectedReference(r)
      <4>1. /\ snapRow' = [snapRow EXCEPT ![s] = "pending_delete"]
            /\ tombJob' = [tombJob EXCEPT ![s] = r]
        BY <2>1, <3>6, Zenon DEF TombstoneSnapshot
      <4>2. \A o \in Releases : snapOf[o] = s /\ o # r => vstatus[o] = "rejected"
        BY <3>6, Zenon DEF ProtectedReference
      <4>3. AcceptedVisible'
        BY <3>0, <3>2, <4>1, <4>2, BoundAssumption DEF Verdicts, AcceptedVisible, Hidden, TypeOK, Rows
      <4>4. TombstonesCannotPass'
        BY <3>0, <3>1, <4>1, Zenon DEF Verdicts, TombstonesCannotPass, TypeOK
      <4> QED BY <3>3, <3>4, <4>3, <4>4, Zenon DEF Verdicts
    <3> QED BY <3>5, <3>6, Zenon
  <2>2. CASE PurgeDeclined(w)
    <3>1. WorkersJudgeRightly'
      BY <2>2, ZenonT(30) DEF PurgeDeclined, Idle, Verdicts, WorkersJudgeRightly, TypeOK
    <3> QED BY <2>2, <3>1, VerdictsFrame, Zenon DEF PurgeDeclined, jobVars, versionVars, snapVars, workerVars
  <2>3. CASE DeleteObject(w)
    <3>1. RejectedCannotPass' /\ WorkersJudgeRightly'
      BY <2>3 DEF DeleteObject, Idle, Verdicts, RejectedCannotPass, WorkersJudgeRightly, TypeOK, jobVars, versionVars
    <3>2. \A t \in Snapshots : /\ Hidden(t)' => Hidden(t)
                               /\ snapRow'[t] = "pending_delete" => snapRow[t] = "pending_delete"
      BY <2>3, Zenon DEF DeleteObject, Hidden, TypeOK
    <3>3. UNCHANGED <<vstatus, snapOf, tombJob>>
      BY <2>3, Zenon DEF DeleteObject, versionVars
    <3>4. AcceptedVisible' /\ TombstonesCannotPass'
      BY <3>2, <3>3, BoundAssumption DEF Verdicts, AcceptedVisible, TombstonesCannotPass, Hidden, Rows, TypeOK
    <3> QED BY <3>1, <3>4, Zenon DEF Verdicts
  <2> QED BY <1>7, <2>1, <2>2, <2>3, Zenon
<1>8. ASSUME NEW w \in Workers, NEW s \in Snapshots, SweepPendingPurge(w, s) PROVE Verdicts'
  <2>1. WorkersJudgeRightly'
    BY <1>8, Zenon DEF SweepPendingPurge, Verdicts, WorkersJudgeRightly, TypeOK, TombstonesCannotPass
  <2> QED BY <1>8, <2>1, VerdictsFrame, Zenon DEF SweepPendingPurge, jobVars, versionVars, snapVars, workerVars
<1>9. CASE UNCHANGED vars
  BY <1>9, VerdictsFrame, Zenon DEF vars, jobVars, versionVars, snapVars, workerVars, Verdicts, WorkersJudgeRightly
<1> QED BY <1>1, <1>2, <1>3, <1>4, <1>5, <1>6, <1>7, <1>8, <1>9, Zenon DEF Next, Handlers, WorkerStep

LEMMA VerdictsInit == Init => Verdicts
  BY KeyAssumption, BoundAssumption
  DEF Init, Verdicts, RejectedCannotPass, WorkersJudgeRightly, AcceptedVisible, TombstonesCannotPass, Hidden

(* With a deterministic verifier accepted releases keep their source.      *)
THEOREM AcceptedRetainedAlways ==
  ASSUME DeterministicVerifier
  PROVE  Spec => []AcceptedSourceRetained
<1>1. Inv /\ Verdicts /\ [Next]_vars => (Inv /\ Verdicts)'
  BY InvStep, VerdictsStep, Zenon DEF Inv
<1>2. Inv /\ Verdicts => AcceptedSourceRetained
  <2> SUFFICES ASSUME Inv, Verdicts, NEW r \in Releases, vstatus[r] = "accepted"
               PROVE  snapRow[snapOf[r]] = "visible" /\ r2Key[snapOf[r]] \in objects
    BY Zenon DEF AcceptedSourceRetained
  <2>1. snapOf[r] \in Snapshots /\ snapRow[snapOf[r]] # "absent"
    BY DEF Inv, Rows, TypeOK
  <2>2. snapRow[snapOf[r]] = "visible"
    BY <2>1, Zenon DEF Inv, TypeOK, SnapRow, Verdicts, AcceptedVisible, Hidden
  <2> QED BY <2>1, <2>2, Zenon DEF Inv, Retention, BytesPresent
<1> QED BY <1>1, <1>2, InvInit, VerdictsInit, PTL DEF Spec

-----------------------------------------------------------------------------
(* Steps the ledger does not see.                                          *)
LEMMA LedgerFrame ==
  ASSUME UNCHANGED <<vstatus, snapOf, snapRow>>
  PROVE  [Ledger!Next]_(Ledger!ledger)
<1>1. SourceState' = SourceState
  BY Zenon DEF SourceState
<1> QED BY <1>1, Zenon DEF Ledger!ledger

LEMMA LedgerInit == Init => Ledger!Init
  BY DEF Init, Ledger!Init, SourceState

LEMMA LedgerStep ==
  ASSUME Inv, Verdicts, [Next]_vars
  PROVE  [Ledger!Next]_(Ledger!ledger)
<1>1. ASSUME NEW r \in Releases, NEW s \in Snapshots, BeginPublish(r, s) PROVE [Ledger!Next]_(Ledger!ledger)
  BY <1>1, LedgerFrame, Zenon DEF BeginPublish, versionVars, snapVars
<1>2. ASSUME NEW r \in Releases, NEW s \in Snapshots, WriteSnapshot(r, s) PROVE [Ledger!Next]_(Ledger!ledger)
  BY <1>2, LedgerFrame, Zenon DEF WriteSnapshot, versionVars, snapVars
<1>3. ASSUME NEW r \in Releases, NEW s \in Snapshots, AdmitPackageVersion(r, s) PROVE [Ledger!Next]_(Ledger!ledger)
  <2>1. /\ vstatus[r] = "none" /\ vstatus' = [vstatus EXCEPT ![r] = "pending"]
        /\ snapOf' = [snapOf EXCEPT ![r] = s]
        /\ snapRow'[s] = "visible" /\ \A t \in Snapshots : t # s => snapRow'[t] = snapRow[t]
        /\ snapRow[s] \in {"absent", "visible"}
    BY <1>3, Zenon DEF AdmitPackageVersion, Admissible, Inv, TypeOK
  <2>2. SourceState' = [SourceState EXCEPT ![r] = "kept"]
    <3>1. vstatus'[r] # "none" /\ snapRow'[snapOf'[r]] = "visible"
      BY <2>1, Zenon DEF Inv, TypeOK
    <3>2. \A o \in Releases : o # r =>
            /\ vstatus'[o] = vstatus[o] /\ snapOf'[o] = snapOf[o]
            /\ vstatus[o] # "none" => (snapRow'[snapOf[o]] = "visible" <=> snapRow[snapOf[o]] = "visible")
      BY <2>1 DEF Inv, TypeOK, Rows
    <3> QED BY ZenonT(30), <3>1, <3>2 DEF SourceState
  <2>3. Ledger!Admit(r)
    BY <2>1, <2>2, Zenon DEF Ledger!Admit
  <2> QED BY <2>3, Zenon DEF Ledger!Next
<1>4. ASSUME NEW r \in Releases, NEW s \in Snapshots, AbortPublish(r, s) PROVE [Ledger!Next]_(Ledger!ledger)
  BY <1>4, LedgerFrame, Zenon DEF AbortPublish, versionVars, snapVars
<1>5. ASSUME NEW r \in Releases, PromotePackageVersion(r) PROVE [Ledger!Next]_(Ledger!ledger)
  <2>1. snapOf[r] \in Snapshots /\ snapRow[snapOf[r]] = "visible"
    BY <1>5 DEF PromotePackageVersion, Inv, TypeOK, Rows, SnapRow, Retention, MarksFit, PurgeMarksAgree
  <2>2. SourceState[r] = "kept" /\ SourceState' = SourceState
    BY <1>5, <2>1, Zenon DEF PromotePackageVersion, SourceState, Inv, TypeOK, snapVars
  <2>3. Ledger!Accept(r)
    BY <1>5, <2>2, Zenon DEF PromotePackageVersion, Ledger!Accept
  <2> QED BY <2>3, Zenon DEF Ledger!Next
<1>6. ASSUME NEW w \in Workers, PromoteVerifiedBuildForJob(w) PROVE [Ledger!Next]_(Ledger!ledger)
  <2> DEFINE r == wjob[w]
  <2>0. r \in Releases /\ vstatus[r] # "none"
    BY <1>6 DEF PromoteVerifiedBuildForJob, Inv, TypeOK, Rows
  <2>1. CASE jobStatus[r] = "running" /\ HoldsLease(w, r)
    <3>1. vstatus' = [vstatus EXCEPT ![r] = "accepted"] /\ UNCHANGED <<snapOf, snapRow>>
      BY <1>6, <2>1, Zenon DEF PromoteVerifiedBuildForJob, snapVars
    <3>2. r \in MayPass
      BY <1>6, Zenon DEF PromoteVerifiedBuildForJob, Verdicts, WorkersJudgeRightly
    <3>3. vstatus[r] \in {"pending", "accepted"}
      BY <2>0, <3>2, Zenon DEF Verdicts, RejectedCannotPass, Inv, TypeOK, VStatus
    <3>4. ~Hidden(snapOf[r])
      BY <2>0, <3>3, Zenon DEF Inv, Retention, MarksFit, Verdicts, AcceptedVisible
    <3>5. snapOf[r] \in Snapshots /\ snapRow[snapOf[r]] = "visible"
      BY <2>0, <3>4 DEF Inv, TypeOK, Rows, SnapRow, Hidden
    <3>6. SourceState[r] = "kept" /\ SourceState' = SourceState
      BY <2>0, <3>1, <3>5, Zenon DEF SourceState, Inv, TypeOK
    <3>7. Ledger!Accept(r)
      BY <3>1, <3>6, Zenon DEF Ledger!Accept
    <3> QED BY <2>0, <3>7, Zenon DEF Ledger!Next
  <2>2. CASE ~(jobStatus[r] = "running" /\ HoldsLease(w, r))
    <3>1. UNCHANGED <<vstatus, snapOf, snapRow>>
      BY <1>6, <2>2, Zenon DEF PromoteVerifiedBuildForJob, snapVars
    <3> QED BY <3>1, LedgerFrame, Zenon
  <2> QED BY <2>1, <2>2, Zenon
<1>7. ASSUME NEW w \in Workers, TombstoneSnapshot(w) PROVE [Ledger!Next]_(Ledger!ledger)
  <2> DEFINE r == wjob[w]
             s == snapOf[r]
             S == {o \in Releases : snapOf[o] = s}
  <2>0. r \in Releases /\ s \in Snapshots /\ s # None
    BY <1>7, BoundAssumption DEF TombstoneSnapshot, Inv, TypeOK, Rows
  <2>1. /\ vstatus[r] \in {"pending", "rejected"} /\ snapOf' = snapOf
        /\ vstatus' = [vstatus EXCEPT ![r] = "rejected"]
    BY <1>7, Zenon DEF TombstoneSnapshot, PurgeApplies
  <2>2. CASE ProtectedReference(r)
    <3>1. snapRow' = snapRow
      BY <1>7, <2>2, Zenon DEF TombstoneSnapshot, snapVars
    <3>2. SourceState' = SourceState
      BY <2>0, <2>1, <3>1, Zenon DEF SourceState, Inv, TypeOK
    <3>3. Ledger!Reject(r)
      BY <2>1, <3>2, Zenon DEF Ledger!Reject
    <3> QED BY <2>0, <3>3, Zenon DEF Ledger!Next
  <2>3. CASE ~ProtectedReference(r)
    <3>1. snapRow' = [snapRow EXCEPT ![s] = "pending_delete"]
      BY <1>7, <2>3, Zenon DEF TombstoneSnapshot
    <3>2. \A o \in S : vstatus'[o] = "rejected"
      BY <2>0, <2>1, <2>3, ZenonT(30) DEF ProtectedReference, Inv, TypeOK
    <3>3. SourceState' = [o \in Releases |-> IF o \in S THEN "gone" ELSE SourceState[o]]
      <4>1. \A o \in Releases : snapOf[o] = s => vstatus'[o] # "none" /\ snapRow'[snapOf[o]] # "visible"
        BY <2>0, <2>1, <3>1, <3>2, ZenonT(30) DEF Inv, TypeOK
      <4>2. \A o \in Releases : snapOf[o] # s =>
              vstatus'[o] = vstatus[o] /\ (vstatus[o] # "none" => snapRow'[snapOf[o]] = snapRow[snapOf[o]])
        BY <2>0, <2>1, <3>1 DEF Inv, TypeOK, Rows
      <4> QED BY <2>1, <4>1, <4>2 DEF SourceState
    <3>4. r \in S /\ S \in SUBSET Releases
      BY <2>0, Zenon
    <3>5. Ledger!Discard(r)
      BY <2>1, <3>2, <3>3, <3>4, Zenon DEF Ledger!Discard
    <3> QED BY <2>0, <3>5, Zenon DEF Ledger!Next
  <2> QED BY <2>2, <2>3, ZenonT(30)
<1>8. ASSUME NEW w \in Workers, DeleteObject(w) PROVE [Ledger!Next]_(Ledger!ledger)
  <2> DEFINE s == snapOf[wjob[w]]
  <2>1. /\ UNCHANGED <<vstatus, snapOf>>
        /\ snapRow' = snapRow \/ (snapRow[s] = "pending_delete" /\ snapRow' = [snapRow EXCEPT ![s] = "purged"])
    BY <1>8, Zenon DEF DeleteObject, versionVars
  <2>2. \A t \in Snapshots : snapRow'[t] = "visible" <=> snapRow[t] = "visible"
    BY <2>1, Zenon DEF Inv, TypeOK
  <2>3. SourceState' = SourceState
    BY <2>1, <2>2 DEF SourceState, Inv, TypeOK, Rows
  <2> QED BY <2>1, <2>3, Zenon DEF Ledger!ledger
<1>9. CASE UNCHANGED store
  BY <1>9, LedgerFrame, Zenon DEF store
<1> QED BY <1>1, <1>2, <1>3, <1>4, <1>5, <1>6, <1>7, <1>8, <1>9, StoreSteps, Zenon DEF StoreStep

(* Every behaviour of the pipeline is a behaviour of the ledger.           *)
THEOREM LedgerRefined ==
  ASSUME DeterministicVerifier
  PROVE  Spec => ImplementsLedger
<1>1. Inv /\ Verdicts /\ [Next]_vars => (Inv /\ Verdicts)'
  BY InvStep, VerdictsStep, Zenon DEF Inv
<1>2. Inv /\ Verdicts /\ [Next]_vars => [Ledger!Next]_(Ledger!ledger)
  BY LedgerStep, Zenon
<1> QED BY <1>1, <1>2, InvInit, VerdictsInit, LedgerInit, PTL DEF Spec, ImplementsLedger, Ledger!Spec

=============================================================================
