-------------------------- MODULE ReleaseLifecycle --------------------------
(***************************************************************************)
(* The states of one admitted CKB-executable release and its mutable       *)
(* static mirror: availability changes by the publisher and by             *)
(* administrators, chain-verified deployments, on-chain commitments, the   *)
(* scheduled reconciliation with the chain, and every handler's write of   *)
(* the mirror (services/registry-api/src/index.ts and the update           *)
(* transactions of sql-store.ts).                                          *)
(*                                                                         *)
(* A handler reads the row, works on its copy across awaits, changes the   *)
(* row in a transaction and writes the mirror; whatever it carries between *)
(* two awaits is in proc.  The chain is a set of live Cells that changes   *)
(* on its own.                                                             *)
(***************************************************************************)
EXTENDS Naturals

CONSTANTS
  Handlers,     \* API requests and verifier workers at work on the release
  Indexer,      \* the scheduled maintenance process
  Deployments,  \* deployment evidence records, each about a Cell of its own,
                \*   numbered in the order in which they are made
  Lanes,        \* the settings a behaviour may have: see below
  None

(* A setting bounds a behaviour: the handlers at work, the deployments made, *)
(* the kinds of request that arrive (see Handler), the number of chain       *)
(* events and of maintenance passes that come to nothing, and whether a      *)
(* process starts only while no other one is at work.                        *)
ASSUME LifecycleAssumption ==
  /\ Indexer \notin Handlers
  /\ Deployments \subseteq Nat
  /\ None \notin Deployments
  /\ \A l \in Lanes :
       /\ l.handlers \subseteq Handlers
       /\ l.deployments \subseteq Deployments
       /\ l.height \in Nat
       /\ l.faults \in Nat
       /\ l.serial \in BOOLEAN

VARIABLES
  lane,        \* the setting of this behaviour
  row,         \* package_versions: the release's states
  latest,      \* package_version_evidence: the newest deployed evidence,
  recorded,    \*   all deployed evidence,
  accepted,    \*   and all on_chain_committed evidence
  static,      \* the mirror object, None before the first write
  liveCells,   \* deployment Cells that are live and confirmed
  commitCell,  \* the commitment Cell of each deployment evidence record
  height,      \* chain events so far
  faults,      \* maintenance passes that came to nothing
  proc         \* what each process is doing, and with what in hand

vars == <<lane, row, latest, recorded, accepted, static, liveCells, commitCell, height, faults, proc>>

Processes == Handlers \cup {Indexer}
(* "yanked" stands for deprecated too: no code path tells them apart.       *)
Availability == {"active", "yanked", "quarantined"}
Suppressive(a) == a # "active"

NoCommit == [dep |-> None, at |-> 0]
Commits == [dep : Deployments, at : Nat] \cup {NoCommit}
Rows == [verified : BOOLEAN, deployed : BOOLEAN, avail : Availability, commit : Commits,
         status : Availability \cup {"source_published", "verified_build", "deployed",
                                     "on_chain_committed"}]
Idle == [op |-> "idle"]

(* deriveRegistryEntryStatus.                                               *)
Derive(r) ==
  IF r.avail # "active" THEN r.avail
  ELSE IF r.commit # NoCommit THEN "on_chain_committed"
  ELSE IF r.deployed THEN "deployed"
  ELSE IF r.verified THEN "verified_build"
  ELSE "source_published"

(* package_versions_status_projection_check: the database refuses a row     *)
(* that breaks it, and the transaction with it.                             *)
Projection(r) == r.status = Derive(r)

Admitted == [verified |-> FALSE, deployed |-> FALSE, avail |-> "active", commit |-> NoCommit,
             status |-> "source_published"]

TypeOK ==
  /\ row \in Rows
  /\ latest \in Deployments \cup {None}
  /\ recorded \subseteq Deployments
  /\ accepted \subseteq Commits
  /\ static \in Rows \cup {None}
  /\ liveCells \subseteq Deployments
  /\ commitCell \in [Deployments -> {"none", "live", "spent"}]
  /\ height \in 0..lane.height
  /\ faults \in 0..lane.faults
  /\ DOMAIN proc = Processes

(* The release was just admitted; one handler still has to write the mirror *)
(* of the row it admitted.                                                  *)
Init ==
  /\ lane \in Lanes
  /\ row = Admitted
  /\ latest = None
  /\ recorded = {}
  /\ accepted = {}
  /\ static = None
  /\ liveCells = Deployments
  /\ commitCell = [d \in Deployments |-> "none"]
  /\ height = 0
  /\ faults = 0
  /\ \E h \in lane.handlers :
       proc = [p \in Processes |-> IF p = h THEN [op |-> "mirror", out |-> Admitted] ELSE Idle]

CommitCells == {d \in Deployments : commitCell[d] = "live"}
chain == <<liveCells, commitCell, height>>
evidence == <<latest, recorded, accepted>>
Become(p, state) == proc' = [proc EXCEPT ![p] = state]
Starts(p) == proc[p] = Idle /\ (lane.serial => \A q \in Processes : proc[q] = Idle)

(* A read of the row, the chain or both: only the reader's hands change.    *)
Reads(p, state) == Become(p, state) /\ UNCHANGED <<row, evidence, static, chain>>

-----------------------------------------------------------------------------
(* The rows the update statements write.                                    *)

(* updatePackageVersionStatus.                                              *)
Available(r, a) == [r EXCEPT !.avail = a, !.status = Derive([r EXCEPT !.avail = a])]

(* recordChainVerifiedDeployment: the commitment stays when the release was *)
(* chain-verified before, and the status becomes deployed all the same.     *)
Deployed(r) ==
  [r EXCEPT !.deployed = TRUE,
            !.commit = IF r.deployed THEN @ ELSE NoCommit,
            !.status = IF r.avail = "active" THEN "deployed" ELSE @]

(* Mutant: the commitment pointer is not cleared.                           *)
Reconciled_CommitmentKept(r, stillDeployed) ==
  [r EXCEPT !.deployed = stillDeployed,
            !.status = IF r.avail # "active" THEN @
                       ELSE IF stillDeployed THEN "deployed" ELSE "verified_build"]

(* Mutant: the pointer of a suppressed release is not cleared.              *)
Reconciled_ActiveOnly(r, stillDeployed) ==
  [r EXCEPT !.deployed = stillDeployed,
            !.commit = IF r.avail = "active" THEN NoCommit ELSE @,
            !.status = IF r.avail # "active" THEN @
                       ELSE IF stillDeployed THEN "deployed" ELSE "verified_build"]

(* reconcilePackageVersionLifecycle, to deployed or back to verified_build. *)
Reconciled(r, stillDeployed) ==
  [r EXCEPT !.deployed = stillDeployed,
            !.commit = NoCommit,
            !.status = IF r.avail # "active" THEN @
                       ELSE IF stillDeployed THEN "deployed" ELSE "verified_build"]

(* promotePackageVersion with verified_build and on_chain_committed         *)
(* evidence.                                                                *)
Verified(r) == [r EXCEPT !.verified = TRUE, !.status = Derive([r EXCEPT !.verified = TRUE])]
Committed(r, d, at) ==
  LET c == [dep |-> d, at |-> at]
  IN  [r EXCEPT !.commit = c, !.deployed = TRUE, !.status = Derive([r EXCEPT !.commit = c])]

-----------------------------------------------------------------------------
(* Transactions and mirror writes, the steps the handlers share.            *)

(* The update either commits, and the handler goes on with the stored row,  *)
(* or the projection check aborts it and the handler with it.               *)
Stores(p, r) ==
  /\ row' = IF Projection(r) THEN r ELSE row
  /\ Become(p, IF Projection(r) THEN [op |-> "mirror", out |-> r] ELSE Idle)

Refused(p) == Become(p, Idle) /\ UNCHANGED <<row, evidence, static, chain>>

(* writeStaticRegistryVersionObject puts the record in hand, whatever is    *)
(* stored by then.  A failing put ends the handler: a positive state is     *)
(* left to a later sync (tryWriteStaticRegistryVersionObject).              *)
Mirror(p) ==
  /\ proc[p].op = "mirror"
  /\ static' = proc[p].out
  /\ Become(p, Idle)
  /\ UNCHANGED <<row, evidence, chain>>

Fail(p) ==
  /\ proc[p] # Idle
  /\ Refused(p)

-----------------------------------------------------------------------------
(* Mutant: a suppressive state is not mirrored first.                       *)
RequestAvailability_NotMirrored(h, admin, a) ==
  /\ Starts(h)
  /\ admin \/ (row.avail # "quarantined" /\ a # "quarantined")
  /\ Reads(h, [op |-> "update", admin |-> admin, avail |-> a, seen |-> row])

(* handlePublisherAvailability and handleAdminPackageVersionStatus.  A      *)
(* suppressive state is mirrored before the transaction, from the row read  *)
(* at the start; any other after it.                                        *)
RequestAvailability(h, admin, a) ==
  /\ Starts(h)
  /\ admin \/ (row.avail # "quarantined" /\ a # "quarantined")
  /\ Reads(h, [op |-> IF Suppressive(a) THEN "suppress" ELSE "update",
               admin |-> admin, avail |-> a, seen |-> row])

Suppress(h) ==
  /\ proc[h].op = "suppress"
  /\ static' = [proc[h].seen EXCEPT !.avail = proc[h].avail, !.status = proc[h].avail]
  /\ Become(h, [proc[h] EXCEPT !.op = "update"])
  /\ UNCHANGED <<row, evidence, chain>>

(* Mutant: no re-check under the row lock.                                  *)
MayUpdate_Unchecked(h) == TRUE

MayUpdate(h) == row.avail = "quarantined" => proc[h].admin

UpdateStatus(h) ==
  /\ proc[h].op = "update"
  /\ \/ /\ MayUpdate(h)
        /\ LET r == Available(row, proc[h].avail)
           IN  IF Suppressive(proc[h].avail) THEN row' = r /\ Become(h, Idle)
               ELSE Stores(h, r)
        /\ UNCHANGED <<evidence, static, chain>>
     \/ /\ ~MayUpdate(h)
        /\ Refused(h)

-----------------------------------------------------------------------------
(* Mutant: the deployment is mirrored before its transaction.               *)
VerifyDeployment_MirroredFirst(h, d) ==
  /\ Starts(h)
  /\ row.verified
  /\ d \in liveCells \ recorded
  /\ static' = Deployed(row)
  /\ Become(h, [op |-> "record", dep |-> d])
  /\ UNCHANGED <<row, evidence, chain>>

(* The deployments a request can still be about: live Cells without a record. *)
Fresh == {d \in (liveCells \cap lane.deployments) \ recorded :
            \A q \in Handlers : proc[q].op = "record" => proc[q].dep # d}

(* handleRecordDeployment, and handleAdminPackageVersionPromotion with      *)
(* deployed evidence: the Cell is verified before the transaction.  Each    *)
(* request makes an evidence record of its own.                             *)
VerifyDeployment(h, d) ==
  /\ Starts(h)
  /\ row.verified
  /\ d \in Fresh
  /\ \A e \in Fresh : d <= e
  /\ Reads(h, [op |-> "record", dep |-> d])

RecordDeployment(h) ==
  /\ proc[h].op = "record"
  /\ LET d == proc[h].dep
         r == Deployed(row)
     IN  \/ /\ Projection(r)
            /\ latest' = d
            /\ recorded' = recorded \cup {d}
            /\ Stores(h, r)
            /\ UNCHANGED <<accepted, static, chain>>
         \/ /\ ~Projection(r)
            /\ Refused(h)

(* handleAdminPackageVersionPromotion with verified_build evidence, and the *)
(* verifier worker's promotion.                                             *)
AcceptBuild(h) ==
  /\ Starts(h)
  /\ Stores(h, Verified(row))
  /\ UNCHANGED <<evidence, static, chain>>

(* handleAdminPackageVersionPromotion with on_chain_committed evidence: the *)
(* observation time is the administrator's.                                 *)
VerifyCommitment(h, at) ==
  /\ Starts(h)
  /\ latest \in CommitCells
  /\ Reads(h, [op |-> "promote", dep |-> latest, at |-> at])

(* assertPromotionTransition and the stale_commitment_evidence check of     *)
(* promotePackageVersion.                                                   *)
MayCommit(at) ==
  /\ row.deployed
  /\ row.commit # NoCommit => at >= row.commit.at

PromoteCommitment(p) ==
  /\ proc[p].op = "promote"
  /\ LET d == proc[p].dep
         at == proc[p].at
     IN  \/ /\ MayCommit(at)
            /\ accepted' = accepted \cup {[dep |-> d, at |-> at]}
            /\ Stores(p, Committed(row, d, at))
            /\ UNCHANGED <<latest, recorded, static, chain>>
         \/ /\ ~MayCommit(at)
            /\ Refused(p)

(* syncStaticRegistryVersionObject: the worker re-reads the row and leaves  *)
(* a quarantined release alone.                                             *)
SyncStatic(h) ==
  /\ Starts(h)
  /\ row.avail # "quarantined"
  /\ Reads(h, [op |-> "mirror", out |-> row])

-----------------------------------------------------------------------------
(* reconcileRegistryChainState, under the maintenance lease: scan the       *)
(* commitment Cells, list the chain-verified releases, verify the newest    *)
(* deployment, then settle what was found.                                  *)
Scan(complete) ==
  /\ Starts(Indexer)
  /\ Reads(Indexer, [op |-> "scanned", complete |-> complete, at |-> height,
                     cells |-> IF complete THEN CommitCells ELSE {}])

List ==
  /\ proc[Indexer].op = "scanned"
  /\ Reads(Indexer, IF row.deployed
                    THEN [op |-> "listed", complete |-> proc[Indexer].complete,
                          at |-> proc[Indexer].at, cells |-> proc[Indexer].cells, seen |-> row]
                    ELSE Idle)

(* Mutant: only a commitment to the newest deployment is demoted.           *)
Verdict_NewestOnly(i) ==
  IF latest \notin liveCells THEN [op |-> "undeploy"]
  ELSE IF ~i.complete THEN Idle
  ELSE IF latest \notin i.cells THEN (IF i.seen.commit.dep = latest THEN [op |-> "demote"] ELSE Idle)
  ELSE IF i.seen.commit.dep = latest \/ i.seen.avail # "active" THEN Idle
  ELSE [op |-> "promote", dep |-> latest, at |-> i.at]

(* What follows the verification of the newest deployment: undeploy a stale *)
(* one; otherwise compare the commitment that was listed with the Cells     *)
(* that were scanned.                                                       *)
Verdict(i) ==
  IF latest \notin liveCells THEN [op |-> "undeploy"]
  ELSE IF ~i.complete THEN Idle
  ELSE IF latest \notin i.cells THEN (IF i.seen.commit # NoCommit THEN [op |-> "demote"] ELSE Idle)
  ELSE IF i.seen.commit.dep = latest \/ i.seen.avail # "active" THEN Idle
  ELSE [op |-> "promote", dep |-> latest, at |-> i.at]

CheckDeployment ==
  /\ proc[Indexer].op = "listed"
  /\ latest # None
  /\ Reads(Indexer, Verdict(proc[Indexer]))

Reconcile ==
  /\ proc[Indexer].op \in {"undeploy", "demote"}
  /\ Stores(Indexer, Reconciled(row, proc[Indexer].op = "demote"))
  /\ UNCHANGED <<evidence, static, chain>>

(* demoteCurrentCommitments, when the commitment Scripts are unconfigured   *)
(* or found unusable.                                                       *)
DemoteCommitments ==
  /\ Starts(Indexer)
  /\ row.deployed
  /\ row.commit # NoCommit
  /\ Reads(Indexer, [op |-> "demote"])

-----------------------------------------------------------------------------
(* The chain.  A deployment evidence record has at most one commitment Cell *)
(* and a spent Cell never comes back.                                       *)
SpendDeployment(d) ==
  /\ height < lane.height
  /\ d \in liveCells
  /\ liveCells' = liveCells \ {d}
  /\ height' = height + 1
  /\ UNCHANGED <<row, evidence, static, commitCell, proc>>

CreateCommitment(d) ==
  /\ height < lane.height
  /\ d \in recorded
  /\ commitCell[d] = "none"
  /\ commitCell' = [commitCell EXCEPT ![d] = "live"]
  /\ height' = height + 1
  /\ UNCHANGED <<row, evidence, static, liveCells, proc>>

SpendCommitment(d) ==
  /\ height < lane.height
  /\ commitCell[d] = "live"
  /\ commitCell' = [commitCell EXCEPT ![d] = "spent"]
  /\ height' = height + 1
  /\ UNCHANGED <<row, evidence, static, liveCells, proc>>

Handler(h) ==
  \/ "availability" \in lane.kinds /\ \E admin \in BOOLEAN, a \in Availability :
                                   RequestAvailability(h, admin, a)
  \/ "deployment" \in lane.kinds /\ \E d \in lane.deployments : VerifyDeployment(h, d)
  \/ "build" \in lane.kinds /\ AcceptBuild(h)
  \/ "commitment" \in lane.kinds /\ \E at \in 0..height : VerifyCommitment(h, at)
  \/ "sync" \in lane.kinds /\ SyncStatic(h)
  \/ Suppress(h) \/ UpdateStatus(h) \/ RecordDeployment(h) \/ PromoteCommitment(h)
  \/ Mirror(h)
  \/ Fail(h)

(* A step of maintenance, and what keeps a pass from its end: a scan over   *)
(* its budget, an unusable configuration, a failure.                        *)
Pass ==
  /\ Scan(TRUE) \/ List \/ CheckDeployment \/ Reconcile \/ PromoteCommitment(Indexer) \/ Mirror(Indexer)
  /\ UNCHANGED <<lane, faults>>

Setback ==
  /\ Scan(FALSE) \/ DemoteCommitments \/ Fail(Indexer)
  /\ faults < lane.faults
  /\ faults' = faults + 1
  /\ UNCHANGED lane

Chain ==
  \E d \in lane.deployments : SpendDeployment(d) \/ CreateCommitment(d) \/ SpendCommitment(d)

Next ==
  \/ (\E h \in lane.handlers : Handler(h)) /\ UNCHANGED <<lane, faults>>
  \/ Pass
  \/ Setback
  \/ Chain /\ UNCHANGED <<lane, faults>>

Spec == Init /\ [][Next]_vars

(* Maintenance is scheduled for ever; requests need never come, nor end.    *)
Fairness == WF_vars(Pass)

FairSpec == Spec /\ Fairness

-----------------------------------------------------------------------------
(* Properties.                                                              *)

(* A release leaves quarantine only by an administrator's update: no        *)
(* publisher request that read the row before the quarantine, and no chain  *)
(* observation, lifts it (updatePackageVersionStatus re-checks under the    *)
(* row lock).                                                               *)
QuarantineSticks ==
  [][row.avail = "quarantined" /\ row'.avail # "quarantined" =>
       \E h \in Handlers : proc[h].op = "update" /\ proc[h].admin /\ proc'[h] # proc[h]]_vars

(* The indexer's blind updates, built from what it listed some awaits ago,  *)
(* are accepted by the projection check on whatever row they meet           *)
(* (reconcilePackageVersionLifecycle has no condition on the row).          *)
ReconciliationAccepted ==
  proc[Indexer].op \in {"undeploy", "demote"} =>
    Projection(Reconciled(row, proc[Indexer].op = "demote"))

(* The mirror never claims what the database did not admit: a verified      *)
(* build, a deployment or a commitment in it has its evidence stored        *)
(* (positive states are mirrored after their transaction).                  *)
MirrorNeverAhead ==
  static # None =>
    /\ static.verified => row.verified
    /\ static.deployed => recorded # {}
    /\ static.commit # NoCommit => static.commit \in accepted
    /\ static.status = "on_chain_committed" => static.commit # NoCommit

(* A commitment the row points at is evidence that was accepted, about      *)
(* a deployment the row still claims: nothing leaves a release committed    *)
(* and undeployed.                                                          *)
CommitmentIsDeployed ==
  row.commit # NoCommit => row.deployed /\ row.commit \in accepted /\ row.commit.dep \in recorded

(* While one process is at work at a time, a release the database           *)
(* suppresses is suppressed in its mirror, if there is one, whichever step  *)
(* a request fails at (suppressive states are mirrored first).              *)
FailsClosed ==
  lane.serial /\ static # None /\ Suppressive(row.avail) => Suppressive(static.avail)

(* A claim about the chain is a current one: an active release does not     *)
(* keep a commitment whose Cell is gone, and no release keeps a newest      *)
(* deployment whose Cell is gone (reconcileRegistryChainState).  The chain   *)
(* reconciliation has to be configured: without the four Script values       *)
(* maintenance clears commitments unseen and looks at no deployment.         *)
(* Maintenance does not wait for requests here: not the serial setting.      *)
ClaimsExpire ==
  ~lane.serial =>
  /\ ~<>[](row.avail = "active" /\ row.commit # NoCommit /\ commitCell[row.commit.dep] = "spent")
  /\ ~<>[](row.deployed /\ latest \notin liveCells)

-----------------------------------------------------------------------------
(* What the service's README and its schema expect and the code does not    *)
(* keep.                                                                    *)

(* "A stale deployment returns to verified and undeployed": a release goes  *)
(* back because its newest deployment is stale.  Reconcile decides from     *)
(* evidence read before its chain calls, so a deployment recorded in        *)
(* between is undeployed because an older one was spent.                    *)
OnlyStaleUndeployed ==
  [][row.deployed /\ ~row'.deployed => latest \notin liveCells]_vars

(* The row written for a further deployment of a verified release satisfies *)
(* package_versions_status_projection_check.  An active release that is     *)
(* committed on chain keeps its commitment under status "deployed", which   *)
(* the check refuses.                                                       *)
RedeploymentAccepted ==
  row.verified => Projection(Deployed(row))

=============================================================================
