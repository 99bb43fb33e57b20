----------------------- MODULE ReleaseLifecycleProofs -----------------------
(***************************************************************************)
(* Safety of ReleaseLifecycle for any number of requests and deployments,  *)
(* any chain history and any settings.  The inductive invariant says what  *)
(* a process carries across its awaits is still backed by the stored       *)
(* evidence, because evidence and verification only grow.                  *)
(***************************************************************************)
EXTENDS ReleaseLifecycle, TLAPS

(* A record of the release that claims nothing beyond what row r and the    *)
(* evidence rec and acc admit.                                              *)
Backed(x, r, rec, acc) ==
  /\ x \in Rows
  /\ x.verified => r.verified
  /\ x.deployed => rec # {}
  /\ x.commit # NoCommit => x.commit \in acc
  /\ x.status = "on_chain_committed" => x.commit # NoCommit

(* A row the database may hold beside the evidence rec and acc.             *)
RowOK(r, rec, acc) ==
  /\ r \in Rows
  /\ Projection(r)
  /\ r.deployed => r.verified /\ rec # {}
  /\ r.commit # NoCommit => r.deployed /\ r.commit \in acc /\ r.commit.dep \in rec

Requested == [op : {"suppress", "update"}, admin : BOOLEAN, avail : Availability, seen : Rows]

(* What a process may have in hand.                                         *)
HandOK(s, r, rec, acc) ==
  /\ s.op = "mirror" => Backed(s.out, r, rec, acc)
  /\ s.op \in {"suppress", "update"} => s \in Requested /\ Backed(s.seen, r, rec, acc)
  /\ s.op = "record" => s.dep \in Deployments /\ r.verified
  /\ s.op = "promote" => s.dep \in rec /\ s.at \in Nat
  /\ s.op \in {"scanned", "listed"} => s.at \in Nat
  /\ s.op \in {"listed", "undeploy", "demote"} => r.verified /\ rec # {}

Inv ==
  /\ lane \in Lanes
  /\ TypeOK
  /\ proc = [p \in Processes |-> proc[p]]
  /\ RowOK(row, recorded, accepted)
  /\ latest # None => latest \in recorded
  /\ static # None => Backed(static, row, recorded, accepted)
  /\ \A p \in Processes : HandOK(proc[p], row, recorded, accepted)

-----------------------------------------------------------------------------
(* Facts about the rows the statements write.                               *)

LEMMA CommitType ==
  ASSUME NEW d \in Deployments, NEW at \in Nat
  PROVE  [dep |-> d, at |-> at] \in Commits /\ [dep |-> d, at |-> at] # NoCommit
  BY LifecycleAssumption DEF Commits, NoCommit

LEMMA DeriveType ==
  ASSUME NEW r, r.avail \in Availability
  PROVE  /\ Derive(r) \in Availability \cup {"source_published", "verified_build", "deployed",
                                             "on_chain_committed"}
         /\ Derive(r) = "on_chain_committed" => r.commit # NoCommit
  BY DEF Derive, Availability

(* A row the database may hold backs itself.                                *)
LEMMA RowBacked ==
  ASSUME NEW r, NEW rec, NEW acc, RowOK(r, rec, acc)
  PROVE  Backed(r, r, rec, acc)
  BY DeriveType DEF RowOK, Backed, Projection, Rows

(* Evidence and verification only grow, so what was backed stays backed.    *)
LEMMA BackedGrows ==
  ASSUME NEW x, NEW r, NEW rec, NEW acc, NEW r2, NEW rec2, NEW acc2,
         Backed(x, r, rec, acc), r.verified => r2.verified, rec \subseteq rec2, acc \subseteq acc2
  PROVE  Backed(x, r2, rec2, acc2)
  BY DEF Backed

LEMMA HandGrows ==
  ASSUME NEW s, NEW r, NEW rec, NEW acc, NEW r2, NEW rec2, NEW acc2,
         HandOK(s, r, rec, acc), r.verified => r2.verified, rec \subseteq rec2, acc \subseteq acc2
  PROVE  HandOK(s, r2, rec2, acc2)
<1>1. s.op = "mirror" => Backed(s.out, r2, rec2, acc2)
  BY BackedGrows DEF HandOK
<1>2. s.op \in {"suppress", "update"} => Backed(s.seen, r2, rec2, acc2)
  BY BackedGrows DEF HandOK
<1> QED BY <1>1, <1>2 DEF HandOK

LEMMA RowGrows ==
  ASSUME NEW r, NEW rec, NEW acc, NEW rec2, NEW acc2,
         RowOK(r, rec, acc), rec \subseteq rec2, acc \subseteq acc2
  PROVE  RowOK(r, rec2, acc2)
  BY DEF RowOK

LEMMA AvailableOK ==
  ASSUME NEW r, NEW rec, NEW acc, RowOK(r, rec, acc), NEW a \in Availability
  PROVE  /\ RowOK(Available(r, a), rec, acc)
         /\ Available(r, a).verified = r.verified
         /\ Available(r, a).avail = a
<1> DEFINE x == [r EXCEPT !.avail = a]
           y == Available(r, a)
<1>1. /\ x.avail = a /\ x.commit = r.commit /\ x.deployed = r.deployed /\ x.verified = r.verified
  BY DEF RowOK, Rows
<1>2. Derive(x) \in Availability \cup {"source_published", "verified_build", "deployed", "on_chain_committed"}
  BY ZenonT(30), <1>1, DeriveType
<1>3. /\ y \in Rows
      /\ y.avail = a /\ y.commit = r.commit /\ y.deployed = r.deployed /\ y.verified = r.verified
      /\ y.status = Derive(x)
  BY ZenonT(30), <1>2 DEF RowOK, Rows, Available
<1>4. Derive(y) = Derive(x)
  BY <1>1, <1>3 DEF Derive
<1> QED BY <1>3, <1>4 DEF RowOK, Projection

LEMMA VerifiedOK ==
  ASSUME NEW r, NEW rec, NEW acc, RowOK(r, rec, acc)
  PROVE  /\ RowOK(Verified(r), rec, acc)
         /\ Verified(r).verified
         /\ Verified(r).avail = r.avail
<1> DEFINE x == [r EXCEPT !.verified = TRUE]
           y == Verified(r)
<1>1. /\ x.avail = r.avail /\ x.commit = r.commit /\ x.deployed = r.deployed /\ x.verified = TRUE
  BY DEF RowOK, Rows
<1>2. Derive(x) \in Availability \cup {"source_published", "verified_build", "deployed", "on_chain_committed"}
  BY <1>1, DeriveType DEF RowOK, Rows
<1>3. /\ y \in Rows
      /\ y.avail = r.avail /\ y.commit = r.commit /\ y.deployed = r.deployed /\ y.verified = TRUE
      /\ y.status = Derive(x)
  BY ZenonT(30), <1>2 DEF RowOK, Rows, Verified
<1>4. Derive(y) = Derive(x)
  BY <1>1, <1>3 DEF Derive
<1> QED BY <1>3, <1>4 DEF RowOK, Projection

LEMMA DeployedOK ==
  ASSUME NEW r, NEW rec, NEW acc, RowOK(r, rec, acc), r.verified, Projection(Deployed(r)), NEW d
  PROVE  /\ RowOK(Deployed(r), rec \cup {d}, acc)
         /\ Deployed(r).verified
         /\ Deployed(r).avail = r.avail
<1> DEFINE y == Deployed(r)
<1>1. /\ y \in Rows /\ y.verified = r.verified /\ y.avail = r.avail
      /\ y.deployed = TRUE
      /\ y.commit = r.commit \/ y.commit = NoCommit
  BY ZenonT(30) DEF RowOK, Rows, Deployed, Commits
<1> QED BY <1>1 DEF RowOK

LEMMA ReconciledOK ==
  ASSUME NEW r, NEW rec, NEW acc, RowOK(r, rec, acc), r.verified, rec # {}, NEW still \in BOOLEAN
  PROVE  /\ RowOK(Reconciled(r, still), rec, acc)
         /\ Reconciled(r, still).verified
         /\ Reconciled(r, still).avail = r.avail
<1> DEFINE y == Reconciled(r, still)
<1>1. /\ y \in Rows /\ y.verified = TRUE /\ y.avail = r.avail
      /\ y.deployed = still
      /\ y.commit = NoCommit
      /\ y.status = IF r.avail # "active" THEN r.status
                    ELSE IF still THEN "deployed" ELSE "verified_build"
  BY ZenonT(30) DEF RowOK, Rows, Reconciled, Commits
<1>2. r.avail # "active" => r.status = r.avail
  BY DEF RowOK, Projection, Derive
<1>3. y.status = Derive(y)
  BY <1>1, <1>2 DEF Derive
<1> QED BY <1>1, <1>3 DEF RowOK, Projection

LEMMA CommittedOK ==
  ASSUME NEW r, NEW rec, NEW acc, RowOK(r, rec, acc), r.deployed,
         NEW d \in Deployments, d \in rec, NEW at \in Nat
  PROVE  /\ RowOK(Committed(r, d, at), rec, acc \cup {[dep |-> d, at |-> at]})
         /\ Committed(r, d, at).verified
         /\ Committed(r, d, at).avail = r.avail
<1> DEFINE c == [dep |-> d, at |-> at]
           x == [r EXCEPT !.commit = c]
           y == Committed(r, d, at)
<1>0. c \in Commits /\ c # NoCommit /\ c.dep = d
  BY CommitType
<1> HIDE DEF c
<1>1. /\ x.avail = r.avail /\ x.commit = c /\ x.deployed = r.deployed /\ x.verified = r.verified
  BY ZenonT(30), <1>0 DEF RowOK, Rows
<1>2. Derive(x) \in Availability \cup {"source_published", "verified_build", "deployed", "on_chain_committed"}
  BY <1>1, DeriveType DEF RowOK, Rows
<1>3. y = [r EXCEPT !.commit = c, !.deployed = TRUE, !.status = Derive(x)]
  BY DEF Committed, c
<1>4. /\ y \in Rows
      /\ y.avail = r.avail /\ y.commit = c /\ y.deployed = TRUE /\ y.verified = r.verified
      /\ y.status = Derive(x)
  BY ZenonT(30), <1>0, <1>2, <1>3 DEF RowOK, Rows
<1>5. Derive(y) = Derive(x)
  BY <1>0, <1>1, <1>4 DEF Derive
<1>6. RowOK(y, rec, acc \cup {c})
  BY <1>0, <1>4, <1>5 DEF RowOK, Projection
<1> QED BY <1>4, <1>6 DEF RowOK, c

-----------------------------------------------------------------------------
(* What a step has to establish.                                            *)

LEMMA IdleOK ==
  ASSUME NEW r, NEW rec, NEW acc
  PROVE  HandOK(Idle, r, rec, acc)
  BY DEF HandOK, Idle

(* A step that gives process p the state s and lets the evidence grow.      *)
LEMMA Keeps ==
  ASSUME Inv, NEW p \in Processes, NEW s,
         Become(p, s), HandOK(s, row', recorded', accepted'),
         RowOK(row', recorded', accepted'), row.verified => row'.verified,
         recorded \subseteq recorded', recorded' \subseteq Deployments,
         accepted \subseteq accepted', accepted' \subseteq Commits,
         latest' \in Deployments \cup {None}, latest' # None => latest' \in recorded',
         static' = static \/ Backed(static', row', recorded', accepted'),
         UNCHANGED <<lane, chain>>, faults' \in 0..lane.faults
  PROVE  Inv'
<1>1. proc' = [q \in Processes |-> IF q = p THEN s ELSE proc[q]]
  BY DEF Inv, Become
<1>2. \A q \in Processes : HandOK(proc'[q], row', recorded', accepted')
  BY <1>1, HandGrows DEF Inv
<1>3. static' # None => Backed(static', row', recorded', accepted')
  BY BackedGrows DEF Inv
<1>4. static' \in Rows \cup {None}
  BY <1>3 DEF Backed
<1>5. DOMAIN proc' = Processes /\ proc' = [q \in Processes |-> proc'[q]]
  BY <1>1
<1>6. row' \in Rows
  BY DEF RowOK
<1>7. TypeOK'
  BY <1>4, <1>5, <1>6 DEF TypeOK, Inv, chain
<1> QED BY <1>2, <1>3, <1>5, <1>7 DEF Inv

LEMMA ReadsKeep ==
  ASSUME Inv, NEW p \in Processes, NEW s, Reads(p, s), HandOK(s, row, recorded, accepted),
         lane' = lane, faults' \in 0..lane.faults
  PROVE  Inv'
<1>1. Become(p, s) /\ UNCHANGED <<row, latest, recorded, accepted, static, chain>>
  BY DEF Reads, evidence
<1> QED BY <1>1, Keeps DEF Inv, TypeOK

LEMMA RefusedKeeps ==
  ASSUME Inv, NEW p \in Processes, Refused(p), lane' = lane, faults' \in 0..lane.faults
  PROVE  Inv'
  BY IdleOK, ReadsKeep DEF Refused, Reads

LEMMA StoresKeep ==
  ASSUME Inv, NEW p \in Processes, NEW r, Stores(p, r),
         RowOK(r, recorded', accepted'), row.verified => r.verified,
         recorded \subseteq recorded', recorded' \subseteq Deployments,
         accepted \subseteq accepted', accepted' \subseteq Commits,
         latest' \in Deployments \cup {None}, latest' # None => latest' \in recorded',
         UNCHANGED <<lane, faults, static, chain>>
  PROVE  Inv'
<1> DEFINE s == [op |-> "mirror", out |-> r]
<1>1. Projection(r)
  BY DEF RowOK
<1>2. row' = r /\ Become(p, s)
  BY <1>1 DEF Stores
<1>3. HandOK(s, row', recorded', accepted')
  BY <1>2, RowBacked DEF HandOK
<1>4. faults' \in 0..lane.faults
  BY DEF Inv, TypeOK
<1> HIDE DEF s
<1> QED BY <1>2, <1>3, <1>4, Keeps

-----------------------------------------------------------------------------
(* The steps of a request.                                                  *)

LEMMA FaultsKept ==
  ASSUME Inv, UNCHANGED <<lane, faults>>
  PROVE  faults' \in 0..lane.faults
  BY DEF Inv, TypeOK

LEMMA StepRequestAvailability ==
  ASSUME Inv, NEW h \in Handlers, NEW admin \in BOOLEAN, NEW a \in Availability,
         RequestAvailability(h, admin, a), UNCHANGED <<lane, faults>>
  PROVE  Inv'
<1> DEFINE s == [op |-> IF Suppressive(a) THEN "suppress" ELSE "update",
                 admin |-> admin, avail |-> a, seen |-> row]
<1>1. Backed(row, row, recorded, accepted) /\ row \in Rows
  BY RowBacked DEF Inv, RowOK
<1>2. s.op \in {"suppress", "update"} /\ s \in Requested /\ s.seen = row
  BY <1>1 DEF Requested
<1> HIDE DEF s
<1>3. HandOK(s, row, recorded, accepted)
  BY <1>1, <1>2 DEF HandOK
<1>4. Reads(h, s)
  BY Zenon DEF RequestAvailability, s
<1> QED BY <1>3, <1>4, FaultsKept, ReadsKeep DEF Processes

LEMMA StepSuppress ==
  ASSUME Inv, NEW h \in Handlers, Suppress(h), UNCHANGED <<lane, faults>>
  PROVE  Inv'
<1> DEFINE s == [proc[h] EXCEPT !.op = "update"]
           x == [proc[h].seen EXCEPT !.avail = proc[h].avail, !.status = proc[h].avail]
<1>1. proc[h] \in Requested /\ Backed(proc[h].seen, row, recorded, accepted)
  BY DEF Inv, Suppress, HandOK, Processes
<1>2. /\ Become(h, s) /\ static' = x
      /\ UNCHANGED <<row, latest, recorded, accepted, chain>>
  BY DEF Suppress, evidence
<1>3. s \in Requested /\ s.op = "update" /\ s.seen = proc[h].seen
  BY <1>1 DEF Requested
<1>4. /\ x \in Rows /\ x.verified = proc[h].seen.verified /\ x.deployed = proc[h].seen.deployed
      /\ x.commit = proc[h].seen.commit /\ x.status \in Availability
  BY ZenonT(30), <1>1 DEF Requested, Rows
<1>5. Backed(x, row, recorded, accepted)
  BY <1>1, <1>4 DEF Backed, Availability
<1> HIDE DEF s, x
<1>6. HandOK(s, row, recorded, accepted)
  BY <1>1, <1>3 DEF HandOK
<1> QED BY Zenon, <1>2, <1>5, <1>6, FaultsKept, Keeps DEF Inv, TypeOK, Processes

LEMMA StepUpdateStatus ==
  ASSUME Inv, NEW h \in Handlers, UpdateStatus(h), UNCHANGED <<lane, faults>>
  PROVE  Inv'
<1> DEFINE a == proc[h].avail
           r == Available(row, a)
<1>0. h \in Processes
  BY DEF Processes
<1>1. a \in Availability
  BY <1>0 DEF Inv, UpdateStatus, HandOK, Requested
<1>2. RowOK(r, recorded, accepted) /\ r.verified = row.verified
  BY Zenon, <1>1, AvailableOK DEF Inv
<1> HIDE DEF r
<1>3. CASE MayUpdate(h) /\ UNCHANGED <<evidence, static, chain>> /\ Suppressive(a) /\ row' = r /\ Become(h, Idle)
  <2>1. UNCHANGED <<latest, recorded, accepted, static, chain>>
    BY <1>3 DEF evidence
  <2> QED BY <1>0, <1>2, <1>3, <2>1, IdleOK, FaultsKept, Keeps DEF Inv, TypeOK
<1>4. CASE MayUpdate(h) /\ UNCHANGED <<evidence, static, chain>> /\ Stores(h, r)
  <2>1. UNCHANGED <<latest, recorded, accepted, static, chain>>
    BY <1>4 DEF evidence
  <2> QED BY <1>0, <1>2, <1>4, <2>1, StoresKeep DEF Inv, TypeOK
<1>5. CASE Refused(h)
  BY <1>0, <1>5, FaultsKept, RefusedKeeps
<1> QED BY <1>3, <1>4, <1>5 DEF UpdateStatus, r

LEMMA StepVerifyDeployment ==
  ASSUME Inv, NEW h \in Handlers, NEW d, VerifyDeployment(h, d), UNCHANGED <<lane, faults>>
  PROVE  Inv'
<1> DEFINE s == [op |-> "record", dep |-> d]
<1>1. d \in Deployments /\ row.verified /\ Reads(h, s)
  BY DEF VerifyDeployment, Fresh, Inv, TypeOK
<1>2. HandOK(s, row, recorded, accepted)
  BY <1>1 DEF HandOK
<1> HIDE DEF s
<1> QED BY <1>1, <1>2, FaultsKept, ReadsKeep DEF Processes

LEMMA StepRecordDeployment ==
  ASSUME Inv, NEW h \in Handlers, RecordDeployment(h), UNCHANGED <<lane, faults>>
  PROVE  Inv'
<1> DEFINE d == proc[h].dep
           r == Deployed(row)
<1>0. h \in Processes
  BY DEF Processes
<1>1. d \in Deployments /\ row.verified
  BY <1>0 DEF Inv, RecordDeployment, HandOK
<1>2. CASE /\ Projection(r) /\ latest' = d /\ recorded' = recorded \cup {d} /\ Stores(h, r)
           /\ UNCHANGED <<accepted, static, chain>>
  <2>1. RowOK(r, recorded', accepted') /\ r.verified
    BY ZenonT(30), <1>1, <1>2, DeployedOK DEF Inv
  <2> HIDE DEF r
  <2> QED BY ZenonT(30), <1>0, <1>1, <1>2, <2>1, StoresKeep DEF Inv, TypeOK
<1>3. CASE Refused(h)
  BY <1>0, <1>3, FaultsKept, RefusedKeeps
<1> QED BY <1>2, <1>3 DEF RecordDeployment

LEMMA StepAcceptBuild ==
  ASSUME Inv, NEW h \in Handlers, AcceptBuild(h), UNCHANGED <<lane, faults>>
  PROVE  Inv'
<1> DEFINE r == Verified(row)
<1>1. RowOK(r, recorded, accepted) /\ r.verified
  BY VerifiedOK DEF Inv
<1>2. Stores(h, r) /\ UNCHANGED <<latest, recorded, accepted, static, chain>>
  BY DEF AcceptBuild, evidence
<1> HIDE DEF r
<1> QED BY Zenon, <1>1, <1>2, StoresKeep DEF Inv, TypeOK, Processes

LEMMA StepVerifyCommitment ==
  ASSUME Inv, NEW h \in Handlers, NEW at \in 0..height, VerifyCommitment(h, at), UNCHANGED <<lane, faults>>
  PROVE  Inv'
<1> DEFINE s == [op |-> "promote", dep |-> latest, at |-> at]
<1>1. latest \in recorded
  BY LifecycleAssumption DEF VerifyCommitment, CommitCells, Inv
<1>2. at \in Nat
  BY DEF Inv, TypeOK
<1>3. HandOK(s, row, recorded, accepted)
  BY <1>1, <1>2 DEF HandOK
<1>4. Reads(h, s)
  BY DEF VerifyCommitment
<1> HIDE DEF s
<1> QED BY <1>3, <1>4, FaultsKept, ReadsKeep DEF Processes

LEMMA StepPromoteCommitment ==
  ASSUME Inv, NEW p \in Processes, PromoteCommitment(p), UNCHANGED <<lane, faults>>
  PROVE  Inv'
<1> DEFINE d == proc[p].dep
           at == proc[p].at
           c == [dep |-> d, at |-> at]
           r == Committed(row, d, at)
<1>1. d \in recorded /\ d \in Deployments /\ at \in Nat
  BY DEF Inv, TypeOK, PromoteCommitment, HandOK
<1>2. CASE /\ MayCommit(at) /\ accepted' = accepted \cup {c} /\ Stores(p, r)
           /\ UNCHANGED <<latest, recorded, static, chain>>
  <2>1. RowOK(r, recorded', accepted') /\ r.verified
    BY Zenon, <1>1, <1>2, CommittedOK DEF Inv, MayCommit
  <2>2. accepted' \subseteq Commits
    BY <1>1, <1>2, CommitType DEF Inv, TypeOK
  <2> HIDE DEF r, c
  <2> QED BY Zenon, <1>2, <2>1, <2>2, StoresKeep DEF Inv, TypeOK
<1>3. CASE Refused(p)
  BY <1>3, FaultsKept, RefusedKeeps
<1> QED BY <1>2, <1>3 DEF PromoteCommitment

LEMMA StepSyncStatic ==
  ASSUME Inv, NEW h \in Handlers, SyncStatic(h), UNCHANGED <<lane, faults>>
  PROVE  Inv'
<1> DEFINE s == [op |-> "mirror", out |-> row]
<1>1. HandOK(s, row, recorded, accepted)
  BY RowBacked DEF HandOK, Inv
<1>2. Reads(h, s)
  BY Zenon DEF SyncStatic
<1> HIDE DEF s
<1> QED BY <1>1, <1>2, FaultsKept, ReadsKeep DEF Processes

LEMMA StepMirror ==
  ASSUME Inv, NEW p \in Processes, Mirror(p), UNCHANGED <<lane, faults>>
  PROVE  Inv'
<1>1. Backed(proc[p].out, row, recorded, accepted)
  BY DEF Mirror, Inv, HandOK
<1>2. Become(p, Idle) /\ static' = proc[p].out /\ UNCHANGED <<row, latest, recorded, accepted, chain>>
  BY DEF Mirror, evidence
<1> QED BY <1>1, <1>2, IdleOK, FaultsKept, Keeps DEF Inv, TypeOK

-----------------------------------------------------------------------------
(* The steps of maintenance.                                                *)

LEMMA StepScan ==
  ASSUME Inv, NEW complete, Scan(complete), lane' = lane, faults' \in 0..lane.faults
  PROVE  Inv'
<1> DEFINE s == [op |-> "scanned", complete |-> complete, at |-> height,
                 cells |-> IF complete THEN CommitCells ELSE {}]
<1>1. height \in Nat
  BY Z3T(30) DEF Inv, TypeOK
<1>2. HandOK(s, row, recorded, accepted)
  BY <1>1 DEF HandOK
<1>3. Reads(Indexer, s)
  BY DEF Scan
<1> HIDE DEF s
<1> QED BY <1>2, <1>3, ReadsKeep DEF Processes

LEMMA StepList ==
  ASSUME Inv, List, UNCHANGED <<lane, faults>>
  PROVE  Inv'
<1> DEFINE i == proc[Indexer]
           s == [op |-> "listed", complete |-> i.complete, at |-> i.at, cells |-> i.cells, seen |-> row]
<1>0. Indexer \in Processes
  BY DEF Processes
<1>1. row.deployed => HandOK(s, row, recorded, accepted)
  <2>1. i.at \in Nat
    BY Z3T(30), <1>0 DEF List, Inv, HandOK
  <2> QED BY <2>1 DEF HandOK, Inv, RowOK
<1>2. \/ row.deployed /\ Reads(Indexer, s)
      \/ Reads(Indexer, Idle)
  BY DEF List
<1> HIDE DEF s
<1> QED BY <1>0, <1>1, <1>2, IdleOK, FaultsKept, ReadsKeep

LEMMA StepCheckDeployment ==
  ASSUME Inv, CheckDeployment, UNCHANGED <<lane, faults>>
  PROVE  Inv'
<1> DEFINE i == proc[Indexer]
<1>0. Indexer \in Processes
  BY DEF Processes
<1>1. i.at \in Nat /\ row.verified /\ recorded # {} /\ latest \in recorded
  BY <1>0 DEF CheckDeployment, Inv, HandOK
<1>2. Verdict(i) \in {[op |-> "undeploy"], [op |-> "demote"], Idle, [op |-> "promote", dep |-> latest, at |-> i.at]}
  BY Zenon DEF Verdict
<1>3. \A s \in {[op |-> "undeploy"], [op |-> "demote"], Idle, [op |-> "promote", dep |-> latest, at |-> i.at]} :
         HandOK(s, row, recorded, accepted)
  BY <1>1 DEF HandOK, Idle
<1>4. Reads(Indexer, Verdict(i))
  BY Z3T(30) DEF CheckDeployment
<1> QED BY <1>0, <1>2, <1>3, <1>4, FaultsKept, ReadsKeep

LEMMA StepReconcile ==
  ASSUME Inv, Reconcile, UNCHANGED <<lane, faults>>
  PROVE  Inv'
<1> DEFINE r == Reconciled(row, proc[Indexer].op = "demote")
<1>0. Indexer \in Processes
  BY DEF Processes
<1>1. row.verified /\ recorded # {}
  BY <1>0 DEF Reconcile, Inv, HandOK
<1>2. RowOK(r, recorded, accepted) /\ r.verified
  BY ZenonT(30), <1>1, ReconciledOK DEF Inv
<1>3. Stores(Indexer, r) /\ UNCHANGED <<latest, recorded, accepted, static, chain>>
  BY DEF Reconcile, evidence
<1> HIDE DEF r
<1> QED BY <1>0, <1>2, <1>3, StoresKeep DEF Inv, TypeOK

LEMMA StepDemoteCommitments ==
  ASSUME Inv, DemoteCommitments, lane' = lane, faults' \in 0..lane.faults
  PROVE  Inv'
<1> DEFINE s == [op |-> "demote"]
<1>1. HandOK(s, row, recorded, accepted)
  BY DEF HandOK, DemoteCommitments, Inv, RowOK
<1>2. Reads(Indexer, s)
  BY DEF DemoteCommitments
<1> HIDE DEF s
<1> QED BY <1>1, <1>2, ReadsKeep DEF Processes

LEMMA StepFail ==
  ASSUME Inv, NEW p \in Processes, Fail(p), lane' = lane, faults' \in 0..lane.faults
  PROVE  Inv'
  BY RefusedKeeps DEF Fail

(* The chain touches neither the row nor what a process has in hand.        *)
LEMMA StepChain ==
  ASSUME Inv, Chain, UNCHANGED <<lane, faults>>
  PROVE  Inv'
<1>1. UNCHANGED <<row, latest, recorded, accepted, static, proc>>
  BY DEF Chain, SpendDeployment, CreateCommitment, SpendCommitment, evidence
<1>2. /\ liveCells' \subseteq Deployments
      /\ commitCell' \in [Deployments -> {"none", "live", "spent"}]
      /\ height' \in 0..lane.height
  <2>1. lane.height \in Nat /\ lane.deployments \subseteq Deployments
    BY LifecycleAssumption DEF Inv
  <2> QED BY <2>1 DEF Chain, SpendDeployment, CreateCommitment, SpendCommitment, Inv, TypeOK
<1> QED BY Zenon, <1>1, <1>2 DEF Inv, TypeOK

LEMMA Initially ==
  ASSUME Init
  PROVE  Inv
<1>1. PICK h \in lane.handlers :
        proc = [p \in Processes |-> IF p = h THEN [op |-> "mirror", out |-> Admitted] ELSE Idle]
  BY DEF Init
<1>2. NoCommit \in Commits
  BY DEF Commits
<1>3. Admitted \in Rows /\ Projection(Admitted) /\ ~Admitted.verified /\ ~Admitted.deployed
      /\ Admitted.commit = NoCommit /\ Admitted.status = "source_published"
  BY <1>2 DEF Admitted, Rows, Availability, Projection, Derive
<1>4. RowOK(row, recorded, accepted) /\ Backed(Admitted, row, recorded, accepted)
  BY <1>3 DEF Init, RowOK, Backed
<1>5. lane.height \in Nat /\ lane.faults \in Nat
  BY LifecycleAssumption DEF Init
<1>6. TypeOK
  BY Z3T(30), <1>1, <1>3, <1>5 DEF Init, TypeOK
<1>7. \A p \in Processes : proc[p] = Idle \/ proc[p] = [op |-> "mirror", out |-> Admitted]
  BY <1>1
<1>8. HandOK([op |-> "mirror", out |-> Admitted], row, recorded, accepted)
  BY <1>4 DEF HandOK
<1>9. \A p \in Processes : HandOK(proc[p], row, recorded, accepted)
  BY <1>7, <1>8, IdleOK
<1> QED BY <1>1, <1>4, <1>6, <1>9 DEF Init, Inv

LEMMA Inductive ==
  ASSUME Inv, [Next]_vars
  PROVE  Inv'
<1>1. ASSUME NEW h \in lane.handlers, Handler(h), UNCHANGED <<lane, faults>> PROVE Inv'
  <2>0. h \in Handlers /\ h \in Processes
    BY LifecycleAssumption DEF Inv, Processes
  <2> QED BY <1>1, <2>0, FaultsKept, StepRequestAvailability, StepVerifyDeployment, StepAcceptBuild,
             StepVerifyCommitment, StepSyncStatic, StepSuppress, StepUpdateStatus, StepRecordDeployment,
             StepPromoteCommitment, StepMirror, StepFail DEF Handler
<1>2. CASE Pass
  <2>0. Indexer \in Processes
    BY DEF Processes
  <2> QED BY ZenonT(30), <1>2, <2>0, FaultsKept, StepScan, StepList, StepCheckDeployment, StepReconcile,
             StepPromoteCommitment, StepMirror DEF Pass
<1>3. CASE Setback
  <2>0. Indexer \in Processes
    BY DEF Processes
  <2>1. faults' \in 0..lane.faults
    BY <1>3, LifecycleAssumption DEF Setback, Inv, TypeOK
  <2> QED BY ZenonT(30), <1>3, <2>0, <2>1, StepScan, StepDemoteCommitments, StepFail DEF Setback
<1>4. CASE Chain /\ UNCHANGED <<lane, faults>>
  BY <1>4, StepChain
<1>5. CASE UNCHANGED vars
  BY <1>5 DEF vars, Inv, TypeOK
<1> QED BY Zenon, <1>1, <1>2, <1>3, <1>4, <1>5 DEF Next

THEOREM Invariant == Spec => []Inv
<1>1. Init => Inv
  BY Initially
<1>2. Inv /\ [Next]_vars => Inv'
  BY Inductive
<1> QED BY <1>1, <1>2, PTL DEF Spec

-----------------------------------------------------------------------------
(* The row, the evidence, the mirror and the chain stay well typed.         *)
THEOREM LifecycleTypes == Spec => []TypeOK
<1>1. Inv => TypeOK
  BY DEF Inv
<1> QED BY <1>1, Invariant, PTL

(* reconcilePackageVersionLifecycle has no condition on the row it updates; *)
(* the row it writes passes the projection check all the same, whatever     *)
(* requests did since the indexer listed the release.                       *)
THEOREM ReconciliationAcceptedAlways == Spec => []ReconciliationAccepted
<1>1. Inv => ReconciliationAccepted
  <2> SUFFICES ASSUME Inv, proc[Indexer].op \in {"undeploy", "demote"}
               PROVE  Projection(Reconciled(row, proc[Indexer].op = "demote"))
    BY DEF ReconciliationAccepted
  <2>1. row.verified /\ recorded # {}
    BY ZenonT(30) DEF Inv, HandOK, Processes
  <2> QED BY ZenonT(30), <2>1, ReconciledOK DEF Inv, RowOK
<1> QED BY <1>1, Invariant, PTL

(* A verified build, a deployment or a commitment in the mirror has its     *)
(* evidence stored: positive states are mirrored after their transaction,   *)
(* and evidence is never taken back.                                        *)
THEOREM MirrorNeverAheadAlways == Spec => []MirrorNeverAhead
<1>1. Inv => MirrorNeverAhead
  BY DEF Inv, MirrorNeverAhead, Backed
<1> QED BY <1>1, Invariant, PTL

(* A release that points at a commitment is deployed, and both have their   *)
(* evidence, for every order of promotions, deployments and demotions.      *)
THEOREM CommitmentIsDeployedAlways == Spec => []CommitmentIsDeployed
<1>1. Inv => CommitmentIsDeployed
  BY DEF Inv, CommitmentIsDeployed, RowOK
<1> QED BY <1>1, Invariant, PTL

-----------------------------------------------------------------------------
(* The availability a step leaves, unless it is an availability update.     *)
QuarantineStep ==
  row.avail = "quarantined" /\ row'.avail # "quarantined" =>
    \E h \in Handlers : proc[h].op = "update" /\ proc[h].admin /\ proc'[h] # proc[h]

LEMMA StoresAvail ==
  ASSUME NEW p, NEW r, Stores(p, r), r.avail = row.avail
  PROVE  row'.avail = row.avail
  BY DEF Stores

LEMMA UpdateByAdmin ==
  ASSUME Inv, NEW h \in Handlers, UpdateStatus(h)
  PROVE  QuarantineStep
<1> SUFFICES ASSUME row.avail = "quarantined", row'.avail # "quarantined"
             PROVE  proc[h].op = "update" /\ proc[h].admin /\ proc'[h] # proc[h]
  BY DEF QuarantineStep
<1>1. MayUpdate(h) /\ proc[h].op = "update"
  BY DEF UpdateStatus, Refused
<1>2. proc[h].admin
  BY Zenon, <1>1 DEF MayUpdate
<1>3. PICK s : Become(h, s) /\ s.op \in {"idle", "mirror"}
  BY Z3T(30), <1>1 DEF UpdateStatus, Stores, Idle
<1>4. proc'[h] = s
  BY <1>3 DEF Become, Inv, Processes
<1> QED BY <1>1, <1>2, <1>3, <1>4

LEMMA QuarantineSteps ==
  ASSUME Inv, [Next]_vars
  PROVE  QuarantineStep
<1>1. ASSUME NEW h \in Handlers, UpdateStatus(h) PROVE QuarantineStep
  BY <1>1, UpdateByAdmin
<1>2. ASSUME NEW p \in Processes, PromoteCommitment(p) PROVE row'.avail = row.avail
  <2> DEFINE r == Committed(row, proc[p].dep, proc[p].at)
  <2>1. r.avail = row.avail
    BY Zenon DEF Committed, Inv, RowOK, Rows
  <2>2. Stores(p, r) \/ row' = row
    BY Zenon, <1>2 DEF PromoteCommitment, Refused
  <2> HIDE DEF r
  <2> QED BY <2>1, <2>2, StoresAvail
<1>3. ASSUME NEW h \in Handlers, RecordDeployment(h) PROVE row'.avail = row.avail
  <2>1. Deployed(row).avail = row.avail
    BY Z3T(30) DEF Deployed, Inv, RowOK, Rows
  <2>2. Stores(h, Deployed(row)) \/ row' = row
    BY Z3T(30), <1>3 DEF RecordDeployment, Refused
  <2> QED BY <2>1, <2>2, StoresAvail
<1>4. ASSUME NEW h \in Handlers, AcceptBuild(h) PROVE row'.avail = row.avail
  <2>1. Verified(row).avail = row.avail
    BY VerifiedOK DEF Inv
  <2> QED BY <1>4, <2>1, StoresAvail DEF AcceptBuild
<1>5. ASSUME Reconcile PROVE row'.avail = row.avail
  <2> DEFINE r == Reconciled(row, proc[Indexer].op = "demote")
  <2>1. r.avail = row.avail
    BY DEF Reconciled, Inv, RowOK, Rows
  <2>2. Stores(Indexer, r)
    BY <1>5 DEF Reconcile
  <2> HIDE DEF r
  <2> QED BY <2>1, <2>2, StoresAvail
<1>6. ASSUME NEW h \in lane.handlers, Handler(h) PROVE QuarantineStep
  <2>0. h \in Handlers /\ h \in Processes
    BY LifecycleAssumption DEF Inv, Processes
  <2>1. CASE UpdateStatus(h)
    BY <2>0, <2>1, <1>1
  <2>2. CASE RecordDeployment(h) \/ PromoteCommitment(h) \/ AcceptBuild(h)
    BY <2>0, <2>2, <1>2, <1>3, <1>4 DEF QuarantineStep
  <2>3. CASE ~(UpdateStatus(h) \/ RecordDeployment(h) \/ PromoteCommitment(h) \/ AcceptBuild(h))
    <3>1. row' = row
      BY ZenonT(30), <1>6, <2>3 DEF Handler, RequestAvailability, VerifyDeployment, VerifyCommitment, SyncStatic,
                        Suppress, Mirror, Fail, Refused, Reads
    <3> QED BY <3>1 DEF QuarantineStep
  <2> QED BY <2>1, <2>2, <2>3
<1>7. CASE Pass \/ Setback
  <2>1. CASE Reconcile \/ PromoteCommitment(Indexer)
    BY <2>1, <1>2, <1>5 DEF Processes, QuarantineStep
  <2>2. CASE ~(Reconcile \/ PromoteCommitment(Indexer))
    <3>1. row' = row
      BY Zenon, <1>7, <2>2 DEF Pass, Setback, Scan, List, CheckDeployment, DemoteCommitments, Mirror, Fail, Refused, Reads
    <3> QED BY Zenon, <3>1 DEF QuarantineStep
  <2> QED BY <2>1, <2>2
<1>8. CASE Chain \/ UNCHANGED vars
  <2>1. row' = row
    BY <1>8 DEF Chain, SpendDeployment, CreateCommitment, SpendCommitment, vars
  <2> QED BY Z3T(30), <2>1 DEF QuarantineStep
<1> QED BY <1>6, <1>7, <1>8 DEF Next

(* A quarantine is lifted by an administrator's update and by nothing else: *)
(* updatePackageVersionStatus checks again under the row lock.              *)
THEOREM QuarantineSticksAlways == Spec => QuarantineSticks
<1>1. Inv /\ [Next]_vars => [QuarantineStep]_vars
  BY QuarantineSteps
<1> QED BY <1>1, Invariant, PTL DEF Spec, QuarantineSticks, QuarantineStep

-----------------------------------------------------------------------------
(* One process at a time: what it has in hand agrees with the row and the   *)
(* mirror as they are.                                                      *)
Closed(r, st) == st # None /\ Suppressive(r.avail) => Suppressive(st.avail)

SerialOK(s, r, st) ==
  /\ s.op = "mirror" => s.out = r
  /\ s.op = "suppress" => Suppressive(s.avail)
  /\ s.op = "update" /\ Suppressive(s.avail) /\ st # None => Suppressive(st.avail)

Serial ==
  lane.serial =>
    /\ \A p, q \in Processes : proc[p] # Idle /\ proc[q] # Idle => p = q
    /\ \A p \in Processes : SerialOK(proc[p], row, static)
    /\ Closed(row, static)

Works(p) == Starts(p) \/ proc[p] # Idle

LEMMA SerialIdle ==
  ASSUME NEW r, NEW st
  PROVE  SerialOK(Idle, r, st)
  BY Zenon DEF SerialOK, Idle

LEMMA SerialKeeps ==
  ASSUME Inv, Serial, NEW p \in Processes, NEW s, Works(p), Become(p, s), lane' = lane,
         lane.serial => SerialOK(s, row', static') /\ Closed(row', static')
  PROVE  Serial'
<1> SUFFICES ASSUME lane.serial PROVE Serial'
  BY DEF Serial
<1>1. \A q \in Processes : q # p => proc[q] = Idle
  BY DEF Works, Starts, Serial
<1>2. proc' = [q \in Processes |-> IF q = p THEN s ELSE proc[q]]
  BY DEF Inv, Become
<1>3. \A q \in Processes : q # p => proc'[q] = Idle
  BY <1>1, <1>2
<1>4. proc'[p] = s
  BY <1>2
<1>5. \A q \in Processes : SerialOK(proc'[q], row', static')
  BY <1>3, <1>4, SerialIdle
<1> QED BY Z3T(30), <1>3, <1>5 DEF Serial

LEMMA Busy ==
  ASSUME NEW p, proc[p].op # "idle"
  PROVE  Works(p)
  BY DEF Works, Idle

LEMMA SerialReads ==
  ASSUME Inv, Serial, NEW p \in Processes, NEW s, Works(p), Reads(p, s), lane' = lane,
         SerialOK(s, row, static)
  PROVE  Serial'
<1>1. Become(p, s) /\ row' = row /\ static' = static
  BY DEF Reads
<1>2. lane.serial => Closed(row, static)
  BY DEF Serial
<1> QED BY <1>1, <1>2, SerialKeeps

LEMMA SerialStores ==
  ASSUME Inv, Serial, NEW p \in Processes, NEW r, Works(p), Stores(p, r), UNCHANGED <<lane, static>>,
         r.avail = row.avail \/ r.avail = "active"
  PROVE  Serial'
<1>1. lane.serial => Closed(row', static')
  BY DEF Serial, Closed, Stores, Suppressive
<1>2. CASE Projection(r)
  <2> DEFINE s == [op |-> "mirror", out |-> r]
  <2>1. Become(p, s) /\ row' = r
    BY <1>2 DEF Stores
  <2>2. SerialOK(s, row', static')
    BY <2>1 DEF SerialOK
  <2> HIDE DEF s
  <2> QED BY <1>1, <2>1, <2>2, SerialKeeps
<1>3. CASE ~Projection(r)
  <2>1. Become(p, Idle)
    BY <1>3 DEF Stores
  <2> QED BY <1>1, <2>1, SerialIdle, SerialKeeps
<1> QED BY <1>2, <1>3

LEMMA SerialRefused ==
  ASSUME Inv, Serial, NEW p \in Processes, Works(p), Refused(p), lane' = lane
  PROVE  Serial'
  BY Z3T(30), SerialIdle, SerialReads DEF Refused, Reads

LEMMA SerialUpdate ==
  ASSUME Inv, Serial, NEW h \in Handlers, UpdateStatus(h), lane' = lane
  PROVE  Serial'
<1> DEFINE a == proc[h].avail
           r == Available(row, a)
<1>0. h \in Processes /\ Works(h)
  BY Z3T(30), Busy DEF Processes, UpdateStatus
<1>1. a \in Availability
  BY <1>0 DEF Inv, UpdateStatus, HandOK, Requested
<1>2. r.avail = a
  BY <1>1, AvailableOK DEF Inv
<1> HIDE DEF r
<1>3. CASE Suppressive(a) /\ row' = r /\ Become(h, Idle) /\ static' = static
  <2>1. lane.serial => Closed(row', static')
    BY <1>0, <1>3 DEF UpdateStatus, Serial, SerialOK, Closed
  <2> QED BY Zenon, <1>0, <1>3, <2>1, SerialIdle, SerialKeeps
<1>4. CASE ~Suppressive(a) /\ Stores(h, r) /\ static' = static
  BY <1>0, <1>2, <1>4, SerialStores DEF Suppressive
<1>5. CASE Refused(h)
  BY <1>0, <1>5, SerialRefused
<1> QED BY Zenon, <1>3, <1>4, <1>5 DEF UpdateStatus, r

LEMMA SerialPromote ==
  ASSUME Inv, Serial, NEW p \in Processes, PromoteCommitment(p), lane' = lane
  PROVE  Serial'
<1> DEFINE r == Committed(row, proc[p].dep, proc[p].at)
<1>1. Works(p)
  BY Busy DEF PromoteCommitment
<1>2. r.avail = row.avail
  BY Z3T(30) DEF Committed, Inv, RowOK, Rows
<1>3. (Stores(p, r) /\ static' = static) \/ Refused(p)
  BY DEF PromoteCommitment
<1> HIDE DEF r
<1> QED BY Z3T(30), <1>1, <1>2, <1>3, SerialStores, SerialRefused

LEMMA SerialMirror ==
  ASSUME Inv, Serial, NEW p \in Processes, Mirror(p), lane' = lane
  PROVE  Serial'
<1>1. Works(p) /\ Become(p, Idle) /\ static' = proc[p].out /\ row' = row
  BY Z3T(30), Busy DEF Mirror
<1>2. lane.serial => proc[p].out = row
  BY DEF Mirror, Serial, SerialOK
<1>3. lane.serial => Closed(row', static')
  BY ZenonT(30), <1>1, <1>2 DEF Closed
<1> QED BY <1>1, <1>3, SerialIdle, SerialKeeps

LEMMA SerialHandler ==
  ASSUME Inv, Serial, NEW h \in lane.handlers, Handler(h), UNCHANGED <<lane, faults>>
  PROVE  Serial'
<1>0. h \in Handlers /\ h \in Processes
  BY LifecycleAssumption DEF Inv, Processes
<1>1. ASSUME NEW admin \in BOOLEAN, NEW a \in Availability, RequestAvailability(h, admin, a) PROVE Serial'
  <2> DEFINE s == [op |-> IF Suppressive(a) THEN "suppress" ELSE "update",
                   admin |-> admin, avail |-> a, seen |-> row]
  <2>1. Works(h) /\ Reads(h, s)
    BY <1>1 DEF RequestAvailability, Works
  <2>2. SerialOK(s, row, static)
    BY DEF SerialOK
  <2> HIDE DEF s
  <2> QED BY Z3T(30), <1>0, <2>1, <2>2, SerialReads
<1>2. ASSUME NEW d, VerifyDeployment(h, d) PROVE Serial'
  <2> DEFINE s == [op |-> "record", dep |-> d]
  <2>1. Works(h) /\ Reads(h, s)
    BY Z3T(30), <1>2 DEF VerifyDeployment, Works
  <2>2. SerialOK(s, row, static)
    BY DEF SerialOK
  <2> HIDE DEF s
  <2> QED BY Z3T(30), <1>0, <2>1, <2>2, SerialReads
<1>3. ASSUME AcceptBuild(h) PROVE Serial'
  <2>1. Works(h) /\ Stores(h, Verified(row)) /\ static' = static
    BY <1>3 DEF AcceptBuild, Works
  <2>2. Verified(row).avail = row.avail
    BY VerifiedOK DEF Inv
  <2> QED BY <1>0, <2>1, <2>2, SerialStores
<1>4. ASSUME NEW at, VerifyCommitment(h, at) PROVE Serial'
  <2> DEFINE s == [op |-> "promote", dep |-> latest, at |-> at]
  <2>1. Works(h) /\ Reads(h, s)
    BY <1>4 DEF VerifyCommitment, Works
  <2>2. SerialOK(s, row, static)
    BY Z3T(30) DEF SerialOK
  <2> HIDE DEF s
  <2> QED BY <1>0, <2>1, <2>2, SerialReads
<1>5. ASSUME SyncStatic(h) PROVE Serial'
  <2> DEFINE s == [op |-> "mirror", out |-> row]
  <2>1. Works(h) /\ Reads(h, s)
    BY <1>5 DEF SyncStatic, Works
  <2>2. SerialOK(s, row, static)
    BY Zenon DEF SerialOK
  <2> HIDE DEF s
  <2> QED BY <1>0, <2>1, <2>2, SerialReads
<1>6. ASSUME Suppress(h) PROVE Serial'
  <2> DEFINE s == [proc[h] EXCEPT !.op = "update"]
             x == [proc[h].seen EXCEPT !.avail = proc[h].avail, !.status = proc[h].avail]
  <2>1. Works(h) /\ Become(h, s) /\ static' = x /\ row' = row
    BY <1>6, Busy DEF Suppress
  <2>2. proc[h] \in Requested
    BY <1>0, <1>6 DEF Suppress, Inv, HandOK
  <2>3. x.avail = proc[h].avail /\ s.op = "update" /\ s.avail = proc[h].avail
    BY <2>2 DEF Requested, Rows
  <2>4. lane.serial => Suppressive(proc[h].avail)
    BY Z3T(30), <1>0, <1>6 DEF Suppress, Serial, SerialOK
  <2> HIDE DEF s, x
  <2>5. lane.serial => SerialOK(s, row', static') /\ Closed(row', static')
    BY <2>1, <2>3, <2>4 DEF SerialOK, Closed
  <2> QED BY <1>0, <2>1, <2>5, SerialKeeps
<1>7. ASSUME UpdateStatus(h) PROVE Serial'
  BY Z3T(30), <1>0, <1>7, SerialUpdate
<1>8. ASSUME RecordDeployment(h) PROVE Serial'
  <2>1. Works(h)
    BY <1>8, Busy DEF RecordDeployment
  <2>2. Deployed(row).avail = row.avail
    BY Z3T(30) DEF Deployed, Inv, RowOK, Rows
  <2>3. (Stores(h, Deployed(row)) /\ static' = static) \/ Refused(h)
    BY Z3T(30), <1>8 DEF RecordDeployment
  <2> QED BY Z3T(30), <1>0, <2>1, <2>2, <2>3, SerialStores, SerialRefused
<1>9. ASSUME Fail(h) PROVE Serial'
  BY <1>0, <1>9, SerialRefused DEF Fail, Works
<1> QED BY Z3T(30), <1>1, <1>2, <1>3, <1>4, <1>5, <1>6, <1>7, <1>8, <1>9, <1>0, SerialPromote, SerialMirror DEF Handler

LEMMA SerialPass ==
  ASSUME Inv, Serial, Pass \/ Setback
  PROVE  Serial'
<1>0. Indexer \in Processes /\ lane' = lane
  BY ZenonT(30) DEF Processes, Pass, Setback
<1>1. ASSUME NEW complete, Scan(complete) PROVE Serial'
  <2> DEFINE s == [op |-> "scanned", complete |-> complete, at |-> height,
                   cells |-> IF complete THEN CommitCells ELSE {}]
  <2>1. Works(Indexer) /\ Reads(Indexer, s)
    BY Zenon, <1>1 DEF Scan, Works
  <2>2. SerialOK(s, row, static)
    BY DEF SerialOK
  <2> HIDE DEF s
  <2> QED BY <1>0, <2>1, <2>2, SerialReads
<1>2. ASSUME List PROVE Serial'
  <2> DEFINE i == proc[Indexer]
             s == [op |-> "listed", complete |-> i.complete, at |-> i.at, cells |-> i.cells, seen |-> row]
  <2>1. Works(Indexer) /\ (Reads(Indexer, s) \/ Reads(Indexer, Idle))
    BY <1>2, Busy DEF List
  <2>2. SerialOK(s, row, static)
    BY Zenon DEF SerialOK
  <2> HIDE DEF s
  <2> QED BY Zenon, <1>0, <2>1, <2>2, SerialIdle, SerialReads
<1>3. ASSUME CheckDeployment PROVE Serial'
  <2> DEFINE i == proc[Indexer]
             S == {[op |-> "undeploy"], [op |-> "demote"], Idle, [op |-> "promote", dep |-> latest, at |-> i.at]}
  <2>1. Works(Indexer) /\ Reads(Indexer, Verdict(i))
    BY Z3T(30), <1>3, Busy DEF CheckDeployment
  <2>2. Verdict(i) \in S
    BY DEF Verdict
  <2>3. \A s \in S : SerialOK(s, row, static)
    BY Z3T(30) DEF SerialOK, Idle
  <2> QED BY <1>0, <2>1, <2>2, <2>3, SerialReads
<1>4. ASSUME Reconcile PROVE Serial'
  <2> DEFINE r == Reconciled(row, proc[Indexer].op = "demote")
  <2>1. Works(Indexer) /\ Stores(Indexer, r) /\ static' = static
    BY <1>4, Busy DEF Reconcile
  <2>2. r.avail = row.avail
    BY DEF Reconciled, Inv, RowOK, Rows
  <2> HIDE DEF r
  <2> QED BY <1>0, <2>1, <2>2, SerialStores
<1>5. ASSUME DemoteCommitments PROVE Serial'
  <2> DEFINE s == [op |-> "demote"]
  <2>1. Works(Indexer) /\ Reads(Indexer, s)
    BY <1>5 DEF DemoteCommitments, Works
  <2>2. SerialOK(s, row, static)
    BY DEF SerialOK
  <2> HIDE DEF s
  <2> QED BY <1>0, <2>1, <2>2, SerialReads
<1>6. ASSUME Fail(Indexer) PROVE Serial'
  BY <1>0, <1>6, SerialRefused DEF Fail, Works
<1> QED BY ZenonT(30), <1>0, <1>1, <1>2, <1>3, <1>4, <1>5, <1>6, SerialPromote, SerialMirror DEF Pass, Setback

LEMMA SerialInductive ==
  ASSUME Inv, Serial, [Next]_vars
  PROVE  Serial'
<1>1. CASE (Chain /\ UNCHANGED <<lane, faults>>) \/ UNCHANGED vars
  <2>1. UNCHANGED <<lane, row, static, proc>>
    BY Z3T(30), <1>1 DEF Chain, SpendDeployment, CreateCommitment, SpendCommitment, vars
  <2> QED BY <2>1 DEF Serial
<1> QED BY <1>1, SerialHandler, SerialPass DEF Next

LEMMA SerialInit ==
  ASSUME Init
  PROVE  Serial
<1>1. PICK h \in lane.handlers :
        proc = [p \in Processes |-> IF p = h THEN [op |-> "mirror", out |-> Admitted] ELSE Idle]
  BY DEF Init
<1>2. SerialOK([op |-> "mirror", out |-> Admitted], row, static)
  BY DEF SerialOK, Init
<1>3. \A p \in Processes : SerialOK(proc[p], row, static)
  BY <1>1, <1>2, SerialIdle
<1>4. \A p, q \in Processes : proc[p] # Idle /\ proc[q] # Idle => p = q
  BY <1>1
<1> QED BY Z3T(30), <1>3, <1>4 DEF Serial, Closed, Init

(* While one process works at a time, the mirror of a suppressed release is *)
(* suppressed, whichever step a request fails at.  The invariant adds what  *)
(* the one process at work has already mirrored and still has to store.     *)
THEOREM FailsClosedAlways == Spec => []FailsClosed
<1>1. Init => Serial
  BY SerialInit
<1>2. Inv /\ Serial /\ [Next]_vars => Serial'
  BY SerialInductive
<1>3. Serial => FailsClosed
  BY DEF Serial, Closed, FailsClosed
<1> QED BY <1>1, <1>2, <1>3, Invariant, PTL DEF Spec
=============================================================================
