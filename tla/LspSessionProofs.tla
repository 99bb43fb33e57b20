-------------------------- MODULE LspSessionProofs --------------------------
(***************************************************************************)
(* Safety of LspSession for any number of documents, files, workers and    *)
(* queries, and any bounds.  A task compares its snapshot's epoch with the *)
(* session's before it uses a result; the invariant says what an equal     *)
(* epoch implies, and what two equal observations of the files imply.      *)
(***************************************************************************)
EXTENDS LspSession, TLAPS

Docs == [Uris -> Texts \cup {Absent, Rejected}]
Vers == [Uris -> Versions \cup {Absent}]
Observations == Seq(0..MaxWrites)

PCs == {"idle", "snapshot", "reading", "rereading", "publish", "send", "revisiting", "answered", "cancelled"}
TaskRec ==
    [pc : PCs, uri : Uris \cup {Absent}, epoch : Nat, versions : Vers \cup {Absent},
     documents : Docs \cup {Absent}, latest : Docs \cup {Absent},
     first : Observations, second : Observations, todo : SUBSET Uris]

\* A snapshot of the session: at the same epoch it is the session, and while a
\* document stays open its version tells whether its text is the snapshot's.
Snapshot(s, docs, vers, ep, op) ==
    /\ s.documents \in Docs /\ s.versions \in Vers
    /\ s.epoch <= ep
    /\ s.epoch = ep => s.documents = docs
    /\ \A u \in Uris : op[u] <= s.epoch /\ vers[u] # Absent =>
         /\ s.versions[u] # Absent /\ s.versions[u] <= vers[u]
         /\ s.versions[u] = vers[u] => s.documents[u] = docs[u]

\* A query that looks a second time has taken the buffers anew.
Revisit(s, docs, ep) ==
    /\ s.latest \in Docs
    /\ s.epoch <= ep
    /\ s.epoch = ep => s.latest = docs

\* What was observed of the files: values they have had, not older than the
\* last watch notification of the snapshot's epoch.
Observed(s, ep, dk, notif) ==
    /\ s.pc \in {"snapshot", "reading"} => Len(s.first) <= NFiles /\ s.second = <<>>
    /\ s.pc \in {"rereading", "revisiting", "publish", "send"} =>
         Len(s.first) = NFiles /\ Len(s.second) <= NFiles
    /\ \A i \in Files : i <= Len(s.first) => s.first[i] <= dk[i]
    /\ s.pc \in {"reading", "rereading"} /\ s.epoch = ep =>
         \A i \in Files : i <= Len(s.first) => notif[i] <= s.first[i]
    /\ s.pc = "revisiting" /\ s.epoch = ep =>
         \A i \in Files : i <= Len(s.second) => notif[i] <= s.second[i]

\* Between the two observations there was a moment m at which no file was
\* behind the first or ahead of the second.
Between(s, dk, past) ==
    /\ s.pc = "rereading" =>
         \E m \in past : /\ \A i \in Files : s.first[i] <= m[i] /\ m[i] <= dk[i]
                         /\ \A i \in Files : i <= Len(s.second) => m[i] <= s.second[i]
    /\ s.pc \in {"publish", "send", "revisiting"} => s.first \in past

TaskOK(s, docs, vers, ep, op, dk, past, notif) ==
    /\ s \in TaskRec
    /\ s.pc \in {"reading", "rereading", "publish", "send"} => Snapshot(s, docs, vers, ep, op)
    /\ s.pc = "revisiting" => Revisit(s, docs, ep)
    /\ Observed(s, ep, dk, notif)
    /\ Between(s, dk, past)

SessionOK ==
    /\ text \in [Uris -> Texts \cup {Oversized, Absent}]
    /\ opened \in [Uris -> Nat]
    /\ \A u \in Uris : /\ opened[u] <= epoch
                       /\ versions[u] = Absent <=> documents[u] = Absent
    /\ EditsAreKept

Shown == [version : Versions \cup {Absent}, revision : MaybeRevision]

FilesOK ==
    /\ disk \in pastDisks
    /\ \A f \in Files : notified[f] <= disk[f]
    /\ NoTornWorkspace

\* The publication of the newest epoch: while the document stays open its
\* version tells whether it was computed from the present text.
AnnouncedOK ==
    \A u \in Uris :
        LET p == announced[u].publication IN
        /\ announced[u].epoch <= epoch
        /\ opened[u] <= announced[u].epoch /\ versions[u] # Absent =>
             /\ p.version # Absent /\ p.version <= versions[u]
             /\ p.version = versions[u] /\ documents[u] \in Texts => p.revision.document = documents[u]

Inv ==
    /\ TypeOK
    /\ watchPending \in BOOLEAN /\ (watchPending => epoch < MaxEpoch)
    /\ diagnostics \in [Uris -> MaybeRevision]
    /\ shown \in [Uris -> Shown]
    /\ announced \in [Uris -> [epoch : Nat, publication : Shown]]
    /\ SessionOK /\ FilesOK /\ AnnouncedOK
    /\ task \in [Tasks -> TaskRec]
    /\ \A t \in Tasks : TaskOK(task[t], documents, versions, epoch, opened, disk, pastDisks, notified)

-----------------------------------------------------------------------------
(* Frames: which changes of the session and of the disk leave a task as good *)
(* as it was.                                                                *)

LEMMA IdleRec == Idle \in TaskRec /\ Idle.first = <<>> /\ Idle.second = <<>> /\ Idle.pc = "idle"
  BY DEF Idle, TaskRec, PCs, Observations

LEMMA Constants == MaxVersion \in Nat /\ MaxEpoch \in Nat /\ MaxWrites \in Nat /\ MaxPanics \in Nat /\ NFiles \in Nat
                   /\ Absent \notin Texts /\ Absent \notin Versions /\ Rejected \notin Texts /\ Rejected # Absent
                   /\ Oversized \notin Texts
  BY SessionAssumption

\* The files are numbered up to NFiles.
LEMMA FilesBound == \A f \in Files : f <= NFiles
  BY Constants DEF Files

\* An edit: a new epoch, in which every document is as it was, closed, opened
\* anew or of a higher version.
Edits(docs, vers, ep, op, docs2, vers2, op2) ==
    \A u \in Uris : \/ docs2[u] = docs[u] /\ vers2[u] = vers[u] /\ op2[u] = op[u]
                    \/ op2[u] = ep + 1
                    \/ vers2[u] = Absent
                    \/ vers[u] # Absent /\ vers2[u] > vers[u] /\ op2[u] = op[u]

LEMMA SnapshotEdit ==
    ASSUME NEW s \in TaskRec, NEW docs, NEW vers \in Vers, NEW ep \in Nat, NEW op,
           NEW docs2, NEW vers2 \in Vers, NEW op2 \in [Uris -> Nat],
           Snapshot(s, docs, vers, ep, op), Edits(docs, vers, ep, op, docs2, vers2, op2)
    PROVE  Snapshot(s, docs2, vers2, ep + 1, op2)
<1>1. s.epoch \in Nat /\ s.epoch <= ep
  BY DEF TaskRec, Snapshot
<1>2. ASSUME NEW u \in Uris, op2[u] <= s.epoch, vers2[u] # Absent
      PROVE  /\ s.versions[u] # Absent /\ s.versions[u] <= vers2[u]
             /\ s.versions[u] = vers2[u] => s.documents[u] = docs2[u]
  <2>1. CASE docs2[u] = docs[u] /\ vers2[u] = vers[u] /\ op2[u] = op[u]
    BY <1>2, <2>1 DEF Snapshot
  <2>2. CASE vers[u] # Absent /\ vers2[u] > vers[u] /\ op2[u] = op[u]
    <3>1. s.versions[u] # Absent /\ s.versions[u] <= vers[u]
      BY <1>2, <2>2 DEF Snapshot
    <3>2. s.versions[u] \in Nat /\ vers[u] \in Nat /\ vers2[u] \in Nat
      BY <1>2, <2>2, <3>1, Constants DEF Snapshot, Vers, Versions
    <3> QED BY <2>2, <3>1, <3>2
  <2> QED BY <1>1, <1>2, <2>1, <2>2 DEF Edits
<1> QED BY <1>1, <1>2 DEF Snapshot

LEMMA TaskEdit ==
    ASSUME NEW s, NEW docs, NEW vers \in Vers, NEW ep \in Nat, NEW op, NEW dk, NEW past, NEW notif,
           NEW docs2, NEW vers2 \in Vers, NEW op2 \in [Uris -> Nat], NEW notif2,
           TaskOK(s, docs, vers, ep, op, dk, past, notif), Edits(docs, vers, ep, op, docs2, vers2, op2)
    PROVE  TaskOK(s, docs2, vers2, ep + 1, op2, dk, past, notif2)
<1>0. s \in TaskRec /\ s.epoch \in Nat
  BY DEF TaskOK, TaskRec
<1>1. s.pc \in {"reading", "rereading", "publish", "send"} => Snapshot(s, docs2, vers2, ep + 1, op2)
  BY <1>0, SnapshotEdit DEF TaskOK
<1>2. s.pc = "revisiting" => Revisit(s, docs2, ep + 1)
  BY <1>0 DEF TaskOK, Revisit
<1>3. s.pc \in {"reading", "rereading", "revisiting"} => s.epoch # ep + 1
  BY <1>0 DEF TaskOK, Snapshot, Revisit
<1>4. Observed(s, ep + 1, dk, notif2)
  BY <1>3 DEF TaskOK, Observed
<1> QED BY <1>0, <1>1, <1>2, <1>4 DEF TaskOK

\* A write to the disk: no file goes back.
LEMMA TaskWrite ==
    ASSUME NEW s, NEW docs, NEW vers, NEW ep, NEW op, NEW dk \in Disks, NEW past \in SUBSET Disks, NEW notif,
           NEW dk2 \in Disks, NEW past2,
           TaskOK(s, docs, vers, ep, op, dk, past, notif),
           \A i \in Files : dk[i] <= dk2[i], past \subseteq past2
    PROVE  TaskOK(s, docs, vers, ep, op, dk2, past2, notif)
<1>0. s \in TaskRec
  BY DEF TaskOK
<1>1. \A i \in Files : dk[i] \in Nat /\ dk2[i] \in Nat
  BY Constants DEF Disks
<1>2. \A i \in Files : i <= Len(s.first) => s.first[i] \in Nat
  BY Z3T(30), <1>0, Constants DEF TaskRec, Observations, Files
<1>3. Observed(s, ep, dk2, notif)
  BY <1>1, <1>2 DEF TaskOK, Observed
<1>4. ASSUME s.pc = "rereading"
      PROVE  \E m \in past2 : /\ \A i \in Files : s.first[i] <= m[i] /\ m[i] <= dk2[i]
                              /\ \A i \in Files : i <= Len(s.second) => m[i] <= s.second[i]
  <2>1. PICK m \in past : /\ \A i \in Files : s.first[i] <= m[i] /\ m[i] <= dk[i]
                          /\ \A i \in Files : i <= Len(s.second) => m[i] <= s.second[i]
    BY <1>4 DEF TaskOK, Between
  <2>2. \A i \in Files : m[i] \in Nat
    BY Constants DEF Disks
  <2> QED BY <1>1, <2>1, <2>2
<1>5. Between(s, dk2, past2)
  BY <1>4 DEF TaskOK, Between
<1> QED BY <1>3, <1>5 DEF TaskOK

-----------------------------------------------------------------------------
(* The client's notifications.                                              *)

LEMMA EditKeeps ==
    ASSUME Inv, NewEpoch, epoch < MaxEpoch, watchPending' => epoch' < MaxEpoch,
           documents' \in Docs, versions' \in Vers, opened' \in [Uris -> Nat],
           Edits(documents, versions, epoch, opened, documents', versions', opened'),
           SessionOK', diagnostics' \in [Uris -> MaybeRevision], NoTornWorkspace',
           scheduling' \in Nat, closing' \subseteq Uris, watchPending' \in BOOLEAN,
           notified' \in {notified, disk},
           UNCHANGED <<workerRunning, task, disk, shown, panics, announced, pastDisks>>
    PROVE  Inv'
<1>1. documents \in Docs /\ versions \in Vers /\ epoch \in Nat /\ epoch' = epoch + 1
  BY Z3T(30), Constants DEF Inv, TypeOK, Docs, Vers, NewEpoch
<1>2. \A x \in Tasks : TaskOK(task'[x], documents', versions', epoch', opened', disk', pastDisks', notified')
  BY <1>1, TaskEdit DEF Inv
<1>3. FilesOK'
  <2>1. \A f \in Files : notified'[f] <= disk[f]
    BY Z3T(30), Constants DEF Inv, FilesOK, TypeOK, Disks
  <2> QED BY Z3T(30), <2>1 DEF Inv, FilesOK
<1>4. TypeOK'
  <2>1. epoch' \in 0..MaxEpoch
    BY <1>1, Constants
  <2>2. notified' \in Disks
    BY DEF Inv, TypeOK
  <2> QED BY <2>1, <2>2 DEF Inv, TypeOK, Docs, Vers
<1>5. AnnouncedOK'
  <2> SUFFICES ASSUME NEW u \in Uris
               PROVE  LET p == announced[u].publication IN
                      /\ announced[u].epoch <= epoch'
                      /\ opened'[u] <= announced[u].epoch /\ versions'[u] # Absent =>
                           /\ p.version # Absent /\ p.version <= versions'[u]
                           /\ p.version = versions'[u] /\ documents'[u] \in Texts
                              => p.revision.document = documents'[u]
    BY Z3T(30) DEF AnnouncedOK
  <2>1. /\ announced[u].epoch \in Nat /\ announced[u].epoch <= epoch
        /\ announced[u].publication.version \in Versions \cup {Absent}
    BY Z3T(30) DEF Inv, AnnouncedOK, Shown
  <2>2. CASE documents'[u] = documents[u] /\ versions'[u] = versions[u] /\ opened'[u] = opened[u]
    BY Z3T(30), <1>1, <2>1, <2>2 DEF Inv, AnnouncedOK
  <2>3. CASE opened'[u] = epoch + 1
    BY Z3T(30), <1>1, <2>1, <2>3
  <2>4. CASE versions'[u] = Absent
    BY Z3T(30), <1>1, <2>1, <2>4
  <2>5. CASE versions[u] # Absent /\ versions'[u] > versions[u] /\ opened'[u] = opened[u]
    BY Z3T(30), <1>1, <2>1, <2>5, Constants DEF Inv, AnnouncedOK, Vers, Versions
  <2> QED BY Zenon, <2>2, <2>3, <2>4, <2>5 DEF Edits
<1> QED BY <1>2, <1>3, <1>4, <1>5 DEF Inv

LEMMA NoRevision == Absent \in MaybeRevision /\ Rejected \in MaybeRevision
  BY DEF MaybeRevision

\* An event that starts a new epoch leaves room for the watcher's.
LEMMA BudgetLeft ==
    ASSUME Inv, Budget, NewEpoch, watchPending' = watchPending
    PROVE  epoch < MaxEpoch /\ (watchPending' => epoch' < MaxEpoch)
  BY Constants DEF Inv, TypeOK, Budget, NewEpoch

LEMMA Replaced ==
    ASSUME Inv, NEW u \in Uris, NEW x \in Texts \cup {Oversized}, ReplaceBuffer(u, x)
    PROVE  /\ documents' \in Docs
           /\ \A f \in Uris : f # u => documents'[f] = documents[f]
           /\ documents'[u] # Absent
           /\ documents'[u] \in Texts \cup {Absent} => documents'[u] = x
           /\ diagnostics' \in [Uris -> MaybeRevision]
           /\ \A f \in Uris : diagnostics'[f] \in {diagnostics[f], Absent, Rejected}
  BY Constants, NoRevision DEF Inv, TypeOK, Docs, ReplaceBuffer

LEMMA NoTornKept ==
    ASSUME Inv, \A f \in Uris : diagnostics'[f] \in {diagnostics[f], Absent, Rejected}, pastDisks' = pastDisks
    PROVE  NoTornWorkspace'
  BY ZenonT(30) DEF Inv, FilesOK, NoTornWorkspace

LEMMA StepDidOpen ==
    ASSUME Inv, NEW u \in Uris, NEW v \in OpenVersions, NEW x \in Texts \cup {Oversized}, DidOpen(u, v, x)
    PROVE  Inv'
<1>1. /\ versions' = [versions EXCEPT ![u] = v] /\ text' = [text EXCEPT ![u] = x]
      /\ opened' = [opened EXCEPT ![u] = epoch'] /\ epoch' = epoch + 1
      /\ scheduling' = scheduling + 1 /\ ReplaceBuffer(u, x)
      /\ UNCHANGED <<workerRunning, closing, task, disk, watchPending, shown, panics, announced, notified, pastDisks>>
  BY Z3T(30) DEF DidOpen, NewEpoch
<1>2. v \in Versions /\ v # Absent /\ epoch \in Nat
  BY Z3T(30), SessionAssumption, Constants DEF Inv, TypeOK
<1>3. versions' \in Vers /\ opened' \in [Uris -> Nat] /\ text' \in [Uris -> Texts \cup {Oversized, Absent}]
  BY Z3T(30), <1>1, <1>2 DEF Inv, TypeOK, SessionOK, Vers
<1>4. Edits(documents, versions, epoch, opened, documents', versions', opened')
  BY Z3T(30), <1>1, Replaced DEF Edits, Inv, TypeOK, SessionOK
<1>5. SessionOK'
  <2>1. \A f \in Uris : opened'[f] <= epoch'
    BY Z3T(30), <1>1, <1>2 DEF Inv, SessionOK
  <2>2. \A f \in Uris : versions'[f] = Absent <=> documents'[f] = Absent
    BY Z3T(30), <1>1, <1>2, Replaced DEF Inv, TypeOK, SessionOK
  <2>3. EditsAreKept'
    BY ZenonT(30), <1>1, Replaced DEF Inv, SessionOK, EditsAreKept
  <2> QED BY <1>3, <2>1, <2>2, <2>3 DEF SessionOK
<1>6. NoTornWorkspace'
  BY ZenonT(30), <1>1, Replaced, NoTornKept
<1>7. scheduling' \in Nat /\ closing' \subseteq Uris /\ watchPending' \in BOOLEAN
  BY <1>1 DEF Inv, TypeOK
<1>8. Budget /\ NewEpoch
  BY Zenon DEF DidOpen
<1> QED BY Z3T(30), <1>1, <1>3, <1>4, <1>5, <1>6, <1>7, <1>8, Replaced, BudgetLeft, EditKeeps

LEMMA StepDidChange ==
    ASSUME Inv, NEW u \in Uris, NEW v \in Versions, NEW x \in Texts \cup {Oversized}, DidChange(u, v, x)
    PROVE  Inv'
<1>1. /\ versions[u] # Absent /\ v > versions[u]
      /\ versions' = [versions EXCEPT ![u] = v] /\ text' = [text EXCEPT ![u] = x]
      /\ epoch' = epoch + 1 /\ scheduling' = scheduling + 1
      /\ UNCHANGED <<workerRunning, closing, task, disk, watchPending, shown, panics, opened, announced, notified, pastDisks>>
  BY Z3T(30) DEF DidChange, NewEpoch
<1>2. /\ documents' \in Docs
      /\ \A f \in Uris : f # u => documents'[f] = documents[f]
      /\ documents'[u] # Absent
      /\ documents'[u] \in Texts \cup {Absent} => documents'[u] = x
      /\ diagnostics' \in [Uris -> MaybeRevision]
      /\ \A f \in Uris : diagnostics'[f] \in {diagnostics[f], Absent, Rejected}
  <2>1. CASE ReplaceBuffer(u, x)
    BY Z3T(30), <2>1, Replaced
  <2>2. CASE documents[u] \notin Texts /\ UNCHANGED <<documents, diagnostics>>
    BY <1>1, <2>2 DEF Inv, TypeOK, SessionOK, Docs
  <2> QED BY <2>1, <2>2 DEF DidChange
<1>3. v # Absent /\ epoch \in Nat
  BY Constants DEF Inv, TypeOK
<1>4. versions' \in Vers /\ opened' \in [Uris -> Nat] /\ text' \in [Uris -> Texts \cup {Oversized, Absent}]
  BY ZenonT(30), <1>1 DEF Inv, TypeOK, SessionOK, Vers
<1>5. Edits(documents, versions, epoch, opened, documents', versions', opened')
  BY <1>1, <1>2 DEF Edits, Inv, TypeOK
<1>6. SessionOK'
  <2>1. \A f \in Uris : opened'[f] <= epoch'
    BY Z3T(30), <1>1, <1>3 DEF Inv, SessionOK
  <2>2. \A f \in Uris : versions'[f] = Absent <=> documents'[f] = Absent
    BY Z3T(30), <1>1, <1>2, <1>3 DEF Inv, TypeOK, SessionOK
  <2>3. EditsAreKept'
    BY Z3T(30), <1>1, <1>2 DEF Inv, SessionOK, EditsAreKept
  <2> QED BY Z3T(30), <1>4, <2>1, <2>2, <2>3 DEF SessionOK
<1>7. NoTornWorkspace'
  BY Z3T(30), <1>1, <1>2, NoTornKept
<1>8. scheduling' \in Nat /\ closing' \subseteq Uris /\ watchPending' \in BOOLEAN
  BY <1>1 DEF Inv, TypeOK
<1>9. Budget /\ NewEpoch
  BY Z3T(30) DEF DidChange
<1> QED BY Z3T(30), <1>1, <1>2, <1>4, <1>5, <1>6, <1>7, <1>8, <1>9, BudgetLeft, EditKeeps

LEMMA StepDidClose ==
    ASSUME Inv, NEW u \in Uris, DidClose(u)
    PROVE  Inv'
<1>1. /\ versions' = [versions EXCEPT ![u] = Absent] /\ text' = [text EXCEPT ![u] = Absent]
      /\ documents' = [documents EXCEPT ![u] = Absent] /\ diagnostics' = [diagnostics EXCEPT ![u] = Absent]
      /\ epoch' = epoch + 1 /\ closing' = closing \cup {u}
      /\ UNCHANGED <<workerRunning, scheduling, task, disk, watchPending, shown, panics, opened, announced, notified, pastDisks>>
  BY DEF DidClose, NewEpoch
<1>2. epoch \in Nat
  BY Z3T(30), Constants DEF Inv, TypeOK
<1>3. /\ versions' \in Vers /\ documents' \in Docs /\ opened' \in [Uris -> Nat]
      /\ text' \in [Uris -> Texts \cup {Oversized, Absent}]
      /\ diagnostics' \in [Uris -> MaybeRevision]
      /\ \A f \in Uris : diagnostics'[f] \in {diagnostics[f], Absent, Rejected}
  BY Z3T(30), <1>1, NoRevision DEF Inv, TypeOK, SessionOK, Vers, Docs
<1>4. Edits(documents, versions, epoch, opened, documents', versions', opened')
  BY <1>1 DEF Edits, Inv, TypeOK
<1>5. SessionOK'
  <2>1. \A f \in Uris : opened'[f] <= epoch'
    BY Z3T(30), <1>1, <1>2 DEF Inv, SessionOK
  <2>2. \A f \in Uris : versions'[f] = Absent <=> documents'[f] = Absent
    BY Z3T(30), <1>1 DEF Inv, TypeOK, SessionOK
  <2>3. EditsAreKept'
    BY <1>1 DEF Inv, TypeOK, SessionOK, EditsAreKept
  <2> QED BY Z3T(30), <1>3, <2>1, <2>2, <2>3 DEF SessionOK
<1>6. NoTornWorkspace'
  BY Z3T(30), <1>1, <1>3, NoTornKept
<1>7. scheduling' \in Nat /\ closing' \subseteq Uris /\ watchPending' \in BOOLEAN
  BY <1>1 DEF Inv, TypeOK
<1>8. Budget /\ NewEpoch
  BY Z3T(30) DEF DidClose
<1> QED BY Z3T(30), <1>1, <1>3, <1>4, <1>5, <1>6, <1>7, <1>8, BudgetLeft, EditKeeps

LEMMA StepDidChangeWatchedFiles ==
    ASSUME Inv, DidChangeWatchedFiles
    PROVE  Inv'
<1>1. /\ watchPending /\ watchPending' = FALSE /\ notified' = disk
      /\ epoch' = epoch + 1 /\ scheduling' = scheduling + 1
      /\ UNCHANGED <<documents, diagnostics, versions, workerRunning, closing, task, disk, shown, panics, text, opened,
                     announced, pastDisks>>
  BY Z3T(30) DEF DidChangeWatchedFiles, NewEpoch
<1>2. epoch \in Nat /\ epoch < MaxEpoch
  BY <1>1, Constants DEF Inv, TypeOK
<1>3. Edits(documents, versions, epoch, opened, documents', versions', opened')
  BY ZenonT(30), <1>1 DEF Edits
<1>4. SessionOK'
  BY <1>1, <1>2 DEF Inv, SessionOK, EditsAreKept
<1>5. NoTornWorkspace'
  BY Zenon, <1>1 DEF Inv, FilesOK, NoTornWorkspace
<1>6. scheduling' \in Nat /\ closing' \subseteq Uris
  <2>1. scheduling' = scheduling + 1 /\ closing' = closing
    BY <1>1
  <2> QED BY <2>1 DEF Inv, TypeOK
<1>9. watchPending' \in BOOLEAN /\ ~watchPending'
  BY Zenon, <1>1
<1>7. documents' \in Docs /\ versions' \in Vers /\ opened' \in [Uris -> Nat]
      /\ diagnostics' \in [Uris -> MaybeRevision]
  BY <1>1 DEF Inv, TypeOK, SessionOK, Docs, Vers
<1>8. NewEpoch
  BY Z3T(30) DEF DidChangeWatchedFiles
<1> QED BY Z3T(30), <1>1, <1>2, <1>3, <1>4, <1>5, <1>6, <1>7, <1>8, <1>9, EditKeeps

LEMMA StepCloseNotify ==
    ASSUME Inv, NEW u \in Uris, CloseNotify(u)
    PROVE  Inv'
<1>1. /\ closing' = closing \ {u} /\ shown' = [shown EXCEPT ![u] = Empty] /\ scheduling' = scheduling + 1
      /\ UNCHANGED <<documents, diagnostics, versions, epoch, workerRunning, task, disk, watchPending, panics,
                     text, opened, notified, announced, pastDisks>>
  BY DEF CloseNotify, session, history
<1>2. shown' \in [Uris -> Shown]
  BY Zenon, <1>1, NoRevision DEF Inv, Shown, Empty
<1>3. TypeOK'
  <2>1. TypeOK
    BY Zenon DEF Inv
  <2> QED BY <1>1, <1>2, <2>1 DEF TypeOK, Shown
<1>4. SessionOK' /\ FilesOK' /\ AnnouncedOK'
  BY Zenon, <1>1 DEF Inv, SessionOK, FilesOK, EditsAreKept, NoTornWorkspace, AnnouncedOK
<1> QED BY <1>1, <1>2, <1>3, <1>4 DEF Inv

-----------------------------------------------------------------------------
(* The disk changes.                                                        *)

LEMMA StepWriteFile ==
    ASSUME Inv, NEW f \in Files, WriteFile(f)
    PROVE  Inv'
<1>1. /\ disk[f] < MaxWrites /\ epoch < MaxEpoch
      /\ disk' = [disk EXCEPT ![f] = disk[f] + 1] /\ pastDisks' = pastDisks \cup {disk'} /\ watchPending' = TRUE
      /\ UNCHANGED <<documents, diagnostics, versions, epoch, workerRunning, scheduling, closing, task, shown, panics,
                     text, opened, notified, announced>>
  BY DEF WriteFile, session, history
<1>2. disk \in Disks /\ notified \in Disks /\ pastDisks \subseteq Disks /\ MaxWrites \in Nat
  BY Constants DEF Inv, TypeOK
<1>3. disk' \in Disks /\ \A i \in Files : disk[i] <= disk'[i]
  BY Z3T(30), <1>1, <1>2 DEF Disks
<1>4. \A x \in Tasks : TaskOK(task'[x], documents', versions', epoch', opened', disk', pastDisks', notified')
  <2> SUFFICES ASSUME NEW x \in Tasks
               PROVE  TaskOK(task[x], documents, versions, epoch, opened, disk', pastDisks', notified)
    BY Zenon, <1>1
  <2>1. TaskOK(task[x], documents, versions, epoch, opened, disk, pastDisks, notified)
    BY DEF Inv
  <2>2. pastDisks \subseteq pastDisks'
    BY ZenonT(30), <1>1
  <2> QED BY <1>2, <1>3, <2>1, <2>2, TaskWrite
<1>5. FilesOK'
  <2>1. \A i \in Files : notified'[i] <= disk'[i]
    BY <1>1, <1>2, <1>3 DEF Inv, FilesOK, Disks
  <2> QED BY Z3T(30), <1>1, <2>1 DEF Inv, FilesOK, NoTornWorkspace
<1>6. TypeOK'
  BY Zenon, <1>1, <1>2, <1>3 DEF Inv, TypeOK
<1>7. SessionOK' /\ AnnouncedOK'
  BY Zenon, <1>1 DEF Inv, SessionOK, EditsAreKept, AnnouncedOK
<1> QED BY Zenon, <1>1, <1>4, <1>5, <1>6, <1>7 DEF Inv

-----------------------------------------------------------------------------
(* Steps of a worker or a query change one task.                            *)

LEMMA TaskKeeps ==
    ASSUME Inv, NEW t \in Tasks, NEW s, task' = [task EXCEPT ![t] = s],
           TaskOK(s, documents, versions, epoch, opened, disk, pastDisks, notified),
           UNCHANGED <<documents, versions, epoch, closing, disk, watchPending, text, opened, notified, pastDisks>>,
           diagnostics' \in [Uris -> MaybeRevision], NoTornWorkspace', AnnouncedOK',
           shown' \in [Uris -> Shown], announced' \in [Uris -> [epoch : Nat, publication : Shown]],
           workerRunning' \in BOOLEAN, scheduling' \in Nat, panics' \in 0..MaxPanics
    PROVE  Inv'
<1>1. s \in TaskRec /\ task' \in [Tasks -> TaskRec]
  BY DEF Inv, TaskOK
<1>2. \A x \in Tasks : TaskOK(task'[x], documents', versions', epoch', opened', disk', pastDisks', notified')
  BY Zenon DEF Inv
<1>3. TypeOK'
  BY <1>1 DEF Inv, TypeOK, Shown, TaskRec, PCs
<1>4. SessionOK' /\ FilesOK'
  BY Zenon DEF Inv, SessionOK, FilesOK, EditsAreKept
<1> QED BY Z3T(30), <1>1, <1>2, <1>3, <1>4 DEF Inv

\* The same when nothing but the task, the worker's flag and counters change.
LEMMA TaskOnly ==
    ASSUME Inv, NEW t \in Tasks, NEW s, task' = [task EXCEPT ![t] = s],
           TaskOK(s, documents, versions, epoch, opened, disk, pastDisks, notified),
           UNCHANGED <<documents, diagnostics, versions, epoch, closing, disk, watchPending, shown, text, opened,
                       notified, announced, pastDisks>>,
           workerRunning' \in BOOLEAN, scheduling' \in Nat, panics' \in 0..MaxPanics
    PROVE  Inv'
<1>1. NoTornWorkspace' /\ AnnouncedOK'
  BY ZenonT(30) DEF Inv, FilesOK, NoTornWorkspace, AnnouncedOK
<1>2. /\ diagnostics' \in [Uris -> MaybeRevision] /\ shown' \in [Uris -> Shown]
      /\ announced' \in [Uris -> [epoch : Nat, publication : Shown]]
  BY Zenon DEF Inv
<1> QED BY Zenon, <1>1, <1>2, TaskKeeps

\* A task between jobs holds nothing that could be out of date.
LEMMA Fresh ==
    ASSUME Inv, NEW s \in TaskRec, s.pc \in {"idle", "snapshot", "answered", "cancelled"},
           s.first = <<>>, s.second = <<>>
    PROVE  TaskOK(s, documents, versions, epoch, opened, disk, pastDisks, notified)
<1>1. Observed(s, epoch, disk, notified)
  BY Z3T(30), Constants DEF Observed, Files
<1> QED BY ZenonT(30), <1>1 DEF TaskOK, Between

\* A job that starts has the session's present state.
LEMMA Started ==
    ASSUME Inv, NEW s \in TaskRec, s.pc = "reading", s.epoch = epoch, s.versions = versions,
           s.documents = documents, s.first = <<>>, s.second = <<>>
    PROVE  TaskOK(s, documents, versions, epoch, opened, disk, pastDisks, notified)
<1>1. documents \in Docs /\ versions \in Vers /\ epoch \in Nat
  BY Z3T(30), Constants DEF Inv, TypeOK, Docs, Vers
<1>2. Snapshot(s, documents, versions, epoch, opened)
  <2>1. \A f \in Uris : versions[f] # Absent => versions[f] <= versions[f]
    BY Z3T(30), <1>1, Constants DEF Vers, Versions
  <2> QED BY Z3T(30), <1>1, <2>1 DEF Snapshot
<1>3. Observed(s, epoch, disk, notified)
  BY Constants DEF Observed, Files
<1> QED BY ZenonT(30), <1>2, <1>3 DEF TaskOK, Between

\* The records the actions put into a task that starts or ends a job.
LEMMA IdleRecords ==
    ASSUME NEW c \in PCs
    PROVE  LET s == [Idle EXCEPT !.pc = c]
           IN  s \in TaskRec /\ s.pc = c /\ s.first = <<>> /\ s.second = <<>>
  BY IdleRec DEF TaskRec

LEMMA SnapshotRecord ==
    ASSUME Inv
    PROVE  TaskOK([Idle EXCEPT !.pc = "reading", !.epoch = epoch, !.versions = versions, !.documents = documents],
                  documents, versions, epoch, opened, disk, pastDisks, notified)
<1>1. documents \in Docs /\ versions \in Vers /\ epoch \in Nat /\ "reading" \in PCs
  BY Constants DEF Inv, TypeOK, Docs, Vers, PCs
<1> DEFINE s == [Idle EXCEPT !.pc = "reading", !.epoch = epoch, !.versions = versions, !.documents = documents]
<1>2. /\ s \in TaskRec /\ s.pc = "reading" /\ s.epoch = epoch /\ s.versions = versions
      /\ s.documents = documents /\ s.first = <<>> /\ s.second = <<>>
  BY Zenon, <1>1, IdleRec DEF TaskRec
<1> HIDE DEF s
<1>3. TaskOK(s, documents, versions, epoch, opened, disk, pastDisks, notified)
  BY <1>2, Started
<1> QED BY Z3T(30), <1>3 DEF s

LEMMA JobRecords ==
    ASSUME Inv, NEW u \in Uris
    PROVE  TaskOK([Idle EXCEPT !.pc = "reading", !.uri = u, !.epoch = epoch, !.versions = versions,
                               !.documents = documents],
                  documents, versions, epoch, opened, disk, pastDisks, notified)
<1>1. documents \in Docs /\ versions \in Vers /\ epoch \in Nat /\ "reading" \in PCs
  BY Constants DEF Inv, TypeOK, Docs, Vers, PCs
<1> DEFINE s == [Idle EXCEPT !.pc = "reading", !.uri = u, !.epoch = epoch, !.versions = versions,
                             !.documents = documents]
<1>2. /\ s \in TaskRec /\ s.pc = "reading" /\ s.epoch = epoch /\ s.versions = versions
      /\ s.documents = documents /\ s.first = <<>> /\ s.second = <<>>
  BY Zenon, <1>1, IdleRec DEF TaskRec
<1> HIDE DEF s
<1>3. TaskOK(s, documents, versions, epoch, opened, disk, pastDisks, notified)
  BY <1>2, Started
<1> QED BY Z3T(30), <1>3 DEF s

LEMMA EndRecords ==
    ASSUME Inv
    PROVE  /\ TaskOK(Idle, documents, versions, epoch, opened, disk, pastDisks, notified)
           /\ \A c \in {"idle", "snapshot", "answered", "cancelled"} :
                 TaskOK([Idle EXCEPT !.pc = c], documents, versions, epoch, opened, disk, pastDisks, notified)
<1>1. TaskOK(Idle, documents, versions, epoch, opened, disk, pastDisks, notified)
  BY IdleRec, Fresh
<1>2. ASSUME NEW c \in {"idle", "snapshot", "answered", "cancelled"}
      PROVE  TaskOK([Idle EXCEPT !.pc = c], documents, versions, epoch, opened, disk, pastDisks, notified)
  <2>1. c \in PCs
    BY DEF PCs
  <2> DEFINE s == [Idle EXCEPT !.pc = c]
  <2>2. s \in TaskRec /\ s.pc = c /\ s.first = <<>> /\ s.second = <<>>
    BY Zenon, <2>1, IdleRecords
  <2> HIDE DEF s
  <2>3. TaskOK(s, documents, versions, epoch, opened, disk, pastDisks, notified)
    BY <2>2, Fresh
  <2> QED BY <2>3 DEF s
<1> QED BY Z3T(30), <1>1, <1>2

LEMMA StepSchedule ==
    ASSUME Inv, Schedule
    PROVE  Inv'
<1>1. /\ scheduling > 0 /\ scheduling' = scheduling - 1
      /\ UNCHANGED <<documents, diagnostics, versions, epoch, closing, disk, watchPending, shown, panics, text, opened,
                     notified, announced, pastDisks>>
  BY Z3T(30) DEF Schedule, session, history
<1>2. scheduling' \in Nat /\ panics' \in 0..MaxPanics
  BY <1>1 DEF Inv, TypeOK
<1>3. CASE UNCHANGED <<workerRunning, task>>
  <2>1. TypeOK'
    BY <1>1, <1>2, <1>3 DEF Inv, TypeOK
  <2>2. SessionOK' /\ FilesOK' /\ AnnouncedOK'
    BY Zenon, <1>1 DEF Inv, SessionOK, FilesOK, EditsAreKept, NoTornWorkspace, AnnouncedOK
  <2> QED BY Zenon, <1>1, <1>3, <2>1, <2>2 DEF Inv
<1>4. ASSUME NEW w \in Workers, workerRunning' = TRUE, task' = [task EXCEPT ![w] = [Idle EXCEPT !.pc = "snapshot"]]
      PROVE  Inv'
  BY Zenon, <1>1, <1>2, <1>4, EndRecords, TaskOnly DEF Tasks
<1> QED BY Zenon, <1>3, <1>4 DEF Schedule

LEMMA StepWorkerSnapshot ==
    ASSUME Inv, NEW w \in Workers, WorkerSnapshot(w)
    PROVE  Inv'
<1>1. /\ task' = [task EXCEPT ![w] = [Idle EXCEPT !.pc = "reading", !.epoch = epoch, !.versions = versions,
                                                  !.documents = documents]]
      /\ UNCHANGED <<documents, diagnostics, versions, epoch, workerRunning, scheduling, closing, disk, watchPending,
                     shown, panics, text, opened, notified, announced, pastDisks>>
  BY DEF WorkerSnapshot, session, history
<1>2. workerRunning' \in BOOLEAN
  BY <1>1 DEF Inv, TypeOK
<1>3. scheduling' \in Nat /\ panics' \in 0..MaxPanics
  BY <1>1 DEF Inv, TypeOK
<1>4. TaskOK([Idle EXCEPT !.pc = "reading", !.epoch = epoch, !.versions = versions, !.documents = documents],
             documents, versions, epoch, opened, disk, pastDisks, notified)
  BY SnapshotRecord
<1> QED BY Zenon, <1>1, <1>2, <1>3, <1>4, TaskOnly DEF Tasks

LEMMA StepQueryStart ==
    ASSUME Inv, NEW q \in Queries, NEW u \in Uris, QueryStart(q, u)
    PROVE  Inv'
<1>1. /\ task' = [task EXCEPT ![q] = [Idle EXCEPT !.pc = "reading", !.uri = u, !.epoch = epoch, !.versions = versions,
                                                  !.documents = documents]]
      /\ UNCHANGED <<documents, diagnostics, versions, epoch, workerRunning, scheduling, closing, disk, watchPending,
                     shown, panics, text, opened, notified, announced, pastDisks>>
  BY DEF QueryStart, session, history
<1>2. workerRunning' \in BOOLEAN
  BY <1>1 DEF Inv, TypeOK
<1>3. scheduling' \in Nat /\ panics' \in 0..MaxPanics
  BY Zenon, <1>1 DEF Inv, TypeOK
<1> QED BY Zenon, <1>1, <1>2, <1>3, JobRecords, TaskOnly DEF Tasks

\* What a task has read of the files is a sequence of write counts.
LEMMA Reads ==
    ASSUME Inv, NEW t \in Tasks
    PROVE  /\ task[t] \in TaskRec
           /\ task[t].first \in Seq(0..MaxWrites) /\ task[t].second \in Seq(0..MaxWrites)
           /\ Len(task[t].first) \in Nat /\ Len(task[t].second) \in Nat
           /\ task[t].epoch \in Nat
<1>1. task[t] \in TaskRec
  BY Zenon DEF Inv
<1> QED BY <1>1 DEF TaskRec, Observations

LEMMA AppendRead ==
    ASSUME NEW x \in Seq(0..MaxWrites), NEW d \in 0..MaxWrites
    PROVE  /\ Append(x, d) \in Seq(0..MaxWrites) /\ Len(Append(x, d)) = Len(x) + 1
           /\ \A i \in 1..(Len(x) + 1) : Append(x, d)[i] = IF i = Len(x) + 1 THEN d ELSE x[i]
  OBVIOUS

\* b is a, which is n files long, and the next file of d.
OneMore(a, b, n, d) ==
    Len(b) = n + 1 /\ \A i \in 1..(n + 1) : b[i] = IF i = n + 1 THEN d[n + 1] ELSE a[i]

\* The first n files of x are no newer than in d, and no older than in d.
NoNewer(x, n, d) == \A i \in Files : i <= n => x[i] <= d[i]
NoOlder(x, n, d) == \A i \in Files : i <= n => d[i] <= x[i]

\* One more file is read: the bounds of what was read before carry over.
LEMMA ReadOneMore ==
    ASSUME NEW a, NEW b, NEW n \in Nat, NEW d \in Disks, OneMore(a, b, n, d)
    PROVE  /\ NoNewer(a, n, d) => NoNewer(b, Len(b), d)
           /\ \A m \in Disks : NoOlder(d, NFiles, m) /\ NoOlder(a, n, m) => NoOlder(b, Len(b), m)
<1>1. ASSUME NEW i \in Files, i <= Len(b)
      PROVE  (i = n + 1 /\ b[i] = d[i]) \/ (i <= n /\ b[i] = a[i])
  BY <1>1, Constants DEF Files, OneMore
<1>2. \A i \in Files : d[i] <= d[i] /\ i <= NFiles
  BY Z3T(30), Constants DEF Disks, Files
<1> QED BY Zenon, <1>1, <1>2 DEF NoNewer, NoOlder

LEMMA ReadFirst ==
    ASSUME Inv, NEW t \in Tasks, task[t].pc = "reading", Len(task[t].first) < NFiles,
           NEW c, c = (IF Len(task[t].first) + 1 = NFiles THEN "rereading" ELSE "reading"),
           NEW s, s = [task[t] EXCEPT !.first = Append(task[t].first, disk[Len(task[t].first) + 1]), !.pc = c]
    PROVE  TaskOK(s, documents, versions, epoch, opened, disk, pastDisks, notified)
<1> DEFINE o == task[t]
           n == Len(o.first)
<1>1. /\ o \in TaskRec /\ o.first \in Seq(0..MaxWrites) /\ n \in Nat /\ n + 1 \in Files
      /\ disk \in Disks /\ notified \in Disks /\ NFiles \in Nat /\ MaxWrites \in Nat
  <2>1. disk \in Disks /\ notified \in Disks
    BY Zenon DEF Inv, TypeOK
  <2> QED BY Z3T(30), <2>1, Reads, Constants DEF Files
<1>2. /\ Append(o.first, disk[n + 1]) \in Seq(0..MaxWrites) /\ Len(Append(o.first, disk[n + 1])) = n + 1
      /\ \A i \in 1..(n + 1) : Append(o.first, disk[n + 1])[i] = IF i = n + 1 THEN disk[n + 1] ELSE o.first[i]
  <2>1. disk[n + 1] \in 0..MaxWrites
    BY <1>1 DEF Disks
  <2> QED BY Zenon, <1>1, <2>1, AppendRead
<1>3. c \in PCs
  BY DEF PCs
<1>4. /\ s \in TaskRec /\ s.pc = c /\ s.first = Append(o.first, disk[n + 1]) /\ s.second = o.second
      /\ s.epoch = o.epoch /\ s.versions = o.versions /\ s.documents = o.documents
  BY ZenonT(30), <1>1, <1>2, <1>3 DEF TaskRec, Observations
<1>5. /\ Snapshot(o, documents, versions, epoch, opened) /\ o.second = <<>> /\ n <= NFiles
      /\ \A i \in Files : i <= n => o.first[i] <= disk[i]
      /\ o.epoch = epoch => \A i \in Files : i <= n => notified[i] <= o.first[i]
  BY DEF Inv, TaskOK, Observed
<1>6. Snapshot(s, documents, versions, epoch, opened)
  BY <1>4, <1>5 DEF Snapshot
<1> HIDE DEF o, n
<1>7. \A i \in Files : disk[i] \in Nat /\ notified[i] \in Nat /\ notified[i] <= disk[i]
  BY <1>1 DEF Inv, FilesOK, Disks
<1>15. OneMore(o.first, s.first, n, disk)
  BY Zenon, <1>2, <1>4 DEF OneMore
<1>8. \A i \in Files : i <= Len(s.first) => s.first[i] <= disk[i]
  <2>1. NoNewer(o.first, n, disk)
    BY Zenon, <1>5 DEF NoNewer
  <2> QED BY Zenon, <1>1, <1>15, <2>1, ReadOneMore DEF NoNewer
<1>9. s.epoch = epoch => \A i \in Files : i <= Len(s.first) => notified[i] <= s.first[i]
  <2>1. NoOlder(disk, NFiles, notified) /\ (o.epoch = epoch => NoOlder(o.first, n, notified))
    BY Zenon, <1>5, <1>7 DEF NoOlder
  <2>2. o.epoch = epoch => NoOlder(s.first, Len(s.first), notified)
    BY Zenon, <1>1, <1>15, <2>1, ReadOneMore
  <2>3. s.epoch = o.epoch
    BY Zenon, <1>4
  <2> QED BY Zenon, <2>2, <2>3 DEF NoOlder
<1>10. c = "rereading" => Len(s.first) = NFiles
  BY Z3T(30), <1>2, <1>4 DEF n, o
<1>11. Len(s.first) <= NFiles /\ Len(s.second) = 0
  BY <1>1, <1>2, <1>4, <1>5 DEF n, o, Files
<1>12. c \in {"reading", "rereading"}
  OBVIOUS
<1>13. Observed(s, epoch, disk, notified)
  <2>1. s.second = <<>> /\ s.pc = c
    BY <1>4, <1>5
  <2>2. Len(s.second) <= NFiles
    BY <1>1, <1>11
  <2> QED BY Zenon, <1>8, <1>9, <1>10, <1>11, <1>12, <2>1, <2>2 DEF Observed
<1>14. Between(s, disk, pastDisks)
  <2>1. c = "rereading" => \A i \in Files : s.first[i] <= disk[i] /\ disk[i] <= disk[i]
    BY <1>7, <1>8, <1>10 DEF Files
  <2>2. \A i \in Files : ~(i <= Len(s.second))
    BY <1>11 DEF Files
  <2>3. disk \in pastDisks
    BY Z3T(30) DEF Inv, FilesOK
  <2> QED BY Zenon, <1>4, <1>12, <2>1, <2>2, <2>3 DEF Between
<1> QED BY Z3T(30), <1>4, <1>6, <1>12, <1>13, <1>14 DEF TaskOK

LEMMA ReadSecond ==
    ASSUME Inv, NEW t \in Tasks, task[t].pc \in {"rereading", "revisiting"}, Len(task[t].second) < NFiles,
           NEW s, s = [task[t] EXCEPT !.second = Append(task[t].second, disk[Len(task[t].second) + 1])]
    PROVE  TaskOK(s, documents, versions, epoch, opened, disk, pastDisks, notified)
<1> DEFINE o == task[t]
           n == Len(o.second)
<1>1. /\ o \in TaskRec /\ o.second \in Seq(0..MaxWrites) /\ n \in Nat /\ n + 1 \in Files
      /\ disk \in Disks /\ notified \in Disks /\ NFiles \in Nat /\ MaxWrites \in Nat
  <2>1. disk \in Disks /\ notified \in Disks
    BY Zenon DEF Inv, TypeOK
  <2> QED BY Z3T(30), <2>1, Reads, Constants DEF Files
<1>2. /\ Append(o.second, disk[n + 1]) \in Seq(0..MaxWrites) /\ Len(Append(o.second, disk[n + 1])) = n + 1
      /\ \A i \in 1..(n + 1) : Append(o.second, disk[n + 1])[i] = IF i = n + 1 THEN disk[n + 1] ELSE o.second[i]
  <2>1. disk[n + 1] \in 0..MaxWrites
    BY <1>1 DEF Disks
  <2> QED BY Zenon, <1>1, <2>1, AppendRead
<1>3. /\ s \in TaskRec /\ s.pc = o.pc /\ s.second = Append(o.second, disk[n + 1]) /\ s.first = o.first
      /\ s.epoch = o.epoch /\ s.versions = o.versions /\ s.documents = o.documents /\ s.latest = o.latest
  BY Zenon, <1>1, <1>2 DEF TaskRec, Observations
<1>4. TaskOK(o, documents, versions, epoch, opened, disk, pastDisks, notified)
  BY DEF Inv
<1>5. o.pc \in {"rereading", "revisiting"}
  BY Zenon
<1> HIDE DEF o, n
<1>6. /\ s.pc = "rereading" => Snapshot(s, documents, versions, epoch, opened)
      /\ s.pc = "revisiting" => Revisit(s, documents, epoch)
  BY <1>3, <1>4 DEF TaskOK, Snapshot, Revisit
<1>7. \A i \in Files : disk[i] \in Nat /\ notified[i] \in Nat /\ notified[i] <= disk[i]
  BY <1>1 DEF Inv, FilesOK, Disks
<1>10. OneMore(o.second, s.second, n, disk)
  BY Zenon, <1>2, <1>3 DEF OneMore
<1>8. Observed(s, epoch, disk, notified)
  <2>1. Len(s.first) = NFiles /\ Len(s.second) <= NFiles
    <3>1. Len(s.first) = NFiles /\ Len(s.second) = n + 1
      BY Zenon, <1>2, <1>3, <1>4, <1>5 DEF TaskOK, Observed
    <3>2. n + 1 <= NFiles
      BY Z3T(30), <1>1 DEF Files
    <3> QED BY Zenon, <3>1, <3>2
  <2>2. \A i \in Files : i <= Len(s.first) => s.first[i] <= disk[i]
    BY Z3T(30), <1>3, <1>4 DEF TaskOK, Observed
  <2>3. s.pc = "rereading" /\ s.epoch = epoch => \A i \in Files : i <= Len(s.first) => notified[i] <= s.first[i]
    BY <1>3, <1>4 DEF TaskOK, Observed
  <2>4. s.pc = "revisiting" /\ s.epoch = epoch => \A i \in Files : i <= Len(s.second) => notified[i] <= s.second[i]
    <3>1. /\ NoOlder(disk, NFiles, notified)
          /\ o.pc = "revisiting" /\ o.epoch = epoch => NoOlder(o.second, n, notified)
      BY Zenon, <1>4, <1>7 DEF TaskOK, Observed, n, NoOlder
    <3> QED BY Zenon, <1>1, <1>3, <1>10, <3>1, ReadOneMore DEF NoOlder
  <2> QED BY Zenon, <1>3, <1>5, <2>1, <2>2, <2>3, <2>4 DEF Observed
<1>9. Between(s, disk, pastDisks)
  <2>1. CASE o.pc = "rereading"
    <3>1. PICK m \in pastDisks : /\ \A i \in Files : o.first[i] <= m[i] /\ m[i] <= disk[i]
                                 /\ \A i \in Files : i <= n => m[i] <= o.second[i]
      BY <1>4, <2>1 DEF TaskOK, Between, n
    <3>2. \A i \in Files : i <= Len(s.second) => m[i] <= s.second[i]
      <4>1. m \in Disks
        BY Zenon DEF Inv, TypeOK
      <4>2. NoOlder(disk, NFiles, m) /\ NoOlder(o.second, n, m)
        BY Zenon, <3>1 DEF NoOlder
      <4> QED BY ZenonT(30), <1>1, <1>10, <4>1, <4>2, ReadOneMore DEF NoOlder
    <3> QED BY Zenon, <1>3, <2>1, <3>1, <3>2 DEF Between
  <2>2. CASE o.pc = "revisiting"
    BY <1>3, <1>4, <2>2 DEF TaskOK, Between
  <2> QED BY <1>5, <2>1, <2>2
<1> QED BY Z3T(30), <1>3, <1>5, <1>6, <1>8, <1>9 DEF TaskOK

LEMMA StepReadFile ==
    ASSUME Inv, NEW t \in Tasks, ReadFile(t)
    PROVE  Inv'
<1>1. UNCHANGED <<documents, diagnostics, versions, epoch, workerRunning, scheduling, closing, disk, watchPending,
                  shown, panics, text, opened, notified, announced, pastDisks>>
  BY DEF ReadFile, session, history
<1>2. workerRunning' \in BOOLEAN
  BY <1>1 DEF Inv, TypeOK
<1>3. scheduling' \in Nat /\ panics' \in 0..MaxPanics
  BY <1>1 DEF Inv, TypeOK
<1>4. task \in [Tasks -> TaskRec]
  BY DEF Inv
<1>5. CASE /\ task[t].pc = "reading" /\ Len(task[t].first) < NFiles
           /\ task' = [task EXCEPT ![t].first = Append(@, disk[Len(@) + 1]),
                                   ![t].pc = IF Len(task[t].first) + 1 = NFiles THEN "rereading" ELSE "reading"]
  <2> DEFINE c == IF Len(task[t].first) + 1 = NFiles THEN "rereading" ELSE "reading"
             s == [task[t] EXCEPT !.first = Append(task[t].first, disk[Len(task[t].first) + 1]), !.pc = c]
  <2>1. task' = [task EXCEPT ![t] = s]
    BY Zenon, <1>4, <1>5
  <2>2. TaskOK(s, documents, versions, epoch, opened, disk, pastDisks, notified)
    BY Zenon, <1>5, ReadFirst
  <2> HIDE DEF s
  <2> QED BY Zenon, <1>1, <1>2, <1>3, <2>1, <2>2, TaskOnly
<1>6. CASE /\ task[t].pc \in {"rereading", "revisiting"} /\ Len(task[t].second) < NFiles
           /\ task' = [task EXCEPT ![t].second = Append(@, disk[Len(@) + 1])]
  <2> DEFINE s == [task[t] EXCEPT !.second = Append(task[t].second, disk[Len(task[t].second) + 1])]
  <2>1. task' = [task EXCEPT ![t] = s]
    BY <1>4, <1>6
  <2>2. TaskOK(s, documents, versions, epoch, opened, disk, pastDisks, notified)
    BY <1>6, ReadSecond
  <2> HIDE DEF s
  <2> QED BY Zenon, <1>1, <1>2, <1>3, <2>1, <2>2, TaskOnly
<1> QED BY Zenon, <1>5, <1>6 DEF ReadFile

-----------------------------------------------------------------------------
(* Two equal observations are a state the disk was in: the moment between    *)
(* them is squeezed between the two.                                         *)

LEMMA SeqIsDisk ==
    ASSUME NEW x \in Seq(0..MaxWrites), Len(x) = NFiles
    PROVE  x \in Disks
  BY Z3T(30), Constants DEF Disks, Files

LEMMA DoubleCollect ==
    ASSUME Inv, NEW t \in Tasks, task[t].pc = "rereading", HasReread(t), Consistent(t)
    PROVE  task[t].first \in pastDisks
<1> DEFINE o == task[t]
<1>1. TaskOK(o, documents, versions, epoch, opened, disk, pastDisks, notified)
  BY Z3T(30) DEF Inv
<1>2. o.first \in Seq(0..MaxWrites) /\ Len(o.first) = NFiles /\ o.first = o.second
  BY ZenonT(30), <1>1, Reads DEF TaskOK, Observed, HasReread, Consistent
<1>3. o.first \in Disks
  BY <1>2, SeqIsDisk
<1>4. PICK m \in pastDisks : /\ \A i \in Files : o.first[i] <= m[i] /\ m[i] <= disk[i]
                             /\ \A i \in Files : i <= Len(o.second) => m[i] <= o.second[i]
  BY Zenon, <1>1 DEF TaskOK, Between
<1>5. m \in Disks
  BY Z3T(30) DEF Inv, TypeOK
<1>6. \A i \in Files : m[i] <= o.first[i]
  BY Z3T(30), <1>2, <1>4, Constants DEF Files
<1> HIDE DEF o
<1>7. \A i \in Files : m[i] = o.first[i]
  BY Z3T(30), <1>3, <1>4, <1>5, <1>6, Constants DEF Disks
<1>8. m = o.first
  BY Z3T(30), <1>3, <1>5, <1>7 DEF Disks
<1> QED BY Z3T(30), <1>8 DEF o

LEMMA DiagnoseType ==
    ASSUME NEW docs \in Docs, NEW seen \in Disks, NEW u \in Uris
    PROVE  /\ Diagnose(docs, seen, u) \in MaybeRevision
           /\ Diagnose(docs, seen, u) \notin {Absent, Rejected} => Diagnose(docs, seen, u).files = seen
           /\ docs[u] \in Texts => Diagnose(docs, seen, u).document = docs[u]
<1>1. Revision(docs, seen, u) \in [document : Texts \cup {Absent}, overlays : [Group[u] -> Texts \cup {Absent}],
                                   files : Disks]
  BY Zenon DEF Revision, Overlay
<1>2. Revision(docs, seen, u) \in MaybeRevision
  BY Zenon, <1>1 DEF MaybeRevision
<1>3. Revision(docs, seen, u).files = seen /\ (docs[u] \in Texts => Revision(docs, seen, u).document = docs[u])
  BY DEF Revision, Overlay
<1> QED BY Zenon, <1>2, <1>3, NoRevision DEF Diagnose

LEMMA StepInstallAnalysis ==
    ASSUME Inv, NEW w \in Workers, InstallAnalysis(w)
    PROVE  Inv' /\ documents' = documents
<1> DEFINE o == task[w]
           s == [o EXCEPT !.pc = "publish", !.todo = {u \in Uris : o.versions[u] # Absent}]
<1>0. w \in Tasks
  BY DEF Tasks
<1>1. /\ o.pc = "rereading" /\ HasReread(w) /\ Consistent(w) /\ o.epoch = epoch
      /\ documents' = o.documents
      /\ diagnostics' = [u \in Uris |-> Diagnose(o.documents, o.first, u)]
      /\ workerRunning' = FALSE
      /\ UNCHANGED <<versions, epoch, scheduling, closing, disk, watchPending, shown, panics, text, opened, notified,
                     announced, pastDisks>>
  BY DEF InstallAnalysis, Installable, history
<1>2. task' = [task EXCEPT ![w] = s]
  BY Zenon, <1>0 DEF InstallAnalysis, Inv
<1>3. o \in TaskRec /\ TaskOK(o, documents, versions, epoch, opened, disk, pastDisks, notified)
  BY <1>0 DEF Inv
<1>4. Snapshot(o, documents, versions, epoch, opened)
  BY ZenonT(30), <1>1, <1>3 DEF TaskOK
<1>5. o.documents \in Docs /\ o.documents = documents
  BY Zenon, <1>1, <1>4 DEF Snapshot
<1>6. o.first \in pastDisks
  BY Zenon, <1>0, <1>1, DoubleCollect
<1>7. o.first \in Disks
  BY <1>6 DEF Inv, TypeOK
<1>8. diagnostics' \in [Uris -> MaybeRevision] /\ NoTornWorkspace'
  BY Zenon, <1>1, <1>5, <1>6, <1>7, DiagnoseType DEF NoTornWorkspace
<1>9. /\ s \in TaskRec /\ s.pc = "publish" /\ s.first = o.first /\ s.second = o.second /\ s.epoch = o.epoch
      /\ s.documents = o.documents /\ s.versions = o.versions
  BY ZenonT(30), <1>3 DEF TaskRec, PCs
<1> HIDE DEF o, s
<1>10. TaskOK(s, documents, versions, epoch, opened, disk, pastDisks, notified)
  <2>1. Snapshot(s, documents, versions, epoch, opened)
    BY <1>4, <1>9 DEF Snapshot
  <2>2. Observed(s, epoch, disk, notified)
    BY ZenonT(30), <1>1, <1>3, <1>9 DEF TaskOK, Observed
  <2>3. Between(s, disk, pastDisks)
    BY <1>6, <1>9 DEF Between
  <2> QED BY Zenon, <1>9, <2>1, <2>2, <2>3 DEF TaskOK
<1>11. workerRunning' \in BOOLEAN
  BY ZenonT(30), <1>1
<1>12. scheduling' \in Nat /\ panics' \in 0..MaxPanics
  <2>1. scheduling' = scheduling /\ panics' = panics
    BY Zenon, <1>1
  <2> QED BY Zenon, <2>1 DEF Inv, TypeOK
<1>13. shown' \in [Uris -> Shown] /\ announced' \in [Uris -> [epoch : Nat, publication : Shown]]
  BY <1>1 DEF Inv
<1>14. AnnouncedOK'
  BY Zenon, <1>1, <1>5 DEF Inv, AnnouncedOK
<1> QED BY Zenon, <1>0, <1>1, <1>2, <1>5, <1>8, <1>10, <1>11, <1>12, <1>13, <1>14, TaskKeeps

LEMMA StepAnalyseAgain ==
    ASSUME Inv, NEW w \in Workers, AnalyseAgain(w)
    PROVE  Inv'
<1>1. /\ task' = [task EXCEPT ![w] = [Idle EXCEPT !.pc = "snapshot"]]
      /\ UNCHANGED <<documents, diagnostics, versions, epoch, workerRunning, scheduling, closing, disk, watchPending,
                     shown, panics, text, opened, notified, announced, pastDisks>>
  BY DEF AnalyseAgain, session, history
<1>2. workerRunning' \in BOOLEAN
  BY <1>1 DEF Inv, TypeOK
<1>3. scheduling' \in Nat /\ panics' \in 0..MaxPanics
  BY <1>1 DEF Inv, TypeOK
<1> QED BY Zenon, <1>1, <1>2, <1>3, EndRecords, TaskOnly DEF Tasks

LEMMA StepWorkerPanics ==
    ASSUME Inv, NEW w \in Workers, WorkerPanics(w)
    PROVE  Inv'
<1>1. /\ panics < MaxPanics /\ panics' = panics + 1
      /\ UNCHANGED <<documents, diagnostics, versions, epoch, scheduling, closing, disk, watchPending,
                     shown, text, opened, notified, announced, pastDisks>>
  BY ZenonT(30) DEF WorkerPanics, session, history
<1>2. scheduling' \in Nat /\ panics' \in 0..MaxPanics
  BY <1>1, Constants DEF Inv, TypeOK
<1>3. CASE task' = [task EXCEPT ![w] = [Idle EXCEPT !.pc = "snapshot"]] /\ workerRunning' = workerRunning
  <2>1. workerRunning' \in BOOLEAN
    BY <1>3 DEF Inv, TypeOK
  <2> QED BY Zenon, <1>1, <1>2, <1>3, <2>1, EndRecords, TaskOnly DEF Tasks
<1>4. CASE task' = [task EXCEPT ![w] = Idle] /\ workerRunning' = FALSE
  <2>1. workerRunning' \in BOOLEAN
    BY Zenon, <1>4
  <2> QED BY Zenon, <1>1, <1>2, <1>4, <2>1, EndRecords, TaskOnly DEF Tasks
<1> QED BY Zenon, <1>3, <1>4 DEF WorkerPanics

LEMMA StepQueryPanics ==
    ASSUME Inv, NEW q \in Queries, QueryPanics(q)
    PROVE  Inv'
<1>1. /\ panics < MaxPanics /\ panics' = panics + 1 /\ task' = [task EXCEPT ![q] = [Idle EXCEPT !.pc = "cancelled"]]
      /\ UNCHANGED <<documents, diagnostics, versions, epoch, workerRunning, scheduling, closing, disk, watchPending,
                     shown, text, opened, notified, announced, pastDisks>>
  BY DEF QueryPanics, Cancelled, session, history
<1>2. scheduling' \in Nat /\ panics' \in 0..MaxPanics
  BY <1>1, Constants DEF Inv, TypeOK
<1>3. workerRunning' \in BOOLEAN
  BY <1>1 DEF Inv, TypeOK
<1> QED BY Zenon, <1>1, <1>2, <1>3, EndRecords, TaskOnly DEF Tasks

LEMMA StepCheckPublication ==
    ASSUME Inv, NEW w \in Workers, CheckPublication(w)
    PROVE  Inv'
<1> DEFINE o == task[w]
           s == [o EXCEPT !.pc = "send"]
<1>0. w \in Tasks
  BY DEF Tasks
<1>1. /\ o.pc = "publish" /\ (task' = [task EXCEPT ![w] = Idle] \/ task' = [task EXCEPT ![w] = s])
      /\ UNCHANGED <<documents, diagnostics, versions, epoch, workerRunning, scheduling, closing, disk, watchPending,
                     shown, panics, text, opened, notified, announced, pastDisks>>
  BY Zenon DEF CheckPublication, session, history
<1>2. workerRunning' \in BOOLEAN
  BY <1>1 DEF Inv, TypeOK
<1>3. scheduling' \in Nat /\ panics' \in 0..MaxPanics
  BY <1>1 DEF Inv, TypeOK
<1>4. o \in TaskRec /\ TaskOK(o, documents, versions, epoch, opened, disk, pastDisks, notified)
  BY <1>0 DEF Inv
<1>5. /\ s \in TaskRec /\ s.pc = "send" /\ s.first = o.first /\ s.second = o.second /\ s.epoch = o.epoch
      /\ s.documents = o.documents /\ s.versions = o.versions
  BY <1>4 DEF TaskRec, PCs
<1> HIDE DEF o, s
<1>6. TaskOK(s, documents, versions, epoch, opened, disk, pastDisks, notified)
  BY Zenon, <1>1, <1>4, <1>5 DEF TaskOK, Snapshot, Observed, Between
<1> QED BY <1>0, <1>1, <1>2, <1>3, <1>6, EndRecords, TaskOnly

\* What a worker publishes is well formed.
LEMMA PublicationType ==
    ASSUME Inv, NEW w \in Workers, task[w].pc = "send", NEW u \in Uris
    PROVE  Publication(w, u) \in Shown
<1>1. w \in Tasks
  BY DEF Tasks
<1>2. task[w].documents \in Docs /\ task[w].versions \in Vers /\ task[w].first \in Disks
  BY Zenon, <1>1 DEF Inv, TypeOK, TaskOK, Snapshot, Between
<1> QED BY Zenon, <1>2, DiagnoseType DEF Publication, Shown, Vers

LEMMA StepSendPublication ==
    ASSUME Inv, NEW w \in Workers, NEW u \in Uris, SendPublication(w, u)
    PROVE  Inv'
<1> DEFINE o == task[w]
           s == [o EXCEPT !.pc = "publish", !.todo = o.todo \ {u}]
<1>0. w \in Tasks
  BY DEF Tasks
<1>1. /\ o.pc = "send"
      /\ shown' = IF versions[u] = Publication(w, u).version
                  THEN [shown EXCEPT ![u] = Publication(w, u)] ELSE shown
      /\ announced' = IF o.epoch >= announced[u].epoch
                      THEN [announced EXCEPT ![u] = [epoch |-> o.epoch, publication |-> Publication(w, u)]]
                      ELSE announced
      /\ UNCHANGED <<documents, diagnostics, versions, epoch, workerRunning, scheduling, closing, disk, watchPending,
                     panics, text, opened, notified, pastDisks>>
  BY DEF SendPublication, session, history
<1>2. task' = [task EXCEPT ![w] = s]
  BY Zenon, <1>0 DEF SendPublication, Inv
<1>3. workerRunning' \in BOOLEAN
  BY Zenon, <1>1 DEF Inv, TypeOK
<1>4. scheduling' \in Nat /\ panics' \in 0..MaxPanics
  BY Zenon, <1>1 DEF Inv, TypeOK
<1>5. o \in TaskRec /\ TaskOK(o, documents, versions, epoch, opened, disk, pastDisks, notified)
  BY <1>0 DEF Inv
<1>6. /\ s \in TaskRec /\ s.pc = "publish" /\ s.first = o.first /\ s.second = o.second /\ s.epoch = o.epoch
      /\ s.documents = o.documents /\ s.versions = o.versions
  BY ZenonT(30), <1>5 DEF TaskRec, PCs
<1>7. Publication(w, u) \in Shown /\ o.epoch \in Nat
  BY ZenonT(30), <1>0, <1>1, PublicationType, Reads
<1>12. o.documents \in Docs /\ o.first \in Disks
  BY Zenon, <1>1, <1>5 DEF Inv, TypeOK, TaskOK, Snapshot, Between
<1> HIDE DEF o, s
<1>8. TaskOK(s, documents, versions, epoch, opened, disk, pastDisks, notified)
  BY Zenon, <1>1, <1>5, <1>6 DEF TaskOK, Snapshot, Observed, Between
<1>9. shown' \in [Uris -> Shown] /\ announced' \in [Uris -> [epoch : Nat, publication : Shown]]
  BY Zenon, <1>1, <1>7 DEF Inv
<1>10. diagnostics' \in [Uris -> MaybeRevision] /\ NoTornWorkspace'
  BY Zenon, <1>1 DEF Inv, FilesOK, NoTornWorkspace
<1>11. AnnouncedOK'
  <2> DEFINE p == Publication(w, u)
  <2>1. /\ p.version = o.versions[u]
        /\ o.documents[u] \in Texts => p.revision.document = o.documents[u]
    BY <1>12, DiagnoseType DEF Publication, o
  <2> HIDE DEF p
  <2>2. ASSUME opened[u] <= o.epoch, versions[u] # Absent
        PROVE  /\ p.version # Absent /\ p.version <= versions[u]
               /\ p.version = versions[u] /\ documents[u] \in Texts => p.revision.document = documents[u]
    BY Zenon, <1>1, <1>5, <2>1, <2>2 DEF TaskOK, Snapshot
  <2>3. o.epoch <= epoch
    BY Zenon, <1>1, <1>5 DEF TaskOK, Snapshot
  <2>4. CASE announced' = announced
    BY Zenon, <1>1, <2>4 DEF Inv, AnnouncedOK
  <2>5. CASE announced' = [announced EXCEPT ![u] = [epoch |-> o.epoch, publication |-> p]]
    <3>1. announced'[u].epoch = o.epoch /\ announced'[u].publication = p
      BY ZenonT(30), <2>5 DEF Inv
    <3>2. \A f \in Uris : f # u => announced'[f] = announced[f]
      BY ZenonT(30), <2>5 DEF Inv
    <3> QED BY ZenonT(30), <1>1, <2>2, <2>3, <3>1, <3>2 DEF Inv, AnnouncedOK
  <2> QED BY ZenonT(30), <1>1, <2>4, <2>5 DEF p
<1> QED BY Zenon, <1>0, <1>1, <1>2, <1>3, <1>4, <1>8, <1>9, <1>10, <1>11, TaskKeeps

LEMMA StepQueryChecks ==
    ASSUME Inv, NEW q \in Queries, QueryChecks(q)
    PROVE  Inv'
<1> DEFINE o == task[q]
           s == [o EXCEPT !.pc = "revisiting", !.epoch = epoch, !.latest = documents, !.second = <<>>]
<1>0. q \in Tasks
  BY Zenon DEF Tasks
<1>1. /\ o.pc = "rereading" /\ HasReread(q) /\ task' = [task EXCEPT ![q] = QueryOutcome(q)]
      /\ UNCHANGED <<documents, diagnostics, versions, epoch, workerRunning, scheduling, closing, disk, watchPending,
                     shown, panics, text, opened, notified, announced, pastDisks>>
  BY Zenon DEF QueryChecks, session, history
<1>2. workerRunning' \in BOOLEAN
  BY Zenon, <1>1 DEF Inv, TypeOK
<1>3. scheduling' \in Nat /\ panics' \in 0..MaxPanics
  BY Z3T(30), <1>1 DEF Inv, TypeOK
<1>4. TaskOK(QueryOutcome(q), documents, versions, epoch, opened, disk, pastDisks, notified)
  <2>1. CASE QueryOutcome(q) \in {Answered, Cancelled}
    BY Z3T(30), <2>1, EndRecords DEF Answered, Cancelled
  <2>2. CASE Consistent(q) /\ QueryOutcome(q) = s
    <3>1. /\ o \in TaskRec /\ TaskOK(o, documents, versions, epoch, opened, disk, pastDisks, notified)
          /\ documents \in Docs /\ epoch \in Nat
      BY <1>0, Constants DEF Inv, TypeOK, Docs
    <3>2. o.first \in pastDisks
      BY <1>0, <1>1, <2>2, DoubleCollect
    <3>3. /\ s \in TaskRec /\ s.pc = "revisiting" /\ s.first = o.first /\ s.second = <<>> /\ s.epoch = epoch
          /\ s.latest = documents
      <4>1. <<>> \in Observations /\ "revisiting" \in PCs
        BY DEF Observations, PCs
      <4> QED BY Zenon, <3>1, <4>1 DEF TaskRec
    <3> HIDE DEF o, s
    <3>4. Observed(s, epoch, disk, notified)
      <4>1. Len(s.second) = 0 /\ Len(s.first) = NFiles
        BY Zenon, <1>1, <3>1, <3>3 DEF TaskOK, Observed
      <4>2. \A i \in Files : i <= Len(s.first) => s.first[i] <= disk[i]
        BY Zenon, <3>1, <3>3 DEF TaskOK, Observed
      <4>3. \A i \in Files : ~(i <= Len(s.second))
        BY <4>1 DEF Files
      <4>4. Len(s.second) <= NFiles
        BY <4>1, Constants
      <4> QED BY Zenon, <3>3, <4>1, <4>2, <4>3, <4>4 DEF Observed
    <3>5. TaskOK(s, documents, versions, epoch, opened, disk, pastDisks, notified)
      <4>1. Between(s, disk, pastDisks)
        BY Zenon, <3>2, <3>3 DEF Between
      <4>2. epoch <= epoch
        BY <3>1
      <4>3. Revisit(s, documents, epoch)
        BY Zenon, <3>1, <3>3, <4>2 DEF Revisit
      <4> QED BY Zenon, <3>3, <3>4, <4>1, <4>3 DEF TaskOK
    <3> QED BY ZenonT(30), <2>2, <3>5
  <2> QED BY <2>1, <2>2 DEF QueryOutcome
<1> QED BY Zenon, <1>0, <1>1, <1>2, <1>3, <1>4, TaskOnly

LEMMA StepQueryRevisits ==
    ASSUME Inv, NEW q \in Queries, QueryRevisits(q)
    PROVE  Inv'
<1>1. /\ \/ task' = [task EXCEPT ![q] = [Idle EXCEPT !.pc = "answered"]]
         \/ task' = [task EXCEPT ![q] = [Idle EXCEPT !.pc = "cancelled"]]
      /\ UNCHANGED <<documents, diagnostics, versions, epoch, workerRunning, scheduling, closing, disk, watchPending,
                     shown, panics, text, opened, notified, announced, pastDisks>>
  BY Zenon DEF QueryRevisits, Answered, Cancelled, session, history
<1>2. workerRunning' \in BOOLEAN
  BY <1>1 DEF Inv, TypeOK
<1>3. scheduling' \in Nat /\ panics' \in 0..MaxPanics
  BY Z3T(30), <1>1 DEF Inv, TypeOK
<1> QED BY <1>1, <1>2, <1>3, EndRecords, TaskOnly DEF Tasks

LEMMA Initially ==
    ASSUME Init
    PROVE  Inv
<1>1. TypeOK
  <2>1. /\ documents \in [Uris -> Texts \cup {Absent, Rejected}] /\ versions \in [Uris -> Versions \cup {Absent}]
        /\ \A u \in Uris : diagnostics[u] \in MaybeRevision /\ shown[u].revision \in MaybeRevision
    BY Zenon, NoRevision DEF Init, Empty
  <2>2. epoch \in 0..MaxEpoch /\ scheduling \in Nat /\ closing \subseteq Uris /\ panics \in 0..MaxPanics
    BY Constants DEF Init
  <2>3. workerRunning \in BOOLEAN
    BY ZenonT(30) DEF Init
  <2>4. \A t \in Tasks : task[t].pc = "idle"
    BY Zenon DEF Init, Idle
  <2>5. disk \in Disks
    BY Z3T(30), Constants DEF Init, Disks
  <2>6. notified \in Disks /\ pastDisks \subseteq Disks
    BY <2>5 DEF Init
  <2> QED BY Zenon, <2>1, <2>2, <2>3, <2>4, <2>5, <2>6 DEF TypeOK
<1>2. watchPending \in BOOLEAN /\ ~watchPending
  BY ZenonT(30) DEF Init
<1>3. /\ diagnostics \in [Uris -> MaybeRevision] /\ shown \in [Uris -> Shown]
      /\ announced \in [Uris -> [epoch : Nat, publication : Shown]]
  BY Zenon, NoRevision DEF Init, Shown, Empty
<1>4. SessionOK
  BY Z3T(30) DEF Init, SessionOK, EditsAreKept
<1>5. FilesOK
  BY Z3T(30), Constants DEF Init, FilesOK, NoTornWorkspace, Files
<1>8. AnnouncedOK
  <2>1. epoch = 0 /\ \A u \in Uris : announced[u].epoch = 0 /\ versions[u] = Absent
    BY DEF Init
  <2> SUFFICES ASSUME NEW u \in Uris
               PROVE  announced[u].epoch <= epoch /\ ~(opened[u] <= announced[u].epoch /\ versions[u] # Absent)
    BY Zenon DEF AnnouncedOK
  <2> QED BY Z3T(30), <2>1
<1>6. task \in [Tasks -> TaskRec]
  BY IdleRec DEF Init
<1>7. ASSUME NEW t \in Tasks
      PROVE  TaskOK(task[t], documents, versions, epoch, opened, disk, pastDisks, notified)
  <2>1. task[t] = Idle
    BY Z3T(30) DEF Init
  <2>2. Observed(Idle, epoch, disk, notified)
    BY Z3T(30), IdleRec, Constants DEF Observed, Files
  <2> QED BY Zenon, <2>1, <2>2, IdleRec DEF TaskOK, Between
<1> QED BY Zenon, <1>1, <1>2, <1>3, <1>4, <1>5, <1>6, <1>7, <1>8 DEF Inv

LEMMA Step ==
    ASSUME Inv, [Next]_vars
    PROVE  Inv'
<1>1. CASE Client(Uris, Texts \cup {Oversized})
  BY <1>1, StepDidOpen, StepDidChange, StepDidClose DEF Client
<1>2. CASE Schedule \/ DidChangeWatchedFiles \/ \E u \in Uris : CloseNotify(u)
  BY <1>2, StepSchedule, StepDidChangeWatchedFiles, StepCloseNotify
<1>3. ASSUME NEW w \in Workers, WorkerStep(w) \/ WorkerPanics(w)
      PROVE  Inv'
  <2>1. CASE WorkerSnapshot(w) \/ InstallAnalysis(w) \/ AnalyseAgain(w)
    BY <2>1, StepWorkerSnapshot, StepInstallAnalysis, StepAnalyseAgain
  <2>2. CASE CheckPublication(w) \/ WorkerPanics(w) \/ \E u \in Uris : SendPublication(w, u)
    BY <2>2, StepCheckPublication, StepWorkerPanics, StepSendPublication
  <2>3. CASE ReadFile(w)
    BY Z3T(30), <2>3, StepReadFile DEF Tasks
  <2> QED BY <1>3, <2>1, <2>2, <2>3 DEF WorkerStep
<1>4. ASSUME NEW q \in Queries, QueryStep(q) \/ QueryPanics(q) \/ \E u \in Uris : QueryStart(q, u)
      PROVE  Inv'
  <2>1. CASE QueryChecks(q) \/ QueryRevisits(q)
    BY <2>1, StepQueryChecks, StepQueryRevisits
  <2>2. CASE QueryPanics(q) \/ \E u \in Uris : QueryStart(q, u)
    BY <2>2, StepQueryPanics, StepQueryStart
  <2>3. CASE ReadFile(q)
    BY <2>3, StepReadFile DEF Tasks
  <2> QED BY Z3T(30), <1>4, <2>1, <2>2, <2>3 DEF QueryStep
<1>5. ASSUME NEW f \in Files, WriteFile(f)
      PROVE  Inv'
  BY Zenon, <1>5, StepWriteFile
<1>6. CASE UNCHANGED vars
  <2>1. UNCHANGED <<documents, diagnostics, versions, epoch, workerRunning, scheduling, closing, task, disk,
                    watchPending, shown, panics, text, opened, announced, notified, pastDisks>>
    BY ZenonT(30), <1>6 DEF vars
  <2>2. TypeOK'
    BY <2>1 DEF Inv, TypeOK
  <2>3. SessionOK' /\ FilesOK' /\ AnnouncedOK'
    BY Zenon, <2>1 DEF Inv, SessionOK, FilesOK, EditsAreKept, NoTornWorkspace, AnnouncedOK
  <2> QED BY Zenon, <2>1, <2>2, <2>3 DEF Inv
<1> QED BY Z3T(30), <1>1, <1>2, <1>3, <1>4, <1>5, <1>6 DEF Next

\* The invariant behind the theorems below: snapshots of the present epoch are
\* the session, and two equal observations bracket a state of the disk.
THEOREM Invariant == Spec => []Inv
<1>1. Init => Inv
  BY Initially
<1>2. Inv /\ [Next]_vars => Inv'
  BY Step
<1> QED BY <1>1, <1>2, PTL DEF Spec

\* The session, the tasks and the publications are always well formed.
THEOREM SessionTypes == Spec => []TypeOK
<1>1. Inv => TypeOK
  BY DEF Inv
<1> QED BY <1>1, Invariant, PTL

\* Installing an analysis over the whole server state (session.rs,
\* install_analysis) never loses an edit.
THEOREM EditsAreKeptAlways == Spec => []EditsAreKept
<1>1. Inv => EditsAreKept
  BY ZenonT(30) DEF Inv, SessionOK
<1> QED BY <1>1, Invariant, PTL

\* The installed diagnostics always come from one state of the workspace.
THEOREM NoTornWorkspaceAlways == Spec => []NoTornWorkspace
<1>1. Inv => NoTornWorkspace
  BY ZenonT(30) DEF Inv, FilesOK
<1> QED BY <1>1, Invariant, PTL

\* Diagnostics shown under the present version are about its text.
THEOREM ShownTextIsVersionedAlways == Spec => []ShownTextIsVersioned
<1>1. Inv => ShownTextIsVersioned
  <2> SUFFICES ASSUME Inv, NEW u \in Uris,
                      shown[u].version # Absent, shown[u].version = versions[u],
                      announced[u].publication = shown[u], announced[u].epoch >= opened[u],
                      documents[u] \in Texts
               PROVE  shown[u].revision.document = text[u]
    BY Zenon DEF ShownTextIsVersioned
  <2>1. documents[u] = text[u]
    BY Zenon DEF Inv, SessionOK, EditsAreKept
  <2>2. opened[u] <= announced[u].epoch /\ versions[u] # Absent
    BY Zenon DEF Inv, SessionOK
  <2> QED BY Zenon, <2>1, <2>2 DEF Inv, AnnouncedOK
<1> QED BY <1>1, Invariant, PTL

-----------------------------------------------------------------------------
(* One analysis at a time.                                                  *)

Busy == {"snapshot", "reading", "rereading"}
LEMMA AnalysingFrame ==
    ASSUME Inv, NEW t \in Tasks, NEW s, task' = [task EXCEPT ![t] = s],
           t \in Workers => (s.pc \in Busy <=> task[t].pc \in Busy)
    PROVE  Analysing' = Analysing
<1>1. \A w \in Workers : task'[w].pc \in Busy <=> task[w].pc \in Busy
  BY DEF Inv, Tasks
<1> QED BY Z3T(30), <1>1 DEF Analysing, Busy

\* A worker that starts, and one that ends, an analysis.
LEMMA AnalysingChange ==
    ASSUME Inv, NEW w \in Workers, NEW s, task' = [task EXCEPT ![w] = s]
    PROVE  /\ s.pc \in Busy => Analysing' = Analysing \cup {w}
           /\ s.pc \notin Busy => Analysing' = Analysing \ {w}
<1>1. \A x \in Workers : task'[x] = IF x = w THEN s ELSE task[x]
  BY DEF Inv, Tasks
<1> QED BY Z3T(30), <1>1 DEF Analysing, Busy

LEMMA IdlePCs ==
    ASSUME NEW c \in PCs
    PROVE  [Idle EXCEPT !.pc = c].pc = c
  BY Zenon, IdleRec DEF TaskRec

LEMMA CoalescedStep ==
    ASSUME Inv, OneAnalysis, [Next]_vars
    PROVE  OneAnalysis'
<1>0. ASSUME workerRunning' = workerRunning, Analysing' = Analysing
      PROVE  OneAnalysis'
  BY <1>0 DEF OneAnalysis
<1>1. CASE UNCHANGED <<workerRunning, task>>
  BY <1>0, <1>1 DEF Analysing
<1>2. CASE Schedule
  <2>1. ASSUME ~workerRunning, NEW w \in Workers, workerRunning' = TRUE,
               task' = [task EXCEPT ![w] = [Idle EXCEPT !.pc = "snapshot"]]
        PROVE  OneAnalysis'
    <3>1. [Idle EXCEPT !.pc = "snapshot"].pc \in Busy
      BY IdlePCs DEF PCs, Busy
    <3>2. Analysing' = Analysing \cup {w} /\ Analysing = {}
      BY Zenon, <2>1, <3>1, AnalysingChange DEF OneAnalysis
    <3>3. Analysing' = {w}
      BY <3>2
    <3> QED BY <2>1, <3>3 DEF OneAnalysis
  <2> QED BY Zenon, <1>1, <1>2, <2>1 DEF Schedule
<1>3. ASSUME NEW t \in Tasks, ReadFile(t)
      PROVE  OneAnalysis'
  <2>1. task \in [Tasks -> TaskRec] /\ workerRunning' = workerRunning
    BY Zenon, <1>3 DEF ReadFile, Inv
  <2>2. \A x \in Tasks : task'[x].pc \in Busy <=> task[x].pc \in Busy
    <3>1. CASE /\ task[t].pc = "reading" /\ Len(task[t].first) < NFiles
               /\ task' = [task EXCEPT ![t].first = Append(@, disk[Len(@) + 1]),
                                       ![t].pc = IF Len(task[t].first) + 1 = NFiles THEN "rereading" ELSE "reading"]
      <4>1. task'[t].pc \in {"reading", "rereading"} /\ \A x \in Tasks : x # t => task'[x] = task[x]
        BY <2>1, <3>1 DEF TaskRec
      <4> QED BY Zenon, <3>1, <4>1 DEF Busy
    <3>2. CASE task' = [task EXCEPT ![t].second = Append(@, disk[Len(@) + 1])]
      BY ZenonT(30), <2>1, <3>2 DEF TaskRec
    <3> QED BY Zenon, <1>3, <3>1, <3>2 DEF ReadFile
  <2>3. Analysing' = Analysing
    BY <2>2 DEF Analysing, Busy, Tasks
  <2> QED BY Zenon, <1>0, <2>1, <2>3
<1>4. ASSUME NEW w \in Workers, WorkerStep(w) \/ WorkerPanics(w)
      PROVE  OneAnalysis'
  <2>0. w \in Tasks /\ task[w] \in TaskRec
    BY DEF Tasks, Inv
  <2>1. ASSUME task[w].pc \in Busy, workerRunning' = workerRunning, NEW s, s.pc \in Busy, task' = [task EXCEPT ![w] = s]
        PROVE  OneAnalysis'
    BY Zenon, <1>0, <2>0, <2>1, AnalysingFrame
  <2>2. ASSUME task[w].pc \in Busy, workerRunning' = FALSE, NEW s, s.pc \notin Busy, task' = [task EXCEPT ![w] = s]
        PROVE  OneAnalysis'
    <3>1. w \in Analysing
      BY <2>2 DEF Analysing, Busy
    <3>2. Analysing = {w}
      BY <3>1 DEF OneAnalysis
    <3>3. Analysing' = {}
      BY Zenon, <2>2, <3>2, AnalysingChange
    <3> QED BY <2>2, <3>3 DEF OneAnalysis
  <2>3. ASSUME task[w].pc \notin Busy, workerRunning' = workerRunning, NEW s, s.pc \notin Busy,
               task' = [task EXCEPT ![w] = s]
        PROVE  OneAnalysis'
    BY Zenon, <1>0, <2>0, <2>3, AnalysingFrame
  <2>4. CASE WorkerSnapshot(w)
    <3> DEFINE s == [Idle EXCEPT !.pc = "reading", !.epoch = epoch, !.versions = versions, !.documents = documents]
    <3>1. s.pc \in Busy
      BY IdleRec DEF TaskRec, Busy
    <3>2. task[w].pc \in Busy /\ workerRunning' = workerRunning /\ task' = [task EXCEPT ![w] = s]
      BY <2>4 DEF WorkerSnapshot, Busy
    <3> HIDE DEF s
    <3> QED BY Zenon, <2>1, <3>1, <3>2
  <2>5. CASE InstallAnalysis(w)
    <3> DEFINE s == [task[w] EXCEPT !.pc = "publish", !.todo = {u \in Uris : task[w].versions[u] # Absent}]
    <3>1. s.pc = "publish"
      BY <2>0 DEF TaskRec
    <3>2. task[w].pc \in Busy /\ workerRunning' = FALSE /\ task' = [task EXCEPT ![w] = s]
      BY Zenon, <2>0, <2>5 DEF InstallAnalysis, Busy, Inv
    <3> HIDE DEF s
    <3> QED BY Zenon, <2>2, <3>1, <3>2 DEF Busy
  <2>6. CASE AnalyseAgain(w)
    <3>1. [Idle EXCEPT !.pc = "snapshot"].pc \in Busy
      BY IdlePCs DEF PCs, Busy
    <3>2. /\ task[w].pc \in Busy /\ workerRunning' = workerRunning
          /\ task' = [task EXCEPT ![w] = [Idle EXCEPT !.pc = "snapshot"]]
      BY <2>6 DEF AnalyseAgain, Busy
    <3> QED BY Zenon, <2>1, <3>1, <3>2
  <2>7. CASE CheckPublication(w)
    <3>1. Idle.pc \notin Busy /\ [task[w] EXCEPT !.pc = "send"].pc \notin Busy
      BY <2>0, IdleRec DEF TaskRec, Busy
    <3> QED BY Zenon, <2>3, <2>7, <3>1 DEF CheckPublication, Busy
  <2>8. ASSUME NEW u \in Uris, SendPublication(w, u)
        PROVE  OneAnalysis'
    <3> DEFINE s == [task[w] EXCEPT !.pc = "publish", !.todo = task[w].todo \ {u}]
    <3>1. s.pc = "publish"
      BY <2>0 DEF TaskRec
    <3>2. task[w].pc = "send" /\ workerRunning' = workerRunning /\ task' = [task EXCEPT ![w] = s]
      BY Zenon, <2>0, <2>8 DEF SendPublication, Inv
    <3> HIDE DEF s
    <3> QED BY Zenon, <2>3, <3>1, <3>2 DEF Busy
  <2>9. CASE WorkerPanics(w)
    <3>1. [Idle EXCEPT !.pc = "snapshot"].pc \in Busy /\ Idle.pc \notin Busy
      BY IdlePCs, IdleRec DEF PCs, Busy
    <3>2. task[w].pc \in Busy
      BY <2>9 DEF WorkerPanics, Busy
    <3>3. CASE workerRunning' = workerRunning /\ task' = [task EXCEPT ![w] = [Idle EXCEPT !.pc = "snapshot"]]
      BY Zenon, <2>1, <3>1, <3>2, <3>3
    <3>4. CASE workerRunning' = FALSE /\ task' = [task EXCEPT ![w] = Idle]
      BY Zenon, <2>2, <3>1, <3>2, <3>4
    <3> QED BY Zenon, <2>9, <3>3, <3>4 DEF WorkerPanics
  <2> QED BY Zenon, <1>3, <1>4, <2>0, <2>4, <2>5, <2>6, <2>7, <2>8, <2>9 DEF WorkerStep
<1>5. ASSUME NEW q \in Queries, QueryStep(q) \/ QueryPanics(q) \/ \E u \in Uris : QueryStart(q, u)
      PROVE  OneAnalysis'
  <2>1. q \in Tasks /\ q \notin Workers
    BY SessionAssumption DEF Tasks
  <2>2. ASSUME NEW s, task' = [task EXCEPT ![q] = s], workerRunning' = workerRunning
        PROVE  OneAnalysis'
    BY Zenon, <1>0, <2>1, <2>2, AnalysingFrame
  <2>3. CASE ReadFile(q)
    BY <1>3, <2>1, <2>3
  <2>4. CASE QueryChecks(q) \/ QueryRevisits(q) \/ QueryPanics(q) \/ \E u \in Uris : QueryStart(q, u)
    BY ZenonT(30), <2>2, <2>4 DEF QueryChecks, QueryRevisits, QueryPanics, QueryStart
  <2> QED BY Zenon, <1>5, <2>3, <2>4 DEF QueryStep
<1>6. CASE Client(Uris, Texts \cup {Oversized})
  BY <1>1, <1>6 DEF Client, DidOpen, DidChange, DidClose
<1>7. CASE \/ DidChangeWatchedFiles
           \/ \E u \in Uris : CloseNotify(u)
           \/ \E f \in Files : WriteFile(f)
  BY ZenonT(30), <1>1, <1>7 DEF DidChangeWatchedFiles, CloseNotify, WriteFile
<1>8. CASE UNCHANGED vars
  BY <1>1, <1>8 DEF vars
<1> QED BY Z3T(30), <1>2, <1>4, <1>5, <1>6, <1>7, <1>8 DEF Next

\* worker_running is set exactly while one task is between its start and its
\* install (session.rs, schedule): diagnostic work is coalesced.
THEOREM OneAnalysisAlways == Spec => []OneAnalysis
<1>1. Init => OneAnalysis
  <2> SUFFICES ASSUME Init PROVE OneAnalysis
    OBVIOUS
  <2>1. \A w \in Workers : task[w].pc = "idle"
    BY Zenon, IdleRec DEF Init, Tasks
  <2>2. Analysing = {} /\ ~workerRunning
    BY <2>1 DEF Init, Analysing
  <2> QED BY Zenon, <2>2 DEF OneAnalysis
<1>2. Inv /\ OneAnalysis /\ [Next]_vars => OneAnalysis'
  BY Z3T(30), CoalescedStep
<1> QED BY <1>1, <1>2, Invariant, PTL DEF Spec

-----------------------------------------------------------------------------
(* Answers.                                                                 *)

Answer(q) ==
    LET u == task[q].uri IN
    /\ Overlay(documents, u) = Overlay(task[q].documents, u)
    /\ \A f \in Group[u] : Overlay(documents, f) = Overlay(task[q].documents, f)
    /\ task[q].first \in pastDisks
    /\ \A f \in Files : task[q].first[f] >= notified[f]

\* The first check: nothing has changed since the query's snapshot.
LEMMA AnswerAtOnce ==
    ASSUME Inv, NEW q \in Queries, task[q].pc = "rereading", HasReread(q), Consistent(q), task[q].epoch = epoch
    PROVE  Answer(q)
<1>1. q \in Tasks
  BY Zenon DEF Tasks
<1>2. TaskOK(task[q], documents, versions, epoch, opened, disk, pastDisks, notified)
  BY <1>1 DEF Inv
<1>3. task[q].documents = documents
  BY Zenon, <1>2 DEF TaskOK, Snapshot
<1>4. task[q].first \in pastDisks
  BY ZenonT(30), <1>1, DoubleCollect
<1>5. task[q].first \in Disks /\ notified \in Disks
  BY <1>4 DEF Inv, TypeOK
<1>6. \A f \in Files : notified[f] <= task[q].first[f]
  <2>1. Len(task[q].first) = NFiles /\ \A i \in Files : i <= Len(task[q].first) => notified[i] <= task[q].first[i]
    BY ZenonT(30), <1>2 DEF TaskOK, Observed
  <2> QED BY Zenon, <2>1, FilesBound
<1>7. \A f \in Files : task[q].first[f] >= notified[f]
  BY <1>5, <1>6, Constants DEF Disks
<1>8. Overlay(documents, task[q].uri) = Overlay(task[q].documents, task[q].uri)
  BY Zenon, <1>3
<1>9. \A f \in Group[task[q].uri] : Overlay(documents, f) = Overlay(task[q].documents, f)
  BY Zenon, <1>3
<1> QED BY ZenonT(30), <1>4, <1>7, <1>8, <1>9 DEF Answer

\* The second look: other documents changed, but not what the answer rests on.
LEMMA AnswerRevisited ==
    ASSUME Inv, NEW q \in Queries, task[q].pc = "revisiting", HasReread(q), StillCurrent(q)
    PROVE  Answer(q)
<1> DEFINE o == task[q]
           u == o.uri
<1>1. q \in Tasks
  BY ZenonT(30) DEF Tasks
<1>2. TaskOK(o, documents, versions, epoch, opened, disk, pastDisks, notified)
  BY ZenonT(30), <1>1 DEF Inv
<1>3. o.epoch = epoch /\ Revision(o.latest, o.second, u) = Revision(o.documents, o.first, u)
  BY DEF StillCurrent
<1>4. o.latest = documents /\ o.first \in pastDisks
  BY ZenonT(30), <1>2, <1>3 DEF TaskOK, Revisit, Between
<1>5. /\ Overlay(o.latest, u) = Overlay(o.documents, u)
      /\ [f \in Group[u] |-> Overlay(o.latest, f)] = [f \in Group[u] |-> Overlay(o.documents, f)]
      /\ o.second = o.first
  <2> HIDE DEF o, u
  <2> QED BY Zenon, <1>3 DEF Revision
<1>6. \A f \in Group[u] : Overlay(o.latest, f) = Overlay(o.documents, f)
  <2> HIDE DEF o, u
  <2> QED BY <1>5
<1>7. o.first \in Disks /\ notified \in Disks
  BY Zenon, <1>4 DEF Inv, TypeOK
<1>8. \A f \in Files : notified[f] <= o.first[f]
  <2>1. Len(o.second) = NFiles /\ \A i \in Files : i <= Len(o.second) => notified[i] <= o.second[i]
    BY ZenonT(30), <1>2, <1>3 DEF TaskOK, Observed, HasReread
  <2>2. \A f \in Files : f <= NFiles
    BY Zenon, FilesBound
  <2> QED BY Zenon, <1>5, <2>1, <2>2
<1>9. \A f \in Files : o.first[f] >= notified[f]
  BY <1>7, <1>8, Constants DEF Disks
<1> QED BY Zenon, <1>4, <1>5, <1>6, <1>9 DEF Answer

LEMMA AnswerStep ==
    ASSUME Inv, Next, NEW q \in Queries, task[q].pc # "answered", task'[q].pc = "answered"
    PROVE  Answer(q)
<1>0. q \in Tasks /\ q \notin Workers /\ task \in [Tasks -> TaskRec] /\ task[q] \in TaskRec
  BY Zenon, SessionAssumption DEF Tasks, Inv
<1>1. ASSUME NEW x \in Tasks, NEW s, task' = [task EXCEPT ![x] = s]
      PROVE  x = q /\ s.pc = "answered"
  BY Z3T(30), <1>0, <1>1
<1>2. task' # task
  BY Z3T(30)
<1>3. ASSUME NEW x \in Tasks
      PROVE  ~ReadFile(x)
  <2>1. SUFFICES ASSUME ReadFile(x) PROVE FALSE
    OBVIOUS
  <2>2. \A y \in Tasks : task'[y].pc \in {task[y].pc, "reading", "rereading"}
    BY <1>0, <2>1 DEF ReadFile, TaskRec
  <2> QED BY <1>0, <2>2
<1>4. ASSUME NEW w \in Workers, WorkerStep(w) \/ WorkerPanics(w)
      PROVE  FALSE
  <2>1. w \in Tasks /\ w # q
    BY Z3T(30), <1>0 DEF Tasks
  <2>2. task'[q] = task[q]
    BY <1>0, <1>3, <1>4, <2>1
       DEF WorkerStep, WorkerPanics, WorkerSnapshot, InstallAnalysis, AnalyseAgain, CheckPublication, SendPublication
  <2> QED BY Z3T(30), <2>2
<1>5. ~Schedule
  <2>1. SUFFICES ASSUME Schedule PROVE FALSE
    OBVIOUS
  <2>2. PICK w \in Workers : task' = [task EXCEPT ![w] = [Idle EXCEPT !.pc = "snapshot"]]
    BY <1>2, <2>1 DEF Schedule
  <2> QED BY Z3T(30), <1>0, <1>1, <2>2 DEF Tasks
<1>6. PICK x \in Queries : QueryStep(x) \/ QueryPanics(x) \/ \E u \in Uris : QueryStart(x, u)
  BY Zenon, <1>2, <1>4, <1>5 DEF Next, Client, DidOpen, DidChange, DidClose, DidChangeWatchedFiles, CloseNotify, WriteFile
<1>7. x \in Tasks
  BY DEF Tasks
<1>8. CASE QueryPanics(x)
  <2>1. [Idle EXCEPT !.pc = "cancelled"].pc = "cancelled"
    BY IdlePCs DEF PCs
  <2> QED BY <1>1, <1>7, <1>8, <2>1 DEF QueryPanics, Cancelled
<1>9. ASSUME NEW u \in Uris, QueryStart(x, u)
      PROVE  FALSE
  <2>1. [Idle EXCEPT !.pc = "reading", !.uri = u, !.epoch = epoch, !.versions = versions,
                     !.documents = documents].pc = "reading"
    BY Z3T(30), IdleRec DEF TaskRec
  <2> QED BY <1>1, <1>7, <1>9, <2>1 DEF QueryStart
<1>10. CASE QueryChecks(x)
  <2>1. x = q /\ QueryOutcome(x).pc = "answered"
    BY <1>1, <1>7, <1>10 DEF QueryChecks
  <2>2. Cancelled.pc = "cancelled"
    BY IdlePCs DEF Cancelled, PCs
  <2>3. [task[x] EXCEPT !.pc = "revisiting", !.epoch = epoch, !.latest = documents, !.second = <<>>].pc = "revisiting"
    BY <1>0, <2>1 DEF TaskRec
  <2>4. Consistent(x) /\ task[x].epoch = epoch
    BY Zenon, <2>1, <2>2, <2>3 DEF QueryOutcome
  <2> QED BY Z3T(30), <1>10, <2>1, <2>4, AnswerAtOnce DEF QueryChecks
<1>11. CASE QueryRevisits(x)
  <2>1. Cancelled.pc = "cancelled"
    BY IdlePCs DEF Cancelled, PCs
  <2>2. x = q /\ StillCurrent(x)
    BY <1>1, <1>7, <1>11, <2>1 DEF QueryRevisits
  <2> QED BY Zenon, <1>11, <2>2, AnswerRevisited DEF QueryRevisits
<1> QED BY Zenon, <1>3, <1>6, <1>7, <1>8, <1>9, <1>10, <1>11 DEF QueryStep

\* session::query never answers from buffers or files that are out of date.
THEOREM AnswersAreCurrentAlways == Spec => AnswersAreCurrent
<1>1. ASSUME Inv, [Next]_vars
      PROVE  [\A q \in Queries : task[q].pc # "answered" /\ task'[q].pc = "answered" => Answer(q)]_vars
  BY <1>1, AnswerStep
<1> QED BY <1>1, Invariant, PTL DEF Spec, AnswersAreCurrent, Answer
=============================================================================
