----------------------------- MODULE LspSession -----------------------------
(***************************************************************************)
(* The native language-server session: client notifications that mutate    *)
(* the open buffers under a short lock, one coalescing diagnostic worker,  *)
(* and navigation queries.  The worker and the queries own a snapshot of   *)
(* the session and read the workspace from disk outside the lock, so every *)
(* result is checked against the session again before it is installed,     *)
(* published or returned.                                                  *)
(*                                                                         *)
(* An analysis is a function of its inputs, so a diagnostic set is         *)
(* represented by the revision (the fingerprinted inputs) it comes from.   *)
(***************************************************************************)
EXTENDS Naturals, Sequences

CONSTANTS
    Uris,        \* the document URIs a client may open
    Texts,       \* buffer contents within the source limit
    Oversized,   \* a buffer content above MAX_SOURCE_BYTES
    Absent,      \* no buffer, no version, no diagnostics
    Rejected,    \* a buffer reject_oversized_document dropped: no document, and
                 \* the size error as its diagnostics
    NFiles,      \* workspace files read from disk (sources, manifests, lock), in path order
    Group,       \* Group[u]: the open documents whose overlays u is analysed with
    Workers,     \* diagnostic tasks alive at once
    Queries,     \* navigation requests alive at once
    MaxVersion,  \* bound on the client's version numbers
    OpenVersions,\* the version numbers a document may be opened with
    MaxEpoch,    \* bound on the number of session changes
    MaxWrites,   \* bound on the number of writes to each file
    MaxPanics    \* bound on the number of panics of the analysis

Files == 1..NFiles
Tasks == Workers \cup Queries
Versions == 1..MaxVersion
Disks == [Files -> 0..MaxWrites]

Empty == [version |-> Absent, revision |-> Absent]

ASSUME SessionAssumption ==
    /\ Absent \notin Texts \cup Versions /\ Rejected \notin Texts \cup {Absent}
    /\ Oversized \notin Texts
    /\ Group \in [Uris -> SUBSET Uris]
    /\ Workers \cap Queries = {} /\ Workers \cap Uris = {}
    /\ OpenVersions \subseteq Versions /\ MaxVersion \in Nat /\ MaxEpoch \in Nat /\ MaxWrites \in Nat /\ MaxPanics \in Nat /\ NFiles \in Nat

VARIABLES
    documents,     \* Session.server.documents
    diagnostics,   \* Session.server.diagnostics
    versions,      \* Session.versions
    epoch,         \* Session.epoch: every Arc::new is a new number
    workerRunning, \* Session.worker_running
    scheduling,    \* handlers between their mutation and session::schedule
    closing,       \* did_close handlers that have not published yet
    task,          \* the diagnostic workers and the queries
    disk,          \* how often each file was written
    watchPending,  \* a didChangeWatchedFiles notification is on its way
    shown,         \* the last publication a version-checking client accepted
    panics,        \* panics so far
    text,          \* history: the text the client believes it has open
    opened,        \* history: the epoch of the last did_open of a document
    announced,     \* history: the publication of the newest epoch, per document
    notified,      \* history: the disk at the last handled watch notification
    pastDisks      \* history: every state the disk has been in

session == <<documents, diagnostics, versions, epoch>>
history == <<text, opened, notified>>
vars == <<documents, diagnostics, versions, epoch, workerRunning, scheduling, closing, task,
          disk, watchPending, shown, panics, text, opened, announced, notified, pastDisks>>

Idle == [pc |-> "idle", uri |-> Absent, epoch |-> 0, versions |-> Absent, documents |-> Absent,
         latest |-> Absent, first |-> <<>>, second |-> <<>>, todo |-> {}]

-----------------------------------------------------------------------------
(* Revisions.                                                              *)

\* The buffers that overlay the disk: a rejected document is in no snapshot.
Overlay(docs, u) == IF docs[u] \in Texts THEN docs[u] ELSE Absent

\* WorkspaceInputs::capture: the document, the overlays of its source group
\* and the bytes read from disk are everything the fingerprint covers.
Revision(docs, seen, u) ==
    [document |-> Overlay(docs, u), overlays |-> [f \in Group[u] |-> Overlay(docs, f)], files |-> seen]

\* analyze_captured_documents keeps the size error of a rejected document.
Diagnose(docs, seen, u) ==
    IF docs[u] \in Texts THEN Revision(docs, seen, u)
    ELSE IF docs[u] = Rejected THEN Rejected ELSE Absent

-----------------------------------------------------------------------------
(* The handlers of the transport layer.                                    *)

NewEpoch == epoch' = epoch + 1

\* Bounds the client's notifications, and leaves room for a pending watch event.
Budget == epoch + (IF watchPending THEN 1 ELSE 0) < MaxEpoch

\* replace_buffer drops the cached diagnostics of the document with its text.
ReplaceBuffer(u, t) ==
    /\ documents' = [documents EXCEPT ![u] = IF t = Oversized THEN Rejected ELSE t]
    /\ diagnostics' = [diagnostics EXCEPT ![u] = IF t = Oversized THEN Rejected ELSE Absent]

DidOpen(u, v, t) ==
    /\ versions[u] = Absent
    /\ Budget
    /\ NewEpoch
    /\ versions' = [versions EXCEPT ![u] = v]
    /\ ReplaceBuffer(u, t)
    /\ text' = [text EXCEPT ![u] = t]
    /\ opened' = [opened EXCEPT ![u] = epoch']
    /\ scheduling' = scheduling + 1
    /\ UNCHANGED <<workerRunning, closing, task, disk, watchPending, shown, panics, announced, notified, pastDisks>>

\* apply_buffer_changes finds no buffer to edit once a document was rejected.
DidChange(u, v, t) ==
    /\ versions[u] # Absent /\ v > versions[u]
    /\ Budget
    /\ NewEpoch
    /\ versions' = [versions EXCEPT ![u] = v]
    /\ IF documents[u] \in Texts THEN ReplaceBuffer(u, t) ELSE UNCHANGED <<documents, diagnostics>>
    /\ text' = [text EXCEPT ![u] = t]
    /\ scheduling' = scheduling + 1
    /\ UNCHANGED <<workerRunning, closing, task, disk, watchPending, shown, panics, opened, announced, notified, pastDisks>>

DidClose(u) ==
    /\ versions[u] # Absent /\ u \notin closing
    /\ Budget
    /\ NewEpoch
    /\ versions' = [versions EXCEPT ![u] = Absent]
    /\ documents' = [documents EXCEPT ![u] = Absent]
    /\ diagnostics' = [diagnostics EXCEPT ![u] = Absent]
    /\ text' = [text EXCEPT ![u] = Absent]
    /\ closing' = closing \cup {u}
    /\ UNCHANGED <<workerRunning, scheduling, task, disk, watchPending, shown, panics, opened, announced, notified, pastDisks>>

\* The rest of did_close: an unversioned empty publication, then schedule.
CloseNotify(u) ==
    /\ u \in closing
    /\ closing' = closing \ {u}
    /\ shown' = [shown EXCEPT ![u] = Empty]
    /\ scheduling' = scheduling + 1
    /\ UNCHANGED <<session, workerRunning, task, disk, watchPending, panics, history, announced, pastDisks>>

DidChangeWatchedFiles ==
    /\ watchPending
    /\ NewEpoch
    /\ watchPending' = FALSE
    /\ notified' = disk
    /\ scheduling' = scheduling + 1
    /\ UNCHANGED <<documents, diagnostics, versions, workerRunning, closing, task, disk, shown, panics, text, opened,
                   announced, pastDisks>>

-----------------------------------------------------------------------------
(* session::schedule and its worker.                                       *)

\* Mutant: every notification starts its own worker.
Schedule_NotCoalesced ==
    /\ scheduling > 0
    /\ scheduling' = scheduling - 1
    /\ \E w \in Workers :
         /\ task[w].pc = "idle"
         /\ workerRunning' = TRUE
         /\ task' = [task EXCEPT ![w] = [Idle EXCEPT !.pc = "snapshot"]]
    /\ UNCHANGED <<session, closing, disk, watchPending, shown, panics, history, announced, pastDisks>>

Schedule ==
    /\ scheduling > 0
    /\ scheduling' = scheduling - 1
    /\ IF workerRunning
       THEN UNCHANGED <<workerRunning, task>>
       ELSE \E w \in Workers :
              /\ task[w].pc = "idle"
              /\ workerRunning' = TRUE
              /\ task' = [task EXCEPT ![w] = [Idle EXCEPT !.pc = "snapshot"]]
    /\ UNCHANGED <<session, closing, disk, watchPending, shown, panics, history, announced, pastDisks>>

WorkerSnapshot(w) ==
    /\ task[w].pc = "snapshot"
    /\ task' = [task EXCEPT ![w] = [Idle EXCEPT !.pc = "reading", !.epoch = epoch, !.versions = versions,
                                                !.documents = documents]]
    /\ UNCHANGED <<session, workerRunning, scheduling, closing, disk, watchPending, shown, panics, history, announced,
                   pastDisks>>

\* One observation reads each file once, in path order: the first for the
\* analysis, the second to find out whether the first still holds.
ReadFile(t) ==
    /\ \/ /\ task[t].pc = "reading" /\ Len(task[t].first) < NFiles
          /\ task' = [task EXCEPT ![t].first = Append(@, disk[Len(@) + 1]),
                                  ![t].pc = IF Len(task[t].first) + 1 = NFiles THEN "rereading" ELSE "reading"]
       \/ /\ task[t].pc \in {"rereading", "revisiting"} /\ Len(task[t].second) < NFiles
          /\ task' = [task EXCEPT ![t].second = Append(@, disk[Len(@) + 1])]
    /\ UNCHANGED <<session, workerRunning, scheduling, closing, disk, watchPending, shown, panics, history, announced,
                   pastDisks>>

HasReread(t) == Len(task[t].second) = NFiles
Consistent(t) == task[t].first = task[t].second

\* spawn_blocking returns an error when the analysis panics.
WorkerPanics(w) ==
    /\ task[w].pc \in {"reading", "rereading"}
    /\ panics < MaxPanics
    /\ panics' = panics + 1
    /\ IF task[w].epoch # epoch
       THEN /\ task' = [task EXCEPT ![w] = [Idle EXCEPT !.pc = "snapshot"]]
            /\ UNCHANGED workerRunning
       ELSE /\ task' = [task EXCEPT ![w] = Idle]
            /\ workerRunning' = FALSE
    /\ UNCHANGED <<session, scheduling, closing, disk, watchPending, shown, history, announced, pastDisks>>

\* Mutants: the session's epoch, or the second observation, is not compared.
Installable_EpochIgnored(w) == Consistent(w)
Installable_Unchecked(w) == task[w].epoch = epoch

Installable(w) == Consistent(w) /\ task[w].epoch = epoch

InstallAnalysis(w) ==
    /\ task[w].pc = "rereading" /\ HasReread(w)
    /\ Installable(w)
    /\ documents' = task[w].documents
    /\ diagnostics' = [u \in Uris |-> Diagnose(task[w].documents, task[w].first, u)]
    /\ workerRunning' = FALSE
    /\ task' = [task EXCEPT ![w].pc = "publish",
                            ![w].todo = {u \in Uris : task[w].versions[u] # Absent}]
    /\ UNCHANGED <<versions, epoch, scheduling, closing, disk, watchPending, shown, panics, history, announced, pastDisks>>

\* Mutant: a worker whose analysis was overtaken stops instead of looping.
AnalyseAgain_Stops(w) ==
    /\ task[w].pc = "rereading" /\ HasReread(w)
    /\ ~Installable(w)
    /\ task' = [task EXCEPT ![w] = Idle]
    /\ workerRunning' = FALSE
    /\ UNCHANGED <<session, scheduling, closing, disk, watchPending, shown, panics, history, announced, pastDisks>>

AnalyseAgain(w) ==
    /\ task[w].pc = "rereading" /\ HasReread(w)
    /\ ~Installable(w)
    /\ task' = [task EXCEPT ![w] = [Idle EXCEPT !.pc = "snapshot"]]
    /\ UNCHANGED <<session, workerRunning, scheduling, closing, disk, watchPending, shown, panics, history, announced,
                   pastDisks>>

\* The publications go out one by one, in no particular order; each is checked
\* against the epoch first.
CheckPublication(w) ==
    /\ task[w].pc = "publish"
    /\ task' = [task EXCEPT ![w] = IF task[w].epoch # epoch \/ task[w].todo = {}
                                   THEN Idle ELSE [task[w] EXCEPT !.pc = "send"]]
    /\ UNCHANGED <<session, workerRunning, scheduling, closing, disk, watchPending, shown, panics, history, announced,
                   pastDisks>>

\* Mutant: the version is read from the session when the message is sent.
Publication_VersionNow(w, u) ==
    [version |-> versions[u], revision |-> Diagnose(task[w].documents, task[w].first, u)]

Publication(w, u) ==
    [version |-> task[w].versions[u], revision |-> Diagnose(task[w].documents, task[w].first, u)]

\* A client that honours the version drops a publication of another one.
SendPublication(w, u) ==
    /\ task[w].pc = "send" /\ u \in task[w].todo
    /\ task' = [task EXCEPT ![w].pc = "publish", ![w].todo = @ \ {u}]
    /\ shown' = IF versions[u] = Publication(w, u).version
                THEN [shown EXCEPT ![u] = Publication(w, u)] ELSE shown
    /\ announced' = IF task[w].epoch >= announced[u].epoch
                    THEN [announced EXCEPT ![u] = [epoch |-> task[w].epoch, publication |-> Publication(w, u)]] ELSE announced
    /\ UNCHANGED <<session, workerRunning, scheduling, closing, disk, watchPending, panics, history, pastDisks>>

-----------------------------------------------------------------------------
(* session::query.  Every element of Queries is one request.               *)

Answered == [Idle EXCEPT !.pc = "answered"]
Cancelled == [Idle EXCEPT !.pc = "cancelled"]

QueryStart(q, u) ==
    /\ task[q].pc = "idle"
    /\ task' = [task EXCEPT ![q] = [Idle EXCEPT !.pc = "reading", !.uri = u, !.epoch = epoch, !.versions = versions,
                                                !.documents = documents]]
    /\ UNCHANGED <<session, workerRunning, scheduling, closing, disk, watchPending, shown, panics, history, announced,
                   pastDisks>>

\* Mutant: a change elsewhere in the session is taken to be unrelated.
QueryOutcome_AnyEpoch(q) ==
    IF ~Consistent(q) \/ versions[task[q].uri] # task[q].versions[task[q].uri] THEN Cancelled ELSE Answered

\* An inconsistent observation and a changed version cancel the request; a
\* change elsewhere in the session only asks for one more observation.
QueryOutcome(q) ==
    IF ~Consistent(q) \/ versions[task[q].uri] # task[q].versions[task[q].uri] THEN Cancelled
    ELSE IF task[q].epoch = epoch THEN Answered
    ELSE [task[q] EXCEPT !.pc = "revisiting", !.epoch = epoch, !.latest = documents, !.second = <<>>]

QueryChecks(q) ==
    /\ task[q].pc = "rereading" /\ HasReread(q)
    /\ task' = [task EXCEPT ![q] = QueryOutcome(q)]
    /\ UNCHANGED <<session, workerRunning, scheduling, closing, disk, watchPending, shown, panics, history, announced,
                   pastDisks>>

StillCurrent(q) ==
    /\ Revision(task[q].latest, task[q].second, task[q].uri) = Revision(task[q].documents, task[q].first, task[q].uri)
    /\ task[q].epoch = epoch

QueryRevisits(q) ==
    /\ task[q].pc = "revisiting" /\ HasReread(q)
    /\ task' = [task EXCEPT ![q] = IF StillCurrent(q) THEN Answered ELSE Cancelled]
    /\ UNCHANGED <<session, workerRunning, scheduling, closing, disk, watchPending, shown, panics, history, announced,
                   pastDisks>>

QueryPanics(q) ==
    /\ task[q].pc \in {"reading", "rereading", "revisiting"}
    /\ panics < MaxPanics
    /\ panics' = panics + 1
    /\ task' = [task EXCEPT ![q] = Cancelled]
    /\ UNCHANGED <<session, workerRunning, scheduling, closing, disk, watchPending, shown, history, announced, pastDisks>>

-----------------------------------------------------------------------------
(* The workspace on disk changes under the server; the client's watcher    *)
(* reports it some time later.  Every write brings contents of its own: a  *)
(* file does not go back to what it held before.                           *)

WriteFile(f) ==
    /\ disk[f] < MaxWrites /\ epoch < MaxEpoch
    /\ disk' = [disk EXCEPT ![f] = @ + 1]
    /\ pastDisks' = pastDisks \cup {disk'}
    /\ watchPending' = TRUE
    /\ UNCHANGED <<session, workerRunning, scheduling, closing, task, shown, panics, history, announced>>

-----------------------------------------------------------------------------
Init ==
    /\ documents = [u \in Uris |-> Absent] /\ diagnostics = [u \in Uris |-> Absent]
    /\ versions = [u \in Uris |-> Absent] /\ epoch = 0
    /\ workerRunning = FALSE /\ scheduling = 0 /\ closing = {}
    /\ task = [t \in Tasks |-> Idle]
    /\ disk = [f \in Files |-> 0] /\ watchPending = FALSE
    /\ shown = [u \in Uris |-> Empty] /\ panics = 0
    /\ text = [u \in Uris |-> Absent] /\ opened = [u \in Uris |-> 0]
    /\ announced = [u \in Uris |-> [epoch |-> 0, publication |-> Empty]]
    /\ notified = disk /\ pastDisks = {disk}

\* The client edits the documents us with the texts ts.
Client(us, ts) ==
    \/ \E u \in us, v \in OpenVersions, t \in ts : DidOpen(u, v, t)
    \/ \E u \in us, v \in Versions, t \in ts : DidChange(u, v, t)
    \/ \E u \in us : DidClose(u)

WorkerStep(w) ==
    \/ WorkerSnapshot(w) \/ InstallAnalysis(w) \/ AnalyseAgain(w) \/ CheckPublication(w)
    \/ ReadFile(w)
    \/ \E u \in Uris : SendPublication(w, u)

QueryStep(q) ==
    \/ QueryChecks(q) \/ QueryRevisits(q)
    \/ ReadFile(q)

Next ==
    \/ Client(Uris, Texts \cup {Oversized}) \/ Schedule \/ DidChangeWatchedFiles
    \/ \E u \in Uris : CloseNotify(u)
    \/ \E w \in Workers : WorkerStep(w) \/ WorkerPanics(w)
    \/ \E q \in Queries : QueryStep(q) \/ QueryPanics(q) \/ \E u \in Uris : QueryStart(q, u)
    \/ \E f \in Files : WriteFile(f)

\* The runtime polls every spawned task and every handler to completion, and
\* the client delivers the watch notifications it registered for.  Nothing
\* makes the client edit or ask.
Fairness ==
    /\ WF_vars(Schedule) /\ WF_vars(DidChangeWatchedFiles)
    /\ \A u \in Uris : WF_vars(CloseNotify(u))
    /\ \A w \in Workers : WF_vars(WorkerStep(w))

Spec == Init /\ [][Next]_vars
FairSpec == Spec /\ Fairness

-----------------------------------------------------------------------------
(* Properties.                                                             *)

MaybeRevision ==
    {Absent, Rejected} \cup
    UNION {[document : Texts \cup {Absent}, overlays : [Group[u] -> Texts \cup {Absent}],
            files : Disks] : u \in Uris}

\* The session, the tasks and the publications are well formed.
TypeOK ==
    /\ documents \in [Uris -> Texts \cup {Absent, Rejected}]
    /\ versions \in [Uris -> Versions \cup {Absent}]
    /\ \A u \in Uris : diagnostics[u] \in MaybeRevision /\ shown[u].revision \in MaybeRevision
    /\ epoch \in 0..MaxEpoch /\ workerRunning \in BOOLEAN /\ scheduling \in Nat /\ closing \subseteq Uris
    /\ \A t \in Tasks : task[t].pc \in {"idle", "snapshot", "reading", "rereading", "publish", "send", "revisiting",
                                        "answered", "cancelled"}
    /\ disk \in Disks /\ notified \in Disks /\ pastDisks \subseteq Disks /\ panics \in 0..MaxPanics

\* Installing an analysis replaces the whole server state by the worker's
\* older snapshot, yet no edit accepted in the meantime is lost: the buffers
\* are always the texts the client last sent, except that a document above
\* the size limit has no buffer.
EditsAreKept ==
    \A u \in Uris : documents[u] \in Texts \cup {Absent} => documents[u] = text[u]

\* Diagnostic work is coalesced: worker_running says exactly whether one task
\* is between its start and its install, and there is never a second one.
Analysing == {w \in Workers : task[w].pc \in {"snapshot", "reading", "rereading"}}
OneAnalysis == IF workerRunning THEN \E w \in Workers : Analysing = {w} ELSE Analysing = {}

\* The installed diagnostics come from files that were on disk together
\* at one moment, although each file is read on its own while others change.
\* It needs contents that do not come back: the passes compare contents, and
\* files that are changed and restored between two readings look unchanged.
NoTornWorkspace ==
    \A u \in Uris : diagnostics[u] \notin {Absent, Rejected} => diagnostics[u].files \in pastDisks

\* A publication shown under the document's present version was computed from
\* the text of that version, unless it dates from before the document was last
\* opened or the document is over the limit.
ShownTextIsVersioned ==
    \A u \in Uris :
        (/\ shown[u].version # Absent /\ shown[u].version = versions[u]
         /\ announced[u].publication = shown[u] /\ announced[u].epoch >= opened[u]
         /\ documents[u] \in Texts)
        => shown[u].revision.document = text[u]

\* A query answers only from the buffers as they are at that moment, and from
\* files that were on disk together and are at least as new as the last watch
\* notification the session handled.
AnswersAreCurrent ==
    [][\A q \in Queries :
         (task[q].pc # "answered" /\ task'[q].pc = "answered") =>
            LET u == task[q].uri IN
            /\ Overlay(documents, u) = Overlay(task[q].documents, u)
            /\ \A f \in Group[u] : Overlay(documents, f) = Overlay(task[q].documents, f)
            /\ task[q].first \in pastDisks
            /\ \A f \in Files : task[q].first[f] >= notified[f]]_vars

\* Once the client stops, every open document ends up with installed
\* diagnostics, and with a publication of the newest epoch, for exactly its
\* present text, overlays, files and version (when no analysis panicked).
UpToDate(u) ==
    /\ diagnostics[u] = Diagnose(documents, disk, u)
    /\ announced[u].publication = [version |-> versions[u], revision |-> diagnostics[u]]
DiagnosticsSettle ==
    <>[](panics > 0 \/ \A u \in Uris : versions[u] # Absent => UpToDate(u))

\* What the client ends up showing for an open document is its newest state.
\* An older worker's publication may overtake a newer one's: it does not hold.
ShownSettles ==
    <>[](panics > 0 \/ \A u \in Uris : versions[u] # Absent => shown[u].revision = Diagnose(documents, disk, u))
=============================================================================
