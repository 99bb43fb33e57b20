---------------------------- MODULE CompileCache ----------------------------
(***************************************************************************)
(* The persistent compile cache .cell/build/cache (src/compile_cache.rs)   *)
(* and the compile and build commands around it.  Several processes of one *)
(* package look entries up, store, touch and evict them with no lock: an   *)
(* entry is a directory that is visible from its creation, filled file by  *)
(* file, read file by file and removed file by file.                       *)
(*                                                                         *)
(* The source set of the package is a pair <<text, stamp>>: what the       *)
(* artifact is made of, and the build recorded in Cell.lock.  A cache key  *)
(* is such a pair; a text stands for its artifact, and for what the        *)
(* metadata and the lowering record say of that artifact.  A file that is  *)
(* created and not yet written holds the name of its writer.               *)
(***************************************************************************)
EXTENDS Integers, Sequences, FiniteSets

CONSTANTS
    Procs,        \* compiler processes
    Texts,        \* what the sources may say
    Lanes,        \* the cache limits, and the bounds explored under each
    Steady,       \* TRUE: sources are edited only while nothing compiles
    None          \* no build recorded, no result yet

ASSUME CompileCacheAssumption ==
    /\ \A l \in Lanes :
         /\ l.limit \in Nat \ {0}      \* incremental_cache_max_entries
         /\ l.overlap \in BOOLEAN      \* bound: may processes overlap?
         /\ l.builds \in Nat           \* bound: compilations started
         /\ l.edits \in Nat            \* bound: edits of the sources
         /\ l.faults \in Nat           \* bound: processes killed and writes that fail
    /\ None \notin Texts \cup Procs /\ Texts \cap Procs = {}
    /\ (Texts \X (Texts \cup {None})) \cap Procs = {}
    /\ Steady \in BOOLEAN

VARIABLES
    lane,         \* the limit and the bounds, fixed at the start
    text,         \* the sources on disk
    stamp,        \* the build recorded in Cell.lock
    dirs,         \* key -> file name -> content
    order,        \* the entries' keys, least recently touched first
    proc,         \* the processes
    used,         \* history: keys by their last hit or store
    disturbed,    \* history: processes overlapped or one was killed
    builds, edits, faults

vars == <<lane, text, stamp, dirs, order, proc, used, disturbed, builds, edits, faults>>

Keys == Texts \X (Texts \cup {None})

\* The files of an entry in the order they are written; lowering stands for
\* lowering.json and sourcemap.json.
Files == <<"artifact", "metadata", "source_hash", "last_used", "lowering">>

\* What a lookup reads, in its order.
Reads == <<"source_hash", "artifact", "metadata", "lowering">>

Idle == [pc |-> "idle", key |-> None, art |-> None, seen |-> <<>>, goal |-> "compile",
         at |-> 0, victims |-> <<>>, todo |-> {}]

Init ==
    /\ lane \in Lanes
    /\ text \in Texts
    /\ stamp = None
    /\ dirs = <<>>
    /\ order = <<>>
    /\ proc = [p \in Procs |-> Idle]
    /\ used = <<>>
    /\ disturbed = FALSE
    /\ builds = 0 /\ edits = 0 /\ faults = 0

Quiet == \A p \in Procs : proc[p] = Idle

\* The sequence s, in which k occurs at most once, without k.
Drop(s, k) ==
    IF \E i \in 1..Len(s) : s[i] = k
    THEN LET i == CHOOSE i \in 1..Len(s) : s[i] = k
         IN  [j \in 1..(Len(s) - 1) |-> IF j < i THEN s[j] ELSE s[j + 1]]
    ELSE s

MoveToEnd(s, k) == Append(Drop(s, k), k)
Without(f, k) == [x \in DOMAIN f \ {k} |-> f[x]]
With(f, k, v) == [x \in DOMAIN f \cup {k} |-> IF x = k THEN v ELSE f[x]]

Exists(k) == k \in DOMAIN dirs
Holds(k, f) == Exists(k) /\ f \in DOMAIN dirs[k]

Updated(r, changes) == [x \in DOMAIN r |-> IF x \in DOMAIN changes THEN changes[x] ELSE r[x]]
Step(p, changes) == proc' = [proc EXCEPT ![p] = Updated(@, changes)]
At(p, pc) == proc[p].pc = pc
Goto(pc) == [pc |-> pc]

OnDisk == <<dirs, order>>
Sources == <<text, stamp>>
Bounds == <<lane, builds, edits, faults>>

-----------------------------------------------------------------------------
(* compile_file_with_entry_scope_inner *)

\* The sources are hashed: source units, manifest and Cell.lock.
Start(p) ==
    /\ At(p, "idle") /\ builds < lane.builds
    /\ lane.overlap \/ Quiet
    /\ builds' = builds + 1
    /\ disturbed' = (disturbed \/ ~Quiet)
    /\ Step(p, [pc |-> "lookup", key |-> <<text, stamp>>])
    /\ UNCHANGED <<Sources, OnDisk, used, lane, edits, faults>>

\* incremental_cache_result: the entry and three of its files must be there.
Lookup(p) ==
    /\ At(p, "lookup")
    /\ LET k == proc[p].key
       IN  Step(p, Goto(IF \A f \in {"artifact", "metadata", "source_hash"} : Holds(k, f)
                        THEN "read" ELSE "load"))
    /\ UNCHANGED <<Sources, OnDisk, used, disturbed, Bounds>>

\* Mutant of Acceptable: the result is not validated.
Acceptable_Unchecked(k, seen) ==
    Len(seen) >= 1 => seen[1] = k

\* What was read so far may still be a hit: the hash is that of the key, the
\* metadata and the lowering record parse, and validate finds that both
\* describe the artifact.
Acceptable(k, seen) ==
    /\ Len(seen) >= 1 => seen[1] = k
    /\ Len(seen) >= 3 => seen[3] \notin Procs /\ (Len(seen) = 4 => seen[2] = seen[3] /\ seen[4] = seen[3])

ReadFile(p) ==
    /\ At(p, "read")
    /\ LET k == proc[p].key
           f == Reads[Len(proc[p].seen) + 1]
           seen == Append(proc[p].seen, dirs[k][f])
       IN  IF ~Holds(k, f) \/ ~Acceptable(k, seen)
           THEN Step(p, [pc |-> "load", seen |-> <<>>])
           ELSE Step(p, IF Len(seen) < 4 THEN [seen |-> seen]
                        ELSE [pc |-> "touch", seen |-> <<>>, art |-> seen[2]])
    /\ UNCHANGED <<Sources, OnDisk, used, disturbed, Bounds>>

\* Mutant of Touched: a hit leaves the recency marker alone.
Touched_Not(k) == UNCHANGED OnDisk

\* refresh_incremental_cache_recency; it gives up when the entry is gone.
Touched(k) ==
    IF Exists(k)
    THEN /\ dirs' = [dirs EXCEPT ![k] = With(@, "last_used", None)]
         /\ order' = MoveToEnd(order, k)
    ELSE UNCHANGED OnDisk

Touch(p) ==
    /\ At(p, "touch")
    /\ Touched(proc[p].key)
    /\ used' = MoveToEnd(used, proc[p].key)
    /\ Step(p, Goto("prune"))
    /\ UNCHANGED <<Sources, disturbed, Bounds>>

\* load_project_for_entry reads the sources again, and they are compiled.
Load(p) ==
    /\ At(p, "load")
    /\ Step(p, [pc |-> "make", art |-> text])
    /\ UNCHANGED <<Sources, OnDisk, used, disturbed, Bounds>>

-----------------------------------------------------------------------------
(* incremental_cache_store *)

\* After a store, a discarded store or a pruned cache: the compilation's result
\* is ready, or the refreshing build is over.
Continue(p) == IF proc[p].goal = "compile" THEN [pc |-> "result", victims |-> <<>>] ELSE Idle

\* create_dir: an entry that exists is left as it is.
Make(p) ==
    /\ At(p, "make")
    /\ LET k == proc[p].key
       IN  IF Exists(k)
           THEN /\ Step(p, Continue(p))
                /\ UNCHANGED OnDisk
           ELSE /\ dirs' = With(dirs, k, <<>>)
                /\ order' = MoveToEnd(order, k)
                /\ Step(p, [pc |-> "open", at |-> 1])
    /\ UNCHANGED <<Sources, used, disturbed, Bounds>>

\* Mutant of Creatable: an existing file is opened and truncated.
Creatable_Any(k, f) == Exists(k)

\* create_new needs the directory, and no file of that name.
Creatable(k, f) == Exists(k) /\ f \notin DOMAIN dirs[k]

\* A directory without its recency marker is as recent as its last new file.
Open(p) ==
    /\ At(p, "open")
    /\ LET k == proc[p].key
           f == Files[proc[p].at]
       IN  IF Creatable(k, f)
           THEN /\ dirs' = [dirs EXCEPT ![k] = With(@, f, p)]
                /\ order' = IF proc[p].at <= 4 THEN MoveToEnd(order, k) ELSE order
                /\ Step(p, Goto("write"))
           ELSE /\ Step(p, [pc |-> "remove", victims |-> <<k>>])
                /\ UNCHANGED OnDisk
    /\ UNCHANGED <<Sources, used, disturbed, Bounds>>

Content(p, f) ==
    IF f = "source_hash" THEN proc[p].key ELSE IF f = "last_used" THEN None ELSE proc[p].art

\* The bytes go to the file this process created, wherever it is by now.  A
\* failed write discards the entry.
Write(p) ==
    /\ At(p, "write")
    /\ LET k == proc[p].key
           f == Files[proc[p].at]
       IN  /\ \/ /\ dirs' = IF Holds(k, f) /\ dirs[k][f] = p
                            THEN [dirs EXCEPT ![k][f] = Content(p, f)] ELSE dirs
                 /\ IF proc[p].at < Len(Files)
                    THEN Step(p, [pc |-> "open", at |-> proc[p].at + 1]) /\ UNCHANGED used
                    ELSE Step(p, [pc |-> "prune", at |-> 0]) /\ used' = MoveToEnd(used, k)
                 /\ UNCHANGED <<disturbed, faults>>
              \/ /\ faults < lane.faults
                 /\ faults' = faults + 1
                 /\ disturbed' = TRUE
                 /\ Step(p, [pc |-> "remove", at |-> 0, victims |-> <<k>>])
                 /\ UNCHANGED <<dirs, used>>
    /\ UNCHANGED <<Sources, order, lane, builds, edits>>

-----------------------------------------------------------------------------
(* prune_incremental_cache_entries *)

\* All but the current entry and the most recent others, newest first.
Victims(k) ==
    LET others == Drop(order, k)
        n == Len(others) - (lane.limit - 1)
    IN  [i \in 1..n |-> others[n + 1 - i]]

List(p) ==
    /\ At(p, "prune")
    /\ Step(p, [pc |-> "remove", victims |-> Victims(proc[p].key)])
    /\ UNCHANGED <<Sources, OnDisk, used, disturbed, Bounds>>

\* remove_dir_all of the next victim, if it is there: its files are listed.
RemoveEntry(p) ==
    /\ At(p, "remove")
    /\ LET v == proc[p].victims
       IN  IF v = <<>> THEN Step(p, Continue(p))
           ELSE IF Exists(Head(v)) THEN Step(p, [pc |-> "unlink", todo |-> DOMAIN dirs[Head(v)]])
           ELSE Step(p, [victims |-> Tail(v)])
    /\ UNCHANGED <<Sources, OnDisk, used, disturbed, Bounds>>

\* The listed files go one by one; an entry that lost its recency marker is as
\* recent as this change of the directory.
Unlink(p) ==
    /\ At(p, "unlink")
    /\ LET k == Head(proc[p].victims)
       IN  \E f \in proc[p].todo :
             /\ Step(p, [todo |-> proc[p].todo \ {f}])
             /\ IF Holds(k, f)
                THEN /\ dirs' = [dirs EXCEPT ![k] = Without(@, f)]
                     /\ order' = IF "last_used" \in DOMAIN dirs'[k] THEN order ELSE MoveToEnd(order, k)
                ELSE UNCHANGED OnDisk
    /\ UNCHANGED <<Sources, used, disturbed, Bounds>>

\* rmdir, which fails if a file was created in the meantime.
Rmdir(p) ==
    /\ At(p, "unlink") /\ proc[p].todo = {}
    /\ LET k == Head(proc[p].victims)
       IN  /\ IF Exists(k) /\ DOMAIN dirs[k] = {}
              THEN /\ dirs' = Without(dirs, k)
                   /\ order' = Drop(order, k)
              ELSE UNCHANGED OnDisk
           /\ Step(p, [pc |-> "remove", victims |-> Tail(proc[p].victims)])
    /\ UNCHANGED <<Sources, used, disturbed, Bounds>>

-----------------------------------------------------------------------------
(* The commands, and the world around them. *)

\* A compile or check command ends with its result, any command with the errors
\* of the sources, which are never stored.
End(p) ==
    /\ At(p, "load") \/ At(p, "result")
    /\ Step(p, Idle)
    /\ UNCHANGED <<Sources, OnDisk, used, disturbed, Bounds>>

\* A build records its result in Cell.lock ...
Stamp(p) ==
    /\ At(p, "result")
    /\ stamp' = proc[p].art
    /\ Step(p, Goto("refresh"))
    /\ UNCHANGED <<text, OnDisk, used, disturbed, Bounds>>

\* ... and refresh_incremental_cache_for_input files it under the sources, and
\* the Cell.lock, that it finds now.
Refresh(p) ==
    /\ At(p, "refresh")
    /\ Step(p, [pc |-> "make", goal |-> "refresh", key |-> <<text, stamp>>])
    /\ UNCHANGED <<Sources, OnDisk, used, disturbed, Bounds>>

\* The developer edits the sources.
Edit ==
    /\ edits < lane.edits /\ (Steady => Quiet)
    /\ edits' = edits + 1
    /\ text' \in Texts \ {text}
    /\ UNCHANGED <<stamp, OnDisk, proc, used, disturbed, lane, builds, faults>>

Crash(p) ==
    /\ ~At(p, "idle") /\ faults < lane.faults
    /\ faults' = faults + 1
    /\ disturbed' = TRUE
    /\ Step(p, Idle)
    /\ UNCHANGED <<Sources, OnDisk, used, lane, builds, edits>>

Next ==
    \/ Edit
    \/ \E p \in Procs :
         \/ Start(p) \/ Lookup(p) \/ ReadFile(p) \/ Touch(p) \/ Load(p)
         \/ Make(p) \/ Open(p) \/ Write(p)
         \/ List(p) \/ RemoveEntry(p) \/ Unlink(p) \/ Rmdir(p)
         \/ End(p) \/ Stamp(p) \/ Refresh(p) \/ Crash(p)

Spec == Init /\ [][Next]_vars

-----------------------------------------------------------------------------
\* Whatever other processes store, evict or leave behind, a hit and a fresh
\* compilation return the artifact of the sources that were hashed.
ResultIsOfTheseSources ==
    \A p \in Procs : proc[p].pc \in {"touch", "result"} => proc[p].art = proc[p].key[1]

\* A hit returns the artifact of the sources that were hashed, although they
\* may be edited at any time.  The code does not keep this.
HitIsOfTheseSources ==
    \A p \in Procs : At(p, "touch") => proc[p].art = proc[p].key[1]

Complete(k) == DOMAIN dirs[k] = {Files[i] : i \in DOMAIN Files} /\ \A f \in DOMAIN dirs[k] : dirs[k][f] \notin Procs

\* Once nothing runs, and no process was killed, the cache is within its limit,
\* although every process prunes for itself; builds that do not overlap leave
\* exactly the most recently used entries, and every one of them complete.
KeepsMostRecent ==
    Quiet =>
        /\ faults = 0 => Cardinality(DOMAIN dirs) <= lane.limit
        /\ ~disturbed =>
             /\ DOMAIN dirs = {used[i] : i \in {j \in DOMAIN used : j > Len(used) - lane.limit}}
             /\ \A k \in DOMAIN dirs : Complete(k)

\* A file that was written is never written again, by whatever process, until
\* it is removed; only the recency marker is replaced.
NeverOverwritten ==
    [][\A k \in DOMAIN dirs \cap DOMAIN dirs' :
         \A f \in DOMAIN dirs[k] \cap DOMAIN dirs'[k] :
             dirs[k][f] \notin Procs => dirs'[k][f] = dirs[k][f]]_vars
=============================================================================
