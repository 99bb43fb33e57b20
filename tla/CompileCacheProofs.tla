------------------------- MODULE CompileCacheProofs -------------------------
(***************************************************************************)
(* Proofs about CompileCache: what a hit or a compilation returns belongs  *)
(* to the sources that were hashed; a file of the cache that was written   *)
(* is not written again; and once nothing runs the cache is within its     *)
(* limit and, after builds in sequence, holds the most recently used       *)
(* entries. For any number of processes, sources, limits, kills and failed *)
(* writes.                                                                 *)
(***************************************************************************)
EXTENDS CompileCache, TLAPS

Fields == {"pc", "key", "art", "seen", "goal", "at", "victims", "todo"}

\* The artifacts a key may stand for: while nothing compiles as the sources
\* are edited, only the one of its text.
ArtifactsOf(k) == IF Steady THEN {k[1]} ELSE Texts

\* What a file of an entry may hold: the name of its writer until it is
\* written, and then what belongs to the key.
Allowed(k, f) ==
    Procs \cup IF f = "source_hash" THEN {k} ELSE IF f = "last_used" THEN {None} ELSE ArtifactsOf(k)

DirsOK(d) ==
    /\ DOMAIN d \subseteq Keys
    /\ \A k \in DOMAIN d : \A f \in DOMAIN d[k] : d[k][f] \in Allowed(k, f)

Contents == Procs \cup Keys \cup Texts \cup {None}

HasArtifact == {"touch", "make", "open", "write", "prune", "remove", "unlink", "result", "refresh"}

\* A process: it knows the key from the start, and an artifact of the key once
\* it has read or made one.  A lookup underway has read an artifact of the key,
\* or a file that was not written yet.
ProcOK(r, tx) ==
    /\ DOMAIN r = Fields
    /\ r.pc # "idle" => r.key \in Keys /\ (Steady => r.key[1] = tx)
    /\ r.pc \in HasArtifact => r.art \in ArtifactsOf(r.key)
    /\ r.pc \in {"idle", "lookup"} => r.seen = <<>>
    /\ r.pc = "read" =>
         /\ r.seen \in Seq(Contents) /\ Len(r.seen) <= 3
         /\ Len(r.seen) >= 2 => r.seen[2] \in Procs \cup ArtifactsOf(r.key)

CacheInv ==
    /\ text \in Texts /\ stamp \in Texts \cup {None}
    /\ DirsOK(dirs)
    /\ DOMAIN proc = Procs
    /\ \A p \in Procs : ProcOK(proc[p], text)

\* No file that was written differs.
Kept(d, e) ==
    \A k \in DOMAIN d \cap DOMAIN e :
        \A f \in DOMAIN d[k] \cap DOMAIN e[k] : d[k][f] \notin Procs => e[k][f] = d[k][f]

-----------------------------------------------------------------------------
(* Changes of the cache directory. *)

LEMMA WithFacts ==
    ASSUME NEW f, NEW k, NEW v
    PROVE  /\ DOMAIN With(f, k, v) = DOMAIN f \cup {k}
           /\ With(f, k, v)[k] = v
           /\ \A x \in DOMAIN f : x # k => With(f, k, v)[x] = f[x]
  BY DEF With

LEMMA WithoutFacts ==
    ASSUME NEW f, NEW k
    PROVE  /\ DOMAIN Without(f, k) = DOMAIN f \ {k}
           /\ \A x \in DOMAIN f \ {k} : Without(f, k)[x] = f[x]
  BY DEF Without

LEMMA NothingChanges ==
    ASSUME NEW d, DirsOK(d)
    PROVE  DirsOK(d) /\ Kept(d, d)
  BY DEF Kept

\* e is d with v in the file f of the entry k.
FileSet(d, e, k, f, v) ==
    /\ DOMAIN e = DOMAIN d /\ \A x \in DOMAIN d : x # k => e[x] = d[x]
    /\ DOMAIN e[k] = DOMAIN d[k] \cup {f} /\ e[k][f] = v
    /\ \A x \in DOMAIN d[k] : x # f => e[k][x] = d[k][x]

\* The value may be set: the file is new, not yet written, or holds it already.
MaySet(d, k, f, v) == f \in DOMAIN d[k] /\ d[k][f] \notin Procs => v = d[k][f]

LEMMA FileChanges ==
    ASSUME NEW d, DirsOK(d), NEW k \in DOMAIN d, NEW f, NEW v \in Allowed(k, f), MaySet(d, k, f, v),
           NEW e, FileSet(d, e, k, f, v)
    PROVE  DirsOK(e) /\ Kept(d, e)
<1> USE DEF FileSet, MaySet
<1>1. ASSUME NEW j \in DOMAIN e, NEW g \in DOMAIN e[j]
      PROVE  e[j][g] \in Allowed(j, g)
  BY Zenon, <1>1 DEF DirsOK
<1>2. ASSUME NEW j \in DOMAIN d, NEW g \in DOMAIN d[j], d[j][g] \notin Procs
      PROVE  e[j][g] = d[j][g]
  BY Zenon, <1>2
<1> QED BY Zenon, <1>1, <1>2 DEF DirsOK, Kept

LEMMA FileRemoved ==
    ASSUME NEW d, DirsOK(d), NEW k \in DOMAIN d, NEW f,
           NEW e, e = [d EXCEPT ![k] = Without(@, f)]
    PROVE  DirsOK(e) /\ Kept(d, e)
<1>1. /\ DOMAIN e = DOMAIN d /\ e[k] = Without(d[k], f)
      /\ \A x \in DOMAIN d : x # k => e[x] = d[x]
  OBVIOUS
<1>2. /\ DOMAIN e[k] = DOMAIN d[k] \ {f}
      /\ \A x \in DOMAIN e[k] : e[k][x] = d[k][x]
  BY <1>1 DEF Without
<1> QED BY <1>1, <1>2 DEF DirsOK, Kept

LEMMA EntryMade ==
    ASSUME NEW d, DirsOK(d), NEW k \in Keys, k \notin DOMAIN d, NEW e, e = With(d, k, <<>>)
    PROVE  DirsOK(e) /\ Kept(d, e)
<1>1. /\ DOMAIN e = DOMAIN d \cup {k} /\ e[k] = <<>>
      /\ \A x \in DOMAIN d : x # k => e[x] = d[x]
  BY DEF With
<1>2. DOMAIN e[k] = {}
  BY <1>1
<1> HIDE DEF Keys
<1> QED BY <1>1, <1>2 DEF DirsOK, Kept

LEMMA EntryRemoved ==
    ASSUME NEW d, DirsOK(d), NEW k, NEW e, e = Without(d, k)
    PROVE  DirsOK(e) /\ Kept(d, e)
<1>1. DOMAIN e = DOMAIN d \ {k} /\ \A x \in DOMAIN e : e[x] = d[x]
  BY WithoutFacts
<1> QED BY Zenon, <1>1 DEF DirsOK, Kept

-----------------------------------------------------------------------------
(* Steps of a process. *)

\* s is r with another pc; only goal, at, victims and todo may differ besides.
Moved(r, s, v) ==
    DOMAIN s = Fields /\ s.pc = v /\ s.key = r.key /\ s.art = r.art /\ s.seen = r.seen

LEMMA Moves ==
    ASSUME NEW r, DOMAIN r = Fields, NEW v, NEW a, NEW b
    PROVE  /\ Moved(r, Updated(r, Goto(v)), v)
           /\ Moved(r, Updated(r, [pc |-> v, at |-> a]), v)
           /\ Moved(r, Updated(r, [pc |-> v, victims |-> a]), v)
           /\ Moved(r, Updated(r, [pc |-> v, at |-> a, victims |-> b]), v)
           /\ Moved(r, Updated(r, [pc |-> v, todo |-> a]), v)
           /\ Moved(r, Updated(r, [victims |-> a]), r.pc)
           /\ Moved(r, Updated(r, [todo |-> a]), r.pc)
<1>1. Moved(r, Updated(r, Goto(v)), v)
  BY DEF Moved, Updated, Fields, Goto
<1>2. Moved(r, Updated(r, [pc |-> v, at |-> a]), v)
  BY DEF Moved, Updated, Fields
<1>3. Moved(r, Updated(r, [pc |-> v, victims |-> a]), v)
  BY DEF Moved, Updated, Fields
<1>4. Moved(r, Updated(r, [pc |-> v, at |-> a, victims |-> b]), v)
  BY DEF Moved, Updated, Fields
<1>5. Moved(r, Updated(r, [pc |-> v, todo |-> a]), v)
  BY DEF Moved, Updated, Fields
<1>6. Moved(r, Updated(r, [victims |-> a]), r.pc)
  BY DEF Moved, Updated, Fields
<1>7. Moved(r, Updated(r, [todo |-> a]), r.pc)
  BY DEF Moved, Updated, Fields
<1> QED BY Zenon, <1>1, <1>2, <1>3, <1>4, <1>5, <1>6, <1>7

\* The steps after a result is there keep it.
LEMMA MovedOK ==
    ASSUME NEW r, NEW tx, ProcOK(r, tx), NEW s, NEW v \in HasArtifact, Moved(r, s, v), r.pc \in HasArtifact
    PROVE  ProcOK(s, tx)
<1>1. r.pc # "idle" /\ v # "idle" /\ v \notin {"idle", "lookup"} /\ v # "read"
  BY DEF HasArtifact
<1> QED BY Zenon, <1>1 DEF ProcOK, Moved

LEMMA IdleOK ==
    ASSUME NEW r, NEW tx, DOMAIN r = Fields
    PROVE  ProcOK(Updated(r, Idle), tx) /\ ProcOK(Idle, tx)
<1> DEFINE s == Updated(r, Idle)
<1>1. DOMAIN Idle = Fields /\ Idle.pc = "idle" /\ Idle.seen = <<>>
  BY DEF Idle, Fields
<1>2. DOMAIN s = Fields /\ s.pc = Idle.pc /\ s.seen = Idle.seen
  BY <1>1 DEF Updated, Fields
<1>3. "idle" \notin HasArtifact
  BY DEF HasArtifact
<1> QED BY <1>1, <1>2, <1>3 DEF ProcOK

\* A step of one process that keeps the sources.
LEMMA OneProcess ==
    ASSUME CacheInv, NEW p \in Procs, NEW c, Step(p, c), ProcOK(Updated(proc[p], c), text),
           text' = text, stamp' \in Texts \cup {None}, DirsOK(dirs') /\ Kept(dirs, dirs')
    PROVE  CacheInv' /\ Kept(dirs, dirs')
<1>1. DOMAIN proc' = Procs /\ proc'[p] = Updated(proc[p], c) /\ \A q \in Procs : q # p => proc'[q] = proc[q]
  BY DEF Step, CacheInv
<1>2. \A q \in Procs : ProcOK(proc'[q], text')
  BY Zenon, <1>1 DEF CacheInv
<1> QED BY Zenon, <1>1, <1>2 DEF CacheInv

LEMMA Here ==
    ASSUME CacheInv, NEW p \in Procs
    PROVE  ProcOK(proc[p], text) /\ DOMAIN proc[p] = Fields
  BY Zenon DEF CacheInv, ProcOK

\* ... and the cache directory and Cell.lock too.
LEMMA OnlyProcess ==
    ASSUME CacheInv, NEW p \in Procs, NEW c, Step(p, c), ProcOK(Updated(proc[p], c), text),
           UNCHANGED <<Sources, OnDisk>>
    PROVE  CacheInv' /\ Kept(dirs, dirs')
<1>1. text' = text /\ stamp' = stamp /\ dirs' = dirs
  BY DEF Sources, OnDisk
<1>2. DirsOK(dirs) /\ Kept(dirs, dirs) /\ stamp \in Texts \cup {None}
  BY Zenon, NothingChanges DEF CacheInv
<1>3. DirsOK(dirs') /\ Kept(dirs, dirs') /\ stamp' \in Texts \cup {None}
  BY Zenon, <1>1, <1>2
<1> QED BY Zenon, <1>1, <1>3, OneProcess

LEMMA StepStart ==
    ASSUME CacheInv, NEW p \in Procs, Start(p)
    PROVE  CacheInv' /\ Kept(dirs, dirs')
<1> DEFINE r == proc[p]
           c == [pc |-> "lookup", key |-> <<text, stamp>>]
           s == Updated(r, c)
<1>1. Step(p, c) /\ UNCHANGED <<Sources, OnDisk>> /\ r.pc = "idle"
  BY DEF Start, At
<1>2. DOMAIN s = Fields /\ s.pc = "lookup" /\ s.key = <<text, stamp>> /\ s.seen = r.seen
  BY Here DEF Updated, Fields
<1>3. r.seen = <<>>
  BY Zenon, <1>1, Here DEF ProcOK
<1>4. <<text, stamp>> \in Keys /\ <<text, stamp>>[1] = text
  BY DEF CacheInv, Keys
<1>5. "lookup" \notin HasArtifact
  BY DEF HasArtifact
<1>6. ProcOK(s, text)
  <2> HIDE DEF s
  <2> QED BY <1>2, <1>3, <1>4, <1>5 DEF ProcOK
<1> QED BY Zenon, <1>1, <1>6, OnlyProcess

LEMMA StepLookup ==
    ASSUME CacheInv, NEW p \in Procs, Lookup(p)
    PROVE  CacheInv' /\ Kept(dirs, dirs')
<1> DEFINE r == proc[p]
<1>1. PICK v \in {"read", "load"} : Step(p, Goto(v)) /\ UNCHANGED <<Sources, OnDisk>> /\ r.pc = "lookup"
  BY DEF Lookup, At
<1> DEFINE s == Updated(r, Goto(v))
<1>2. Moved(r, s, v)
  BY Zenon, Here, Moves
<1>3. r.key \in Keys /\ (Steady => r.key[1] = text) /\ r.seen = <<>>
  BY <1>1, Here DEF ProcOK
<1>4. v \notin HasArtifact /\ v \notin {"idle", "lookup"}
  BY DEF HasArtifact
<1>5. <<>> \in Seq(Contents) /\ Len(<<>>) = 0 /\ Len(<<>>) <= 3 /\ ~(Len(<<>>) >= 2)
  OBVIOUS
<1>6. ProcOK(s, text)
  <2> HIDE DEF s
  <2> QED BY Zenon, <1>2, <1>3, <1>4, <1>5 DEF ProcOK, Moved
<1> QED BY Zenon, <1>1, <1>6, OnlyProcess

LEMMA StepLoad ==
    ASSUME CacheInv, NEW p \in Procs, Load(p)
    PROVE  CacheInv' /\ Kept(dirs, dirs')
<1> DEFINE r == proc[p]
           c == [pc |-> "make", art |-> text]
           s == Updated(r, c)
<1>1. Step(p, c) /\ UNCHANGED <<Sources, OnDisk>> /\ r.pc = "load"
  BY DEF Load, At
<1>2. DOMAIN s = Fields /\ s.pc = "make" /\ s.key = r.key /\ s.art = text
  BY Here DEF Updated, Fields
<1>3. r.key \in Keys /\ (Steady => r.key[1] = text)
  BY <1>1, Here DEF ProcOK
<1>4. text \in ArtifactsOf(r.key)
  BY <1>3 DEF ArtifactsOf, CacheInv
<1>5. ProcOK(s, text)
  <2> HIDE DEF s
  <2> QED BY <1>2, <1>3, <1>4 DEF ProcOK
<1> QED BY Zenon, <1>1, <1>5, OnlyProcess

LEMMA StepRefresh ==
    ASSUME CacheInv, NEW p \in Procs, Refresh(p)
    PROVE  CacheInv' /\ Kept(dirs, dirs')
<1> DEFINE r == proc[p]
           c == [pc |-> "make", goal |-> "refresh", key |-> <<text, stamp>>]
           s == Updated(r, c)
<1>1. Step(p, c) /\ UNCHANGED <<Sources, OnDisk>> /\ r.pc = "refresh"
  BY DEF Refresh, At
<1>2. DOMAIN s = Fields /\ s.pc = "make" /\ s.key = <<text, stamp>> /\ s.art = r.art
  BY Here DEF Updated, Fields
<1>3. (Steady => r.key[1] = text) /\ r.art \in ArtifactsOf(r.key)
  BY <1>1, Here DEF ProcOK, HasArtifact
<1>4. <<text, stamp>> \in Keys /\ <<text, stamp>>[1] = text
  BY DEF CacheInv, Keys
<1>5. r.art \in ArtifactsOf(<<text, stamp>>)
  BY <1>3, <1>4 DEF ArtifactsOf
<1>6. ProcOK(s, text)
  <2> HIDE DEF s
  <2> QED BY <1>2, <1>4, <1>5 DEF ProcOK
<1> QED BY Zenon, <1>1, <1>6, OnlyProcess

LEMMA Lengths == \A S : \A x \in Seq(S) : Len(x) \in Nat
  OBVIOUS

LEMMA UpToThree == \A n \in Nat : n <= 3 => n = 0 \/ n = 1 \/ n = 2 \/ n = 3
  OBVIOUS

LEMMA Appended ==
    ASSUME NEW S, NEW x \in Seq(S), NEW v \in S
    PROVE  /\ Append(x, v) \in Seq(S) /\ Len(x) \in Nat /\ Len(Append(x, v)) = Len(x) + 1
           /\ \A i \in 1..(Len(x) + 1) : Append(x, v)[i] = IF i = Len(x) + 1 THEN v ELSE x[i]
  OBVIOUS

\* What a lookup accepts after its last file is an artifact of the key.
LEMMA Validated ==
    ASSUME NEW k, NEW old \in Seq(Contents), Len(old) = 3, NEW v \in Contents,
           Acceptable(k, Append(old, v)), old[2] \in Procs \cup ArtifactsOf(k)
    PROVE  Append(old, v)[2] \in ArtifactsOf(k)
<1>1. PICK new : new = Append(old, v)
  BY Zenon
<1>2. Len(new) = 3 + 1 /\ \A i \in 1..(3 + 1) : new[i] = IF i = 3 + 1 THEN v ELSE old[i]
  BY Z3T(30), <1>1, Appended
<1>3. Len(new) = 4 /\ new[2] = old[2]
  BY <1>2
<1>4. Acceptable(k, new)
  BY Zenon, <1>1
<1>5. new[3] \notin Procs /\ new[2] = new[3]
  BY <1>3, <1>4 DEF Acceptable
<1> QED BY Zenon, <1>1, <1>3, <1>5

LEMMA StepReadFile ==
    ASSUME CacheInv, NEW p \in Procs, ReadFile(p)
    PROVE  CacheInv' /\ Kept(dirs, dirs')
<1> DEFINE r == proc[p]
           k == r.key
           f == Reads[Len(r.seen) + 1]
           new == Append(r.seen, dirs[k][f])
<1>1. UNCHANGED <<Sources, OnDisk>> /\ r.pc = "read"
  BY DEF ReadFile, At
<1>2. /\ k \in Keys /\ (Steady => k[1] = text) /\ r.seen \in Seq(Contents) /\ Len(r.seen) <= 3
      /\ Len(r.seen) >= 2 => r.seen[2] \in Procs \cup ArtifactsOf(k)
  <2>1. r.pc # "idle"
    BY <1>1
  <2> QED BY Zenon, <1>1, <2>1, Here DEF ProcOK
<1>5. Len(r.seen) = 0 \/ Len(r.seen) = 1 \/ Len(r.seen) = 2 \/ Len(r.seen) = 3
  BY Zenon, <1>2, Lengths, UpToThree
<1>3. CASE Step(p, [pc |-> "load", seen |-> <<>>])
  <2> DEFINE s == Updated(r, [pc |-> "load", seen |-> <<>>])
  <2>1. DOMAIN s = Fields /\ s.pc = "load" /\ s.key = k
    BY Here DEF Updated, Fields
  <2>2. ProcOK(s, text)
    <3> HIDE DEF s
    <3> QED BY <1>2, <2>1 DEF ProcOK, HasArtifact
  <2> QED BY Zenon, <1>1, <1>3, <2>2, OnlyProcess
<1>4. CASE /\ Holds(k, f) /\ Acceptable(k, new)
           /\ Step(p, IF Len(new) < 4 THEN [seen |-> new] ELSE [pc |-> "touch", seen |-> <<>>, art |-> new[2]])
  <2>1. dirs[k][f] \in Allowed(k, f)
    BY ZenonT(30), <1>4 DEF CacheInv, DirsOK, Holds, Exists
  <2>2. dirs[k][f] \in Contents
    BY Z3T(30), <1>2, <2>1 DEF Allowed, ArtifactsOf, Contents, Keys
  <2>3. new \in Seq(Contents) /\ Len(new) = Len(r.seen) + 1 /\ new[Len(new)] = dirs[k][f]
        /\ \A i \in 1..Len(r.seen) : new[i] = r.seen[i]
    <3> HIDE DEF f
    <3> QED BY <1>2, <2>2, Appended
  <2>4. CASE Len(r.seen) < 3
    <3> DEFINE s == Updated(r, [seen |-> new])
    <3>1. Len(new) < 4 /\ Step(p, [seen |-> new])
      <4> HIDE DEF new
      <4>1. Len(new) < 4
        BY <1>5, <2>3, <2>4
      <4> QED BY Zenon, <1>4, <4>1
    <3>2. DOMAIN s = Fields /\ s.pc = "read" /\ s.key = k /\ s.seen = new
      <4> HIDE DEF new
      <4> QED BY <1>1, Here DEF Updated, Fields
    <3>3. Len(new) >= 2 => new[2] \in Procs \cup ArtifactsOf(k)
      <4>1. CASE Len(r.seen) = 1
        <5>1. f = "artifact"
          BY <4>1 DEF Reads
        <5>2. new[2] = dirs[k][f]
          BY <2>3, <4>1
        <5> QED BY Zenon, <2>1, <5>1, <5>2 DEF Allowed
      <4>2. CASE Len(r.seen) = 2
        <5> HIDE DEF new
        <5> QED BY Z3T(30), <1>2, <2>3, <4>2
      <4>3. CASE Len(r.seen) = 0
        <5> HIDE DEF new
        <5> QED BY <2>3, <4>3
      <4> HIDE DEF new, f
      <4>4. 3 < 3 => FALSE
        BY Z3T(30)
      <4> QED BY Zenon, <1>5, <2>4, <4>1, <4>2, <4>3, <4>4
    <3>4. new \in Seq(Contents) /\ Len(new) <= 3
      <4> HIDE DEF new
      <4> QED BY <1>2, <2>3, <2>4
    <3>5. ProcOK(s, text)
      <4> HIDE DEF s, new
      <4> QED BY Zenon, <1>2, <3>2, <3>3, <3>4 DEF ProcOK, HasArtifact
    <3> QED BY Zenon, <1>1, <3>1, <3>5, OnlyProcess
  <2>5. CASE Len(r.seen) = 3
    <3> DEFINE c == [pc |-> "touch", seen |-> <<>>, art |-> new[2]]
               s == Updated(r, c)
    <3>1. ~(Len(new) < 4) /\ Step(p, c)
      <4> HIDE DEF new
      <4>1. ~(Len(new) < 4)
        BY Z3T(30), <2>3, <2>5
      <4> QED BY Zenon, <1>4, <4>1
    <3>2. DOMAIN s = Fields /\ s.pc = "touch" /\ s.key = k /\ s.art = new[2]
      <4> HIDE DEF new
      <4> QED BY Here DEF Updated, Fields
    <3>3. r.seen[2] \in Procs \cup ArtifactsOf(k)
      BY <1>2, <2>5
    <3>4. new[2] \in ArtifactsOf(k)
      BY Zenon, <1>2, <1>4, <2>2, <2>5, <3>3, Validated
    <3>5. ProcOK(s, text)
      <4> HIDE DEF s, new
      <4> QED BY <1>2, <3>2, <3>4 DEF ProcOK
    <3> QED BY Zenon, <1>1, <3>1, <3>5, OnlyProcess
  <2>6. Len(r.seen) < 3 \/ Len(r.seen) = 3
    <3>1. 0 < 3 /\ 1 < 3 /\ 2 < 3
      OBVIOUS
    <3> QED BY Zenon, <1>5, <3>1
  <2> QED BY Zenon, <2>4, <2>5, <2>6
<1> QED BY Zenon, <1>3, <1>4 DEF ReadFile

\* Where a process has an artifact it also has a key.
LEMMA HasKey ==
    ASSUME CacheInv, NEW p \in Procs, proc[p].pc \in HasArtifact
    PROVE  proc[p].key \in Keys /\ proc[p].art \in ArtifactsOf(proc[p].key)
<1>1. proc[p].pc # "idle"
  BY DEF HasArtifact
<1> QED BY Zenon, <1>1, Here DEF ProcOK

LEMMA StepTouch ==
    ASSUME CacheInv, NEW p \in Procs, Touch(p)
    PROVE  CacheInv' /\ Kept(dirs, dirs')
<1> DEFINE r == proc[p]
           k == r.key
<1>1. r.pc = "touch" /\ Touched(k) /\ Step(p, Goto("prune")) /\ text' = text /\ stamp' = stamp
  BY DEF Touch, At, Sources
<1>2. ProcOK(Updated(r, Goto("prune")), text)
  <2>1. r.pc \in HasArtifact /\ "prune" \in HasArtifact
    BY <1>1 DEF HasArtifact
  <2> QED BY Zenon, <2>1, Here, Moves, MovedOK
<1>3. DirsOK(dirs') /\ Kept(dirs, dirs')
  <2>1. CASE ~Exists(k)
    <3>1. dirs' = dirs
      BY <1>1, <2>1 DEF Touched, OnDisk
    <3> QED BY <3>1, NothingChanges DEF CacheInv
  <2>2. CASE Exists(k)
    <3> DEFINE f == "last_used"
    <3>1. k \in DOMAIN dirs /\ dirs' = [dirs EXCEPT ![k] = With(@, f, None)]
      BY <1>1, <2>2 DEF Touched, Exists
    <3>2. /\ DOMAIN dirs' = DOMAIN dirs /\ dirs'[k] = With(dirs[k], f, None)
          /\ \A x \in DOMAIN dirs : x # k => dirs'[x] = dirs[x]
      BY Z3T(30), <3>1
    <3>3. /\ DOMAIN dirs'[k] = DOMAIN dirs[k] \cup {f} /\ dirs'[k][f] = None
          /\ \A x \in DOMAIN dirs[k] : x # f => dirs'[k][x] = dirs[k][x]
      BY <3>2 DEF With
    <3>4. None \in Allowed(k, f) /\ DirsOK(dirs)
      BY DEF Allowed, CacheInv
    <3>5. MaySet(dirs, k, f, None)
      BY <3>1 DEF CacheInv, DirsOK, Allowed, MaySet
    <3>6. FileSet(dirs, dirs', k, f, None)
      BY Zenon, <3>2, <3>3 DEF FileSet
    <3> HIDE DEF f
    <3> QED BY Zenon, <3>1, <3>4, <3>5, <3>6, FileChanges
  <2> QED BY Zenon, <2>1, <2>2
<1>4. stamp' \in Texts \cup {None}
  BY Zenon, <1>1 DEF CacheInv
<1> QED BY Zenon, <1>1, <1>2, <1>3, <1>4, OneProcess

\* A step of a process that has an artifact, to another position of that kind.
LEMMA Forward ==
    ASSUME CacheInv, NEW p \in Procs, proc[p].pc \in HasArtifact, NEW c, NEW v \in HasArtifact, Step(p, c),
           Moved(proc[p], Updated(proc[p], c), v),
           text' = text, stamp' \in Texts \cup {None}, DirsOK(dirs') /\ Kept(dirs, dirs')
    PROVE  CacheInv' /\ Kept(dirs, dirs')
<1>1. ProcOK(Updated(proc[p], c), text)
  BY Zenon, Here, MovedOK
<1> QED BY Zenon, <1>1, OneProcess

LEMMA BackToIdle ==
    ASSUME CacheInv, NEW p \in Procs, Step(p, Idle),
           text' = text, stamp' \in Texts \cup {None}, DirsOK(dirs') /\ Kept(dirs, dirs')
    PROVE  CacheInv' /\ Kept(dirs, dirs')
<1>1. ProcOK(Updated(proc[p], Idle), text)
  BY Zenon, Here, IdleOK
<1> QED BY Zenon, <1>1, OneProcess

LEMMA Continues ==
    ASSUME CacheInv, NEW p \in Procs, proc[p].pc \in HasArtifact, Step(p, Continue(p)),
           text' = text, stamp' \in Texts \cup {None}, DirsOK(dirs') /\ Kept(dirs, dirs')
    PROVE  CacheInv' /\ Kept(dirs, dirs')
<1>1. CASE Continue(p) = [pc |-> "result", victims |-> <<>>]
  <2>1. "result" \in HasArtifact
    BY DEF HasArtifact
  <2>2. Moved(proc[p], Updated(proc[p], Continue(p)), "result")
    BY Zenon, <1>1, Here, Moves
  <2> QED BY Zenon, <2>1, <2>2, Forward
<1>2. CASE Continue(p) = Idle
  BY Zenon, <1>2, BackToIdle
<1> QED BY Zenon, <1>1, <1>2 DEF Continue

\* The cache directory as it is, and the sources with it.
LEMMA AsItIs ==
    ASSUME CacheInv, text' = text, stamp' = stamp
    PROVE  stamp' \in Texts \cup {None} /\ (dirs' = dirs => DirsOK(dirs') /\ Kept(dirs, dirs'))
<1>1. DirsOK(dirs) /\ Kept(dirs, dirs) /\ stamp \in Texts \cup {None}
  BY Zenon, NothingChanges DEF CacheInv
<1> QED BY Zenon, <1>1

LEMMA StepMake ==
    ASSUME CacheInv, NEW p \in Procs, Make(p)
    PROVE  CacheInv' /\ Kept(dirs, dirs')
<1> DEFINE k == proc[p].key
<1>1. proc[p].pc \in HasArtifact /\ text' = text /\ stamp' = stamp /\ "open" \in HasArtifact
  BY DEF Make, At, Sources, HasArtifact
<1>2. CASE Exists(k)
  <2>1. Step(p, Continue(p)) /\ dirs' = dirs
    BY <1>2 DEF Make, OnDisk
  <2> QED BY Zenon, <1>1, <2>1, AsItIs, Continues
<1>3. CASE ~Exists(k)
  <2>1. Step(p, [pc |-> "open", at |-> 1]) /\ dirs' = With(dirs, k, <<>>) /\ k \notin DOMAIN dirs
    BY <1>3 DEF Make, Exists
  <2>2. DirsOK(dirs') /\ Kept(dirs, dirs')
    BY Zenon, <1>1, <2>1, HasKey, EntryMade DEF CacheInv
  <2>3. Moved(proc[p], Updated(proc[p], [pc |-> "open", at |-> 1]), "open")
    BY Zenon, Here, Moves
  <2> QED BY Zenon, <1>1, <2>1, <2>2, <2>3, AsItIs, Forward
<1> QED BY Zenon, <1>2, <1>3

LEMMA StepOpen ==
    ASSUME CacheInv, NEW p \in Procs, Open(p)
    PROVE  CacheInv' /\ Kept(dirs, dirs')
<1> DEFINE k == proc[p].key
           f == Files[proc[p].at]
<1>1. proc[p].pc \in HasArtifact /\ text' = text /\ stamp' = stamp /\ {"write", "remove"} \subseteq HasArtifact
  BY DEF Open, At, Sources, HasArtifact
<1>2. CASE Creatable(k, f)
  <2> HIDE DEF f
  <2>1. Step(p, Goto("write")) /\ dirs' = [dirs EXCEPT ![k] = With(@, f, p)]
    BY <1>2 DEF Open, f
  <2>2. k \in DOMAIN dirs /\ f \notin DOMAIN dirs[k]
    BY <1>2 DEF Creatable, Exists
  <2>3. FileSet(dirs, dirs', k, f, p)
    <3>1. /\ DOMAIN dirs' = DOMAIN dirs /\ dirs'[k] = With(dirs[k], f, p)
          /\ \A x \in DOMAIN dirs : x # k => dirs'[x] = dirs[x]
      BY Z3T(30), <2>1, <2>2
    <3>2. /\ DOMAIN dirs'[k] = DOMAIN dirs[k] \cup {f} /\ dirs'[k][f] = p
          /\ \A x \in DOMAIN dirs[k] : x # f => dirs'[k][x] = dirs[k][x]
      BY <3>1 DEF With
    <3> QED BY Zenon, <3>1, <3>2 DEF FileSet
  <2>4. p \in Allowed(k, f) /\ DirsOK(dirs) /\ MaySet(dirs, k, f, p)
    BY Zenon, <2>2 DEF Allowed, CacheInv, MaySet
  <2>5. DirsOK(dirs') /\ Kept(dirs, dirs')
    BY Zenon, <2>2, <2>3, <2>4, FileChanges
  <2>6. Moved(proc[p], Updated(proc[p], Goto("write")), "write") /\ "write" \in HasArtifact
    BY Zenon, <1>1, Here, Moves
  <2> QED BY Zenon, <1>1, <2>1, <2>5, <2>6, AsItIs, Forward
<1>3. CASE ~Creatable(k, f)
  <2>1. Step(p, [pc |-> "remove", victims |-> <<k>>]) /\ dirs' = dirs
    BY <1>3 DEF Open, OnDisk
  <2>2. Moved(proc[p], Updated(proc[p], [pc |-> "remove", victims |-> <<k>>]), "remove") /\ "remove" \in HasArtifact
    BY Zenon, <1>1, Here, Moves
  <2> QED BY Zenon, <1>1, <2>1, <2>2, AsItIs, Forward
<1> QED BY Zenon, <1>2, <1>3

\* What a process writes belongs to its key.
LEMMA ContentAllowed ==
    ASSUME CacheInv, NEW p \in Procs, proc[p].pc \in HasArtifact, NEW f
    PROVE  Content(p, f) \in Allowed(proc[p].key, f)
  BY Zenon, HasKey DEF Content, Allowed

LEMMA StepWrite ==
    ASSUME CacheInv, NEW p \in Procs, Write(p)
    PROVE  CacheInv' /\ Kept(dirs, dirs')
<1> DEFINE k == proc[p].key
           f == Files[proc[p].at]
<1>1. /\ proc[p].pc \in HasArtifact /\ text' = text /\ stamp' = stamp
      /\ "open" \in HasArtifact /\ "remove" \in HasArtifact /\ "prune" \in HasArtifact
  BY DEF Write, At, Sources, HasArtifact
<1>2. DirsOK(dirs') /\ Kept(dirs, dirs')
  <2> HIDE DEF f
  <2>1. CASE dirs' = dirs
    BY Zenon, <1>1, <2>1, AsItIs
  <2>2. CASE Holds(k, f) /\ dirs[k][f] = p /\ dirs' = [dirs EXCEPT ![k][f] = Content(p, f)]
    <3>1. k \in DOMAIN dirs /\ f \in DOMAIN dirs[k]
      BY <2>2 DEF Holds, Exists
    <3>2. FileSet(dirs, dirs', k, f, Content(p, f))
      <4> HIDE DEF k
      <4> QED BY <2>2, <3>1 DEF FileSet
    <3>3. Content(p, f) \in Allowed(k, f) /\ DirsOK(dirs) /\ MaySet(dirs, k, f, Content(p, f))
      BY Zenon, <1>1, <2>2, ContentAllowed DEF CacheInv, MaySet
    <3> QED BY Zenon, <3>1, <3>2, <3>3, FileChanges
  <2> QED BY Zenon, <2>1, <2>2 DEF Write, f
<1>3. \/ Step(p, [pc |-> "open", at |-> proc[p].at + 1])
      \/ Step(p, [pc |-> "prune", at |-> 0])
      \/ Step(p, [pc |-> "remove", at |-> 0, victims |-> <<k>>])
  BY DEF Write
<1>4. /\ Moved(proc[p], Updated(proc[p], [pc |-> "open", at |-> proc[p].at + 1]), "open")
      /\ Moved(proc[p], Updated(proc[p], [pc |-> "prune", at |-> 0]), "prune")
      /\ Moved(proc[p], Updated(proc[p], [pc |-> "remove", at |-> 0, victims |-> <<k>>]), "remove")
  BY Zenon, Here, Moves
<1>5. stamp' \in Texts \cup {None}
  BY Zenon, <1>1, AsItIs
<1> QED BY Zenon, <1>1, <1>2, <1>3, <1>4, <1>5, Forward

LEMMA StepList ==
    ASSUME CacheInv, NEW p \in Procs, List(p)
    PROVE  CacheInv' /\ Kept(dirs, dirs')
<1>1. /\ proc[p].pc \in HasArtifact /\ text' = text /\ stamp' = stamp /\ dirs' = dirs /\ "remove" \in HasArtifact
      /\ Step(p, [pc |-> "remove", victims |-> Victims(proc[p].key)])
  BY DEF List, At, Sources, OnDisk, HasArtifact
<1>2. Moved(proc[p], Updated(proc[p], [pc |-> "remove", victims |-> Victims(proc[p].key)]), "remove")
  BY Zenon, Here, Moves
<1> QED BY Zenon, <1>1, <1>2, AsItIs, Forward

LEMMA StepRemoveEntry ==
    ASSUME CacheInv, NEW p \in Procs, RemoveEntry(p)
    PROVE  CacheInv' /\ Kept(dirs, dirs')
<1> DEFINE v == proc[p].victims
<1>1. /\ proc[p].pc \in HasArtifact /\ text' = text /\ stamp' = stamp /\ dirs' = dirs
      /\ "remove" \in HasArtifact /\ "unlink" \in HasArtifact /\ proc[p].pc = "remove"
  BY DEF RemoveEntry, At, Sources, OnDisk, HasArtifact
<1>2. CASE Step(p, Continue(p))
  BY Zenon, <1>1, <1>2, AsItIs, Continues
<1>3. CASE Step(p, [pc |-> "unlink", todo |-> DOMAIN dirs[Head(v)]])
  <2>1. Moved(proc[p], Updated(proc[p], [pc |-> "unlink", todo |-> DOMAIN dirs[Head(v)]]), "unlink")
    BY Zenon, Here, Moves
  <2> QED BY Zenon, <1>1, <1>3, <2>1, AsItIs, Forward
<1>4. CASE Step(p, [victims |-> Tail(v)])
  <2>1. Moved(proc[p], Updated(proc[p], [victims |-> Tail(v)]), "remove")
    BY Zenon, <1>1, Here, Moves
  <2> QED BY Zenon, <1>1, <1>4, <2>1, AsItIs, Forward
<1> QED BY Zenon, <1>2, <1>3, <1>4 DEF RemoveEntry

LEMMA StepUnlink ==
    ASSUME CacheInv, NEW p \in Procs, Unlink(p)
    PROVE  CacheInv' /\ Kept(dirs, dirs')
<1> DEFINE k == Head(proc[p].victims)
<1>1. proc[p].pc = "unlink" /\ proc[p].pc \in HasArtifact /\ text' = text /\ stamp' = stamp
  BY DEF Unlink, At, Sources, HasArtifact
<1>2. PICK f \in proc[p].todo :
        /\ Step(p, [todo |-> proc[p].todo \ {f}])
        /\ IF Holds(k, f) THEN dirs' = [dirs EXCEPT ![k] = Without(@, f)] ELSE dirs' = dirs
  BY Zenon DEF Unlink, OnDisk
<1>3. DirsOK(dirs') /\ Kept(dirs, dirs')
  <2>1. CASE Holds(k, f)
    <3>1. k \in DOMAIN dirs /\ DirsOK(dirs) /\ dirs' = [dirs EXCEPT ![k] = Without(@, f)]
      BY Zenon, <1>2, <2>1 DEF Holds, Exists, CacheInv
    <3> HIDE DEF k
    <3> QED BY Zenon, <3>1, FileRemoved
  <2>2. CASE ~Holds(k, f)
    BY Zenon, <1>1, <1>2, <2>2, AsItIs
  <2> QED BY Zenon, <2>1, <2>2
<1>4. Moved(proc[p], Updated(proc[p], [todo |-> proc[p].todo \ {f}]), proc[p].pc)
  BY Zenon, Here, Moves
<1>5. stamp' \in Texts \cup {None}
  BY Zenon, <1>1, AsItIs
<1> QED BY Zenon, <1>1, <1>2, <1>3, <1>4, <1>5, Forward

LEMMA StepRmdir ==
    ASSUME CacheInv, NEW p \in Procs, Rmdir(p)
    PROVE  CacheInv' /\ Kept(dirs, dirs')
<1> DEFINE k == Head(proc[p].victims)
           c == [pc |-> "remove", victims |-> Tail(proc[p].victims)]
<1>1. proc[p].pc \in HasArtifact /\ text' = text /\ stamp' = stamp /\ Step(p, c) /\ "remove" \in HasArtifact
  BY DEF Rmdir, At, Sources, HasArtifact
<1>2. DirsOK(dirs') /\ Kept(dirs, dirs')
  <2>1. CASE dirs' = dirs
    BY Zenon, <1>1, <2>1, AsItIs
  <2>2. CASE dirs' = Without(dirs, k)
    BY Zenon, <2>2, EntryRemoved DEF CacheInv
  <2>3. dirs' = dirs \/ dirs' = Without(dirs, k)
    BY DEF Rmdir, OnDisk
  <2> QED BY Zenon, <2>1, <2>2, <2>3
<1>3. Moved(proc[p], Updated(proc[p], c), "remove")
  BY Zenon, Here, Moves
<1>4. stamp' \in Texts \cup {None}
  BY Zenon, <1>1, AsItIs
<1> QED BY Zenon, <1>1, <1>2, <1>3, <1>4, Forward

LEMMA StepEnd ==
    ASSUME CacheInv, NEW p \in Procs, End(p) \/ Crash(p)
    PROVE  CacheInv' /\ Kept(dirs, dirs')
<1>1. Step(p, Idle) /\ text' = text /\ stamp' = stamp /\ dirs' = dirs
  BY DEF End, Crash, Sources, OnDisk
<1> QED BY Zenon, <1>1, AsItIs, BackToIdle

\* The recorded build is a text: the result's.
LEMMA StepStamp ==
    ASSUME CacheInv, NEW p \in Procs, Stamp(p)
    PROVE  CacheInv' /\ Kept(dirs, dirs')
<1> DEFINE r == proc[p]
<1>1. /\ r.pc = "result" /\ r.pc \in HasArtifact /\ "refresh" \in HasArtifact
      /\ text' = text /\ dirs' = dirs /\ stamp' = r.art /\ Step(p, Goto("refresh"))
  BY DEF Stamp, At, OnDisk, HasArtifact
<1>2. r.art \in Texts
  <2>1. r.art \in ArtifactsOf(r.key) /\ r.key \in Keys
    BY Zenon, <1>1, HasKey
  <2> QED BY <2>1 DEF ArtifactsOf, Keys
<1>3. Moved(r, Updated(r, Goto("refresh")), "refresh")
  BY Zenon, Here, Moves
<1>4. DirsOK(dirs') /\ Kept(dirs, dirs')
  BY Zenon, <1>1, NothingChanges DEF CacheInv
<1>5. stamp' \in Texts \cup {None}
  BY Zenon, <1>1, <1>2
<1> QED BY Zenon, <1>1, <1>3, <1>4, <1>5, Forward

\* While the sources are edited nothing compiles, or artifacts need not be of
\* the key's text.
LEMMA StepEdit ==
    ASSUME CacheInv, Edit
    PROVE  CacheInv' /\ Kept(dirs, dirs')
<1>1. text' \in Texts /\ stamp' = stamp /\ dirs' = dirs /\ proc' = proc /\ (Steady => Quiet)
  BY DEF Edit, OnDisk
<1>2. ASSUME NEW p \in Procs
      PROVE  ProcOK(proc[p], text')
  <2>1. CASE Steady
    <3>1. proc[p] = Idle
      BY Zenon, <1>1, <2>1 DEF Quiet
    <3> QED BY Zenon, <3>1, Here, IdleOK
  <2>2. CASE ~Steady
    BY Zenon, <2>2, Here DEF ProcOK
  <2> QED BY Zenon, <2>1, <2>2
<1>3. DirsOK(dirs) /\ Kept(dirs, dirs)
  BY Zenon, NothingChanges DEF CacheInv
<1> QED BY Zenon, <1>1, <1>2, <1>3 DEF CacheInv

LEMMA StepNext ==
    ASSUME CacheInv, [Next]_vars
    PROVE  CacheInv' /\ Kept(dirs, dirs')
<1>1. CASE UNCHANGED vars
  <2>1. text' = text /\ stamp' = stamp /\ dirs' = dirs /\ proc' = proc
    BY <1>1 DEF vars
  <2>2. DirsOK(dirs) /\ Kept(dirs, dirs)
    BY Zenon, NothingChanges DEF CacheInv
  <2> QED BY Zenon, <2>1, <2>2 DEF CacheInv
<1>2. CASE Edit
  BY Zenon, <1>2, StepEdit
<1>3. ASSUME NEW p \in Procs,
             \/ Start(p) \/ Lookup(p) \/ ReadFile(p) \/ Touch(p) \/ Load(p)
             \/ Make(p) \/ Open(p) \/ Write(p)
             \/ List(p) \/ RemoveEntry(p) \/ Unlink(p) \/ Rmdir(p)
             \/ End(p) \/ Stamp(p) \/ Refresh(p) \/ Crash(p)
      PROVE  CacheInv' /\ Kept(dirs, dirs')
  BY Zenon, <1>3, StepStart, StepLookup, StepReadFile, StepTouch, StepLoad, StepMake, StepOpen, StepWrite,
     StepList, StepRemoveEntry, StepUnlink, StepRmdir, StepEnd, StepStamp, StepRefresh
<1> QED BY Zenon, <1>1, <1>2, <1>3 DEF Next

LEMMA CacheInit == Init => CacheInv
<1> SUFFICES ASSUME Init PROVE CacheInv
  OBVIOUS
<1>1. text \in Texts /\ stamp = None /\ DOMAIN dirs = {} /\ proc = [p \in Procs |-> Idle]
  BY DEF Init
<1>2. DirsOK(dirs)
  BY Zenon, <1>1 DEF DirsOK
<1>3. ASSUME NEW p \in Procs
      PROVE  ProcOK(proc[p], text)
  <2>1. proc[p] = Idle /\ DOMAIN Idle = Fields
    BY <1>1 DEF Idle, Fields
  <2> QED BY Zenon, <2>1, IdleOK
<1> QED BY <1>1, <1>2, <1>3 DEF CacheInv

-----------------------------------------------------------------------------
\* In every state a process's key is its sources, its artifact that of its key,
\* and every written file of the cache what its name and its key say.
THEOREM CacheInvariant == Spec => []CacheInv
<1>1. CacheInv /\ [Next]_vars => CacheInv'
  BY Zenon, StepNext
<1> QED BY <1>1, CacheInit, PTL DEF Spec

\* A hit and a fresh compilation return the artifact of the sources that were
\* hashed, while sources are edited only when nothing compiles: whatever other
\* processes store, evict or leave behind half-written.
THEOREM ResultIsOfTheseSourcesAlways ==
    ASSUME Steady
    PROVE  Spec => []ResultIsOfTheseSources
<1>1. CacheInv => ResultIsOfTheseSources
  <2> SUFFICES ASSUME CacheInv, NEW p \in Procs, proc[p].pc \in {"touch", "result"}
               PROVE  proc[p].art = proc[p].key[1]
    BY Zenon DEF ResultIsOfTheseSources
  <2>1. proc[p].pc \in HasArtifact
    BY DEF HasArtifact
  <2>2. proc[p].art \in ArtifactsOf(proc[p].key)
    BY Zenon, <2>1, HasKey
  <2> QED BY Zenon, <2>2 DEF ArtifactsOf
<1> QED BY <1>1, CacheInvariant, PTL

\* Even when sources are edited under a running compilation, nobody gets an
\* artifact out of a file that was not written completely.
THEOREM NoHalfWrittenResult ==
    Spec => [](\A p \in Procs : proc[p].pc \in {"touch", "result"} => proc[p].art \in Texts)
<1>1. CacheInv => \A p \in Procs : proc[p].pc \in {"touch", "result"} => proc[p].art \in Texts
  <2> SUFFICES ASSUME CacheInv, NEW p \in Procs, proc[p].pc \in {"touch", "result"}
               PROVE  proc[p].art \in Texts
    BY Zenon
  <2>1. proc[p].pc \in HasArtifact
    BY DEF HasArtifact
  <2>2. proc[p].key \in Keys /\ proc[p].art \in ArtifactsOf(proc[p].key)
    BY Zenon, <2>1, HasKey
  <2> QED BY <2>2 DEF ArtifactsOf, Keys
<1> QED BY <1>1, CacheInvariant, PTL

\* No process overwrites a file of the cache that was written, by an open, a
\* late write or a store that another process already made; a refreshed
\* recency marker holds what it held.
THEOREM NeverOverwrittenAlways == Spec => NeverOverwritten
<1>1. CacheInv /\ [Next]_vars =>
        [\A k \in DOMAIN dirs \cap DOMAIN dirs' :
           \A f \in DOMAIN dirs[k] \cap DOMAIN dirs'[k] :
             dirs[k][f] \notin Procs => dirs'[k][f] = dirs[k][f]]_vars
  BY Zenon, StepNext DEF Kept
<1> QED BY <1>1, CacheInvariant, PTL DEF Spec, NeverOverwritten

-----------------------------------------------------------------------------
(* Sequences of keys without repetition. *)

Members(s) == {s[i] : i \in 1..Len(s)}
Distinct(s) == \A i, j \in 1..Len(s) : s[i] = s[j] => i = j

LEMMA DropAbsent ==
    ASSUME NEW s, NEW k, k \notin Members(s)
    PROVE  Drop(s, k) = s
  BY DEF Drop, Members

\* t is s without what is at place i.
Gap(S, s, i, t) ==
    /\ t \in Seq(S) /\ Len(t) = Len(s) - 1 /\ Len(s) - 1 \in Nat
    /\ \A j \in 1..(Len(s) - 1) : t[j] = IF j < i THEN s[j] ELSE s[j + 1]

LEMMA DropAt ==
    ASSUME NEW S, NEW s \in Seq(S), Distinct(s), NEW i \in 1..Len(s)
    PROVE  Gap(S, s, i, Drop(s, s[i]))
<1> DEFINE k == s[i]
           c == CHOOSE x \in 1..Len(s) : s[x] = k
           w == [j \in 1..(Len(s) - 1) |-> IF j < i THEN s[j] ELSE s[j + 1]]
<1>1. c = i
  <2>1. c \in 1..Len(s) /\ s[c] = k
    BY Zenon
  <2> HIDE DEF c
  <2> QED BY Zenon, <2>1 DEF Distinct
<1>2. Drop(s, k) = [j \in 1..(Len(s) - 1) |-> IF j < c THEN s[j] ELSE s[j + 1]]
  BY Zenon DEF Drop
<1>3. Drop(s, k) = w
  BY Zenon, <1>1, <1>2
<1>4. Len(s) \in Nat /\ Len(s) >= 1 /\ Len(s) - 1 \in Nat
  OBVIOUS
<1>5. \A j \in 1..(Len(s) - 1) : s[j] \in S /\ s[j + 1] \in S
  OBVIOUS
<1>6. w \in Seq(S) /\ Len(w) = Len(s) - 1
  BY <1>4, <1>5
<1> HIDE DEF c
<1>7. Gap(S, s, i, w)
  BY Zenon, <1>4, <1>6 DEF Gap
<1> QED BY Zenon, <1>3, <1>7

LEMMA DropFacts ==
    ASSUME NEW S, NEW s \in Seq(S), Distinct(s), NEW k
    PROVE  /\ Drop(s, k) \in Seq(S) /\ Distinct(Drop(s, k))
           /\ Members(Drop(s, k)) = Members(s) \ {k}
<1>1. CASE k \notin Members(s)
  BY Zenon, <1>1, DropAbsent
<1>2. CASE k \in Members(s)
  <2>1. PICK i \in 1..Len(s) : k = s[i]
    BY Zenon, <1>2 DEF Members
  <2>2. PICK t : t = Drop(s, k)
    BY Zenon
  <2>3. /\ t \in Seq(S) /\ Len(t) = Len(s) - 1 /\ Len(s) - 1 \in Nat
        /\ \A j \in 1..(Len(s) - 1) : t[j] = IF j < i THEN s[j] ELSE s[j + 1]
    BY Zenon, <2>1, <2>2, DropAt DEF Gap
  <2>4. Distinct(t)
    BY Z3T(30), <2>3 DEF Distinct
  <2>5. Members(t) = Members(s) \ {k}
    <3>1. ASSUME NEW x \in Members(t) PROVE x \in Members(s) \ {k}
      <4>1. PICK j \in 1..(Len(s) - 1) : x = t[j]
        BY ZenonT(30), <2>3 DEF Members
      <4>2. PICK m \in 1..Len(s) : m # i /\ x = s[m]
        BY Z3T(30), <2>3, <4>1
      <4> QED BY Zenon, <2>1, <4>2 DEF Members, Distinct
    <3>2. ASSUME NEW x \in Members(s), x # k PROVE x \in Members(t)
      <4>1. PICK j \in 1..Len(s) : x = s[j]
        BY DEF Members
      <4>2. CASE j < i
        <5>1. j \in 1..Len(t) /\ t[j] = x
          BY <4>1, <4>2, <2>3
        <5> QED BY Zenon, <5>1 DEF Members
      <4>3. CASE j > i
        <5>1. j - 1 \in 1..Len(t) /\ t[j - 1] = x
          BY <4>1, <4>3, <2>3
        <5> QED BY Zenon, <5>1 DEF Members
      <4> QED BY <4>1, <4>2, <4>3, <2>1, <3>2
    <3> QED BY Zenon, <3>1, <3>2
  <2> QED BY Zenon, <2>2, <2>3, <2>4, <2>5
<1> QED BY Zenon, <1>1, <1>2

LEMMA AppendFacts ==
    ASSUME NEW S, NEW s \in Seq(S), Distinct(s), NEW k \in S, k \notin Members(s)
    PROVE  /\ Append(s, k) \in Seq(S) /\ Distinct(Append(s, k))
           /\ Members(Append(s, k)) = Members(s) \cup {k}
<1>1. PICK t : t = Append(s, k)
  BY Zenon
<1>2. /\ t \in Seq(S) /\ Len(t) = Len(s) + 1 /\ Len(s) \in Nat
      /\ \A i \in 1..Len(s) : t[i] = s[i] 
      /\ t[Len(s) + 1] = k
  BY <1>1
<1>3. Distinct(t)
  BY <1>2 DEF Distinct, Members
<1>4. Members(t) = Members(s) \cup {k}
  <2>1. ASSUME NEW x \in Members(t) PROVE x \in Members(s) \cup {k}
    BY <1>2 DEF Members
  <2>2. ASSUME NEW x \in Members(s) PROVE x \in Members(t)
    BY <1>2 DEF Members
  <2>3. k \in Members(t)
    BY <1>2 DEF Members
  <2> QED BY Zenon, <2>1, <2>2, <2>3
<1> QED BY Zenon, <1>1, <1>2, <1>3, <1>4

LEMMA MoveFacts ==
    ASSUME NEW S, NEW s \in Seq(S), Distinct(s), NEW k \in S
    PROVE  /\ MoveToEnd(s, k) \in Seq(S) /\ Distinct(MoveToEnd(s, k))
           /\ Members(MoveToEnd(s, k)) = Members(s) \cup {k}
<1>1. PICK d : d = Drop(s, k)
  BY Zenon
<1>2. d \in Seq(S) /\ Distinct(d) /\ Members(d) = Members(s) \ {k}
  BY Zenon, <1>1, DropFacts
<1>3. k \notin Members(d) /\ Members(d) \cup {k} = Members(s) \cup {k}
  BY <1>2
<1>4. MoveToEnd(s, k) = Append(d, k)
  BY Zenon, <1>1 DEF MoveToEnd
<1>5. /\ Append(d, k) \in Seq(S) /\ Distinct(Append(d, k))
      /\ Members(Append(d, k)) = Members(d) \cup {k}
  BY <1>2, <1>3, AppendFacts
<1> QED BY Zenon, <1>3, <1>4, <1>5

-----------------------------------------------------------------------------
(* The limit.  An entry is claimed by the process that is storing or keeping  *)
(* it and has not pruned yet, and by one that is about to remove it, unless   *)
(* files turned up in the entry after they were listed.                       *)

Claims(d, r, x) ==
    \/ r.pc \in {"open", "write", "prune"} /\ x = r.key
    \/ r.pc = "remove" /\ x \in Members(r.victims)
    \/ /\ r.pc = "unlink" /\ x \in Members(r.victims)
       /\ x = Head(r.victims) => DOMAIN d[x] \subseteq r.todo

Loose(d, pr) == {x \in DOMAIN d : \A q \in Procs : ~Claims(d, pr[q], x)}

AtMost(S, n) == \E f : S \subseteq {f[i] : i \in 1..n}

OrderOK(o, d) == o \in Seq(Keys) /\ Distinct(o) /\ Members(o) = DOMAIN d

VictimsOK(r) ==
    /\ r.pc \in {"remove", "unlink"} => r.victims \in Seq(Keys)
    /\ r.pc = "unlink" => r.victims # <<>>

\* Until a process is killed or a write fails, the entries nobody claims are
\* within the limit.
LimitInv ==
    /\ lane \in Lanes /\ faults \in Nat
    /\ OrderOK(order, dirs)
    /\ \A p \in Procs : VictimsOK(proc[p])
    /\ faults = 0 => AtMost(Loose(dirs, proc), lane.limit)

\* What was loose stays loose: an entry that a step of r to s leaves unclaimed
\* was there, unclaimed by r, and got no file.
Relaxes(d, e, r, s) ==
    \A x \in DOMAIN e : Claims(e, s, x) \/ (x \in DOMAIN d /\ DOMAIN e[x] \subseteq DOMAIN d[x] /\ ~Claims(d, r, x))

LEMMA StillClaimed ==
    ASSUME NEW d, NEW e, NEW r, NEW x, DOMAIN e[x] \subseteq DOMAIN d[x], Claims(d, r, x)
    PROVE  Claims(e, r, x)
  BY Zenon DEF Claims

LEMMA FewerAtMost ==
    ASSUME NEW S, NEW n \in Nat, AtMost(S, n), NEW T, T \subseteq S
    PROVE  AtMost(T, n)
  BY Zenon DEF AtMost

LEMMA LimitIsNat == ASSUME LimitInv PROVE lane.limit \in Nat /\ lane.limit >= 1
  BY CompileCacheAssumption DEF LimitInv

\* One process takes a step.
LEMMA OneStep ==
    ASSUME CacheInv, NEW p \in Procs, NEW c, Step(p, c)
    PROVE  proc'[p] = Updated(proc[p], c) /\ \A q \in Procs : q # p => proc'[q] = proc[q]
  BY DEF Step, CacheInv

LEMMA LimitKept ==
    ASSUME CacheInv, LimitInv, NEW p \in Procs, NEW c, Step(p, c), lane' = lane,
           faults' \in Nat, faults' = 0 => faults = 0,
           OrderOK(order', dirs'), VictimsOK(Updated(proc[p], c)),
           faults' = 0 => Relaxes(dirs, dirs', proc[p], Updated(proc[p], c))
    PROVE  LimitInv'
<1>1. \A q \in Procs : VictimsOK(proc'[q])
  BY Zenon, OneStep DEF LimitInv
<1>2. ASSUME faults' = 0
      PROVE  AtMost(Loose(dirs', proc'), lane'.limit)
  <2>1. ASSUME NEW x \in Loose(dirs', proc')
        PROVE  x \in Loose(dirs, proc)
    <3>1. x \in DOMAIN dirs' /\ \A q \in Procs : ~Claims(dirs', proc'[q], x)
      BY Zenon DEF Loose
    <3>2. x \in DOMAIN dirs /\ DOMAIN dirs'[x] \subseteq DOMAIN dirs[x] /\ ~Claims(dirs, proc[p], x)
      BY Zenon, <1>2, <3>1, OneStep DEF Relaxes
    <3>3. ASSUME NEW q \in Procs, q # p PROVE ~Claims(dirs, proc[q], x)
      BY Zenon, <3>1, <3>2, <3>3, OneStep, StillClaimed
    <3> QED BY Zenon, <3>2, <3>3 DEF Loose
  <2>2. Loose(dirs', proc') \subseteq Loose(dirs, proc)
    BY Zenon, <2>1
  <2>3. AtMost(Loose(dirs, proc), lane.limit) /\ lane.limit \in Nat
    BY Zenon, <1>2, LimitIsNat DEF LimitInv
  <2> QED BY Zenon, <2>2, <2>3, FewerAtMost
<1> QED BY Zenon, <1>1, <1>2 DEF LimitInv

\* The entries the processes claim where they stand.
Unclaiming == {"idle", "lookup", "read", "touch", "load", "make", "result", "refresh"}

LEMMA NoClaim ==
    ASSUME NEW r, r.pc \in Unclaiming
    PROVE  VictimsOK(r) /\ \A d, x : ~Claims(d, r, x)
<1>1. r.pc \notin {"open", "write", "prune"} /\ r.pc # "remove" /\ r.pc # "unlink" /\ r.pc \notin {"remove", "unlink"}
  BY DEF Unclaiming
<1> QED BY Zenon, <1>1 DEF Claims, VictimsOK

\* Nothing on disk changes, and the process claimed nothing.
LEMMA LimitIdle ==
    ASSUME CacheInv, LimitInv, NEW p \in Procs, NEW c, Step(p, c), lane' = lane,
           faults' \in Nat, faults' = 0 => faults = 0, UNCHANGED OnDisk,
           faults' = 0 => proc[p].pc \in Unclaiming, VictimsOK(Updated(proc[p], c))
    PROVE  LimitInv'
<1>1. dirs' = dirs /\ order' = order
  BY DEF OnDisk
<1>2. OrderOK(order', dirs')
  BY Zenon, <1>1 DEF LimitInv
<1>3. faults' = 0 => Relaxes(dirs, dirs', proc[p], Updated(proc[p], c))
  BY Zenon, <1>1, NoClaim DEF Relaxes
<1> QED BY Zenon, <1>2, <1>3, LimitKept

LEMMA ToIdle == ASSUME NEW r, DOMAIN r = Fields PROVE Updated(r, Idle) = Idle /\ Idle.pc = "idle"
  BY DEF Updated, Fields, Idle

\* The steps that neither claim nor change anything.
LEMMA LimitSimple ==
    ASSUME CacheInv, LimitInv, NEW p \in Procs,
           \/ Start(p) \/ Lookup(p) \/ ReadFile(p) \/ Load(p) \/ End(p) \/ Stamp(p) \/ Refresh(p)
    PROVE  LimitInv'
<1> DEFINE r == proc[p]
<1>1. lane' = lane /\ faults' = faults /\ UNCHANGED OnDisk
  BY ZenonT(30) DEF Start, Lookup, ReadFile, Load, End, Stamp, Refresh, Bounds
<1>2. r.pc \in Unclaiming
  BY ZenonT(30) DEF Start, Lookup, ReadFile, Load, End, Stamp, Refresh, At, Unclaiming
<1>3. \E c : Step(p, c) /\ Updated(r, c).pc \in Unclaiming
  <2>1. DOMAIN r = Fields
    BY Zenon, Here
  <2>2. ASSUME NEW v \in Unclaiming, NEW a, NEW b
        PROVE  /\ Updated(r, Goto(v)).pc \in Unclaiming
               /\ Updated(r, [pc |-> v, key |-> a]).pc \in Unclaiming
               /\ Updated(r, [pc |-> v, seen |-> a]).pc \in Unclaiming
               /\ Updated(r, [seen |-> a]).pc \in Unclaiming
               /\ Updated(r, [pc |-> v, seen |-> a, art |-> b]).pc \in Unclaiming
               /\ Updated(r, [pc |-> v, art |-> a]).pc \in Unclaiming
               /\ Updated(r, [pc |-> v, goal |-> a, key |-> b]).pc \in Unclaiming
    <3> HIDE DEF Unclaiming
    <3>1. Updated(r, Goto(v)).pc = v /\ Updated(r, [pc |-> v, key |-> a]).pc = v
      BY <2>1 DEF Updated, Goto, Fields
    <3>2. Updated(r, [pc |-> v, seen |-> a]).pc = v /\ Updated(r, [seen |-> a]).pc = r.pc
      BY <2>1 DEF Updated, Fields
    <3>3. Updated(r, [pc |-> v, seen |-> a, art |-> b]).pc = v /\ Updated(r, [pc |-> v, art |-> a]).pc = v
      BY <2>1 DEF Updated, Fields
    <3>4. Updated(r, [pc |-> v, goal |-> a, key |-> b]).pc = v
      BY <2>1 DEF Updated, Fields
    <3> QED BY Zenon, <1>2, <2>2, <3>1, <3>2, <3>3, <3>4
  <2>3. Updated(r, Idle).pc \in Unclaiming
    BY <2>1, ToIdle DEF Unclaiming
  <2>4. /\ "lookup" \in Unclaiming /\ "read" \in Unclaiming /\ "load" \in Unclaiming /\ "touch" \in Unclaiming
        /\ "make" \in Unclaiming /\ "refresh" \in Unclaiming
    BY DEF Unclaiming
  <2>5. CASE Start(p)
    BY Zenon, <2>2, <2>4, <2>5 DEF Start
  <2>6. CASE Lookup(p)
    BY Zenon, <2>2, <2>4, <2>6 DEF Lookup
  <2>7. CASE ReadFile(p)
    <3>1. \E n : \/ Step(p, [pc |-> "load", seen |-> <<>>]) \/ Step(p, [seen |-> n])
                 \/ Step(p, [pc |-> "touch", seen |-> <<>>, art |-> n[2]])
      BY Zenon, <2>7 DEF ReadFile
    <3> QED BY Zenon, <2>2, <2>4, <3>1
  <2>8. CASE Load(p)
    BY Zenon, <2>2, <2>4, <2>8 DEF Load
  <2>9. CASE End(p)
    BY Zenon, <2>3, <2>9 DEF End
  <2>10. CASE Stamp(p)
    BY Zenon, <2>2, <2>4, <2>10 DEF Stamp
  <2>11. CASE Refresh(p)
    BY Zenon, <2>2, <2>4, <2>11 DEF Refresh
  <2> QED BY Zenon, <2>5, <2>6, <2>7, <2>8, <2>9, <2>10, <2>11
<1>4. faults' \in Nat
  BY Zenon, <1>1 DEF LimitInv
<1> QED BY Zenon, <1>1, <1>2, <1>3, <1>4, NoClaim, LimitIdle

LEMMA LimitCrash ==
    ASSUME CacheInv, LimitInv, NEW p \in Procs, Crash(p)
    PROVE  LimitInv'
<1>1. lane' = lane /\ Step(p, Idle) /\ UNCHANGED OnDisk
  BY DEF Crash
<1>2. faults' \in Nat /\ faults' # 0
  BY DEF Crash, LimitInv
<1>3. VictimsOK(Updated(proc[p], Idle))
  <2>1. Updated(proc[p], Idle).pc \in Unclaiming
    BY Here, ToIdle DEF Unclaiming
  <2> QED BY Zenon, <2>1, NoClaim
<1> QED BY Zenon, <1>1, <1>2, <1>3, LimitIdle

LEMMA ContinueClaimsNothing ==
    ASSUME CacheInv, NEW p \in Procs
    PROVE  Updated(proc[p], Continue(p)).pc \in Unclaiming
<1>1. Updated(proc[p], Idle).pc \in Unclaiming
  BY Here, ToIdle DEF Unclaiming
<1>2. Updated(proc[p], [pc |-> "result", victims |-> <<>>]).pc \in Unclaiming
  BY Here DEF Updated, Fields, Unclaiming
<1> QED BY Zenon, <1>1, <1>2 DEF Continue

\* An entry's place in the order after it was touched or got a file.
LEMMA OrderMoved ==
    ASSUME LimitInv, NEW k \in Keys, NEW e, DOMAIN e = DOMAIN dirs \cup {k}
    PROVE  OrderOK(MoveToEnd(order, k), e)
<1>1. order \in Seq(Keys) /\ Distinct(order) /\ Members(order) = DOMAIN dirs
  BY Zenon DEF LimitInv, OrderOK
<1>2. /\ MoveToEnd(order, k) \in Seq(Keys) /\ Distinct(MoveToEnd(order, k))
      /\ Members(MoveToEnd(order, k)) = DOMAIN dirs \cup {k}
  <2> HIDE DEF Keys
  <2> QED BY <1>1, MoveFacts
<1> QED BY Zenon, <1>2 DEF OrderOK

LEMMA EntriesAreKeys ==
    ASSUME CacheInv, NEW k \in DOMAIN dirs PROVE k \in Keys
  BY Zenon DEF CacheInv, DirsOK

\* The process that claims k changes only k's entry.
LEMMA ClaimRelaxes ==
    ASSUME NEW d, NEW e, NEW r, NEW s, NEW k, Claims(e, s, k),
           DOMAIN e \subseteq DOMAIN d \cup {k}, \A x \in DOMAIN e : x # k => e[x] = d[x],
           \A x \in DOMAIN e : x # k => ~Claims(d, r, x)
    PROVE  Relaxes(d, e, r, s)
  BY Zenon DEF Relaxes

LEMMA LimitTouch ==
    ASSUME CacheInv, LimitInv, NEW p \in Procs, Touch(p)
    PROVE  LimitInv'
<1> DEFINE r == proc[p]
           k == r.key
           s == Updated(r, Goto("prune"))
<1>1. r.pc = "touch" /\ Touched(k) /\ Step(p, Goto("prune")) /\ lane' = lane /\ faults' = faults
  BY Z3T(30) DEF Touch, At, Bounds
<1>2. r.pc \in Unclaiming /\ s.pc = "prune" /\ s.key = k
  BY Z3T(30), <1>1, Here DEF Unclaiming, Updated, Goto, Fields
<1>3. VictimsOK(s) /\ \A e : Claims(e, s, k)
  <2> HIDE DEF s
  <2> QED BY Z3T(30), <1>2 DEF VictimsOK, Claims
<1>4. DOMAIN dirs' = DOMAIN dirs /\ (\A x \in DOMAIN dirs : x # k => dirs'[x] = dirs[x])
  BY Z3T(30), <1>1 DEF Touched, OnDisk
<1>5. OrderOK(order', dirs')
  <2>1. CASE Exists(k)
    <3>1. k \in DOMAIN dirs /\ order' = MoveToEnd(order, k) /\ DOMAIN dirs' = DOMAIN dirs \cup {k}
      BY Zenon, <1>1, <1>4, <2>1 DEF Touched, Exists
    <3> QED BY Zenon, <3>1, OrderMoved, EntriesAreKeys
  <2>2. CASE ~Exists(k)
    <3>1. order' = order /\ dirs' = dirs
      BY <1>1, <2>2 DEF Touched, OnDisk
    <3> QED BY Zenon, <3>1 DEF LimitInv
  <2> QED BY Zenon, <2>1, <2>2
<1>6. Relaxes(dirs, dirs', r, s)
  <2> HIDE DEF s
  <2> QED BY Zenon, <1>2, <1>3, <1>4, NoClaim, ClaimRelaxes
<1>7. faults' \in Nat
  BY Zenon, <1>1 DEF LimitInv
<1> QED BY Zenon, <1>1, <1>3, <1>5, <1>6, <1>7, LimitKept

LEMMA LimitMake ==
    ASSUME CacheInv, LimitInv, NEW p \in Procs, Make(p)
    PROVE  LimitInv'
<1> DEFINE r == proc[p]
           k == r.key
<1>1. r.pc = "make" /\ r.pc \in Unclaiming /\ r.pc \in HasArtifact /\ lane' = lane /\ faults' = faults
  BY DEF Make, At, Bounds, Unclaiming, HasArtifact
<1>2. faults' \in Nat
  BY Zenon, <1>1 DEF LimitInv
<1>3. CASE Exists(k)
  <2>1. Step(p, Continue(p)) /\ UNCHANGED OnDisk
    BY <1>3 DEF Make
  <2>2. VictimsOK(Updated(r, Continue(p)))
    BY Zenon, ContinueClaimsNothing, NoClaim
  <2> QED BY Zenon, <1>1, <1>2, <2>1, <2>2, LimitIdle
<1>4. CASE ~Exists(k)
  <2> DEFINE c == [pc |-> "open", at |-> 1]
             s == Updated(r, c)
  <2>1. Step(p, c) /\ dirs' = With(dirs, k, <<>>) /\ order' = MoveToEnd(order, k)
    BY Z3T(30), <1>4 DEF Make
  <2>2. s.pc = "open" /\ s.key = k
    BY Z3T(30), Here DEF Updated, Fields
  <2>3. VictimsOK(s) /\ \A e : Claims(e, s, k)
    <3> HIDE DEF s
    <3> QED BY Z3T(30), <2>2 DEF VictimsOK, Claims
  <2>4. DOMAIN dirs' = DOMAIN dirs \cup {k} /\ \A x \in DOMAIN dirs : x # k => dirs'[x] = dirs[x]
    BY <2>1 DEF With
  <2>5. OrderOK(order', dirs')
    BY Zenon, <1>1, <2>1, <2>4, HasKey, OrderMoved
  <2>6. Relaxes(dirs, dirs', r, s)
    <3> HIDE DEF s
    <3>1. DOMAIN dirs' \subseteq DOMAIN dirs \cup {k} /\ \A x \in DOMAIN dirs' : x # k => dirs'[x] = dirs[x]
      BY Zenon, <2>4
    <3> QED BY Zenon, <1>1, <2>3, <3>1, NoClaim, ClaimRelaxes
  <2> QED BY ZenonT(30), <1>1, <1>2, <2>1, <2>3, <2>5, <2>6, LimitKept
<1> QED BY Zenon, <1>3, <1>4

LEMMA TailMembers ==
    ASSUME NEW S, NEW v \in Seq(S), v # <<>>
    PROVE  Tail(v) \in Seq(S) /\ \A x \in Members(v) : x # Head(v) => x \in Members(Tail(v))
<1>1. PICK t : t = Tail(v)
  BY Zenon
<1>2. t \in Seq(S) /\ Len(t) = Len(v) - 1 /\ Len(v) \in Nat /\ \A i \in 1..Len(t) : t[i] = v[i + 1]
  BY <1>1
<1>3. ASSUME NEW i \in 1..Len(v), v[i] # Head(v)
      PROVE  i - 1 \in 1..Len(t) /\ t[i - 1] = v[i]
  <2>1. Head(v) = v[1]
    OBVIOUS
  <2> QED BY <1>2, <1>3, <2>1
<1>4. ASSUME NEW x \in Members(v), x # Head(v) PROVE x \in Members(t)
  <2>1. PICK i \in 1..Len(v) : x = v[i]
    BY Zenon DEF Members
  <2>2. i - 1 \in 1..Len(t) /\ t[i - 1] = x
    BY Zenon, <1>3, <1>4, <2>1
  <2> QED BY Zenon, <2>2 DEF Members
<1> QED BY Zenon, <1>1, <1>2, <1>4

LEMMA LimitOpen ==
    ASSUME CacheInv, LimitInv, NEW p \in Procs, Open(p)
    PROVE  LimitInv'
<1> DEFINE r == proc[p]
           k == r.key
           f == Files[r.at]
<1>1. r.pc = "open" /\ r.pc \in HasArtifact /\ lane' = lane /\ faults' = faults
  BY DEF Open, At, Bounds, HasArtifact
<1>2. faults' \in Nat /\ OrderOK(order, dirs)
  BY Zenon, <1>1 DEF LimitInv
<1>3. \A x : x # k => ~Claims(dirs, r, x)
  BY <1>1 DEF Claims
<1>4. CASE Creatable(k, f)
  <2> HIDE DEF f
  <2> DEFINE c == Goto("write")
             s == Updated(r, c)
  <2>1. /\ Step(p, c) /\ dirs' = [dirs EXCEPT ![k] = With(@, f, p)]
        /\ order' = MoveToEnd(order, k) \/ order' = order
    BY Z3T(30), <1>4 DEF Open, f
  <2>2. k \in DOMAIN dirs /\ DOMAIN dirs' = DOMAIN dirs /\ \A x \in DOMAIN dirs : x # k => dirs'[x] = dirs[x]
    BY Z3T(30), <1>4, <2>1 DEF Creatable, Exists
  <2>3. s.pc = "write" /\ s.key = k
    BY Z3T(30), Here DEF Updated, Goto, Fields
  <2>4. VictimsOK(s) /\ \A e : Claims(e, s, k)
    <3> HIDE DEF s
    <3> QED BY <2>3 DEF VictimsOK, Claims
  <2>5. OrderOK(order', dirs')
    <3>1. DOMAIN dirs' = DOMAIN dirs \cup {k} /\ k \in Keys
      BY Zenon, <2>2, EntriesAreKeys
    <3>2. CASE order' = MoveToEnd(order, k)
      BY Zenon, <3>1, <3>2, OrderMoved
    <3>3. CASE order' = order
      BY Zenon, <1>2, <2>2, <3>3 DEF OrderOK
    <3> QED BY Zenon, <2>1, <3>2, <3>3
  <2>6. Relaxes(dirs, dirs', r, s)
    <3> HIDE DEF s
    <3> QED BY Zenon, <1>3, <2>2, <2>4, ClaimRelaxes
  <2> QED BY ZenonT(30), <1>1, <1>2, <2>1, <2>4, <2>5, <2>6, LimitKept
<1>5. CASE ~Creatable(k, f)
  <2> DEFINE c == [pc |-> "remove", victims |-> <<k>>]
             s == Updated(r, c)
  <2>1. Step(p, c) /\ dirs' = dirs /\ order' = order
    BY Z3T(30), <1>5 DEF Open, OnDisk
  <2>2. s.pc = "remove" /\ s.victims = <<k>> /\ k \in Keys
    BY <1>1, Here, HasKey DEF Updated, Fields
  <2>3. VictimsOK(s) /\ \A e : Claims(e, s, k)
    <3> HIDE DEF s, Keys
    <3>1. <<k>> \in Seq(Keys) /\ k \in Members(<<k>>)
      BY <2>2 DEF Members
    <3>2. s.victims \in Seq(Keys) /\ k \in Members(s.victims) /\ s.pc # "unlink"
      BY Zenon, <2>2, <3>1
    <3> QED BY Zenon, <2>2, <3>2 DEF VictimsOK, Claims
  <2>4. Relaxes(dirs, dirs', r, s)
    <3> HIDE DEF s
    <3> QED BY Zenon, <1>3, <2>1, <2>3 DEF Relaxes
  <2>5. OrderOK(order', dirs')
    BY Zenon, <1>2, <2>1
  <2> QED BY ZenonT(30), <1>1, <1>2, <2>1, <2>3, <2>4, <2>5, LimitKept
<1> QED BY ZenonT(30), <1>4, <1>5

LEMMA LimitWrite ==
    ASSUME CacheInv, LimitInv, NEW p \in Procs, Write(p)
    PROVE  LimitInv'
<1> DEFINE r == proc[p]
           k == r.key
           f == Files[r.at]
<1>1. r.pc = "write" /\ r.pc \in HasArtifact /\ lane' = lane /\ order' = order
  BY DEF Write, At, HasArtifact
<1>2. \A x : x # k => ~Claims(dirs, r, x)
  BY <1>1 DEF Claims
<1>3. k \in Keys /\ DOMAIN r = Fields
  BY Zenon, <1>1, HasKey, Here
<1>4. DOMAIN dirs' = DOMAIN dirs /\ \A x \in DOMAIN dirs : x # k => dirs'[x] = dirs[x]
  BY DEF Write
<1>5. OrderOK(order', dirs')
  BY Zenon, <1>1, <1>4 DEF LimitInv, OrderOK
<1>6. ASSUME NEW c, Step(p, c), c = [pc |-> "open", at |-> r.at + 1] \/ c = [pc |-> "prune", at |-> 0], faults' = faults
      PROVE  LimitInv'
  <2> DEFINE s == Updated(r, c)
  <2>1. s.pc \in {"open", "prune"} /\ s.key = k
    BY Z3T(30), <1>3, <1>6 DEF Updated, Fields
  <2>2. VictimsOK(s) /\ \A e : Claims(e, s, k)
    <3> HIDE DEF s
    <3> QED BY <2>1 DEF VictimsOK, Claims
  <2>3. Relaxes(dirs, dirs', r, s)
    <3> HIDE DEF s
    <3> QED BY Zenon, <1>2, <1>4, <2>2, ClaimRelaxes
  <2>4. faults' \in Nat
    BY Zenon, <1>6 DEF LimitInv
  <2> QED BY Zenon, <1>1, <1>5, <1>6, <2>2, <2>3, <2>4, LimitKept
<1>7. ASSUME NEW c, Step(p, c), c = [pc |-> "remove", at |-> 0, victims |-> <<k>>], faults' = faults + 1
      PROVE  LimitInv'
  <2> DEFINE s == Updated(r, c)
  <2>1. s.pc = "remove" /\ s.victims = <<k>>
    BY Z3T(30), <1>3, <1>7 DEF Updated, Fields
  <2>2. VictimsOK(s)
    <3> HIDE DEF s, Keys
    <3>1. <<k>> \in Seq(Keys)
      BY <1>3
    <3> QED BY <2>1, <3>1 DEF VictimsOK
  <2>3. faults' \in Nat /\ faults' # 0
    BY Z3T(30), <1>7 DEF LimitInv
  <2> QED BY Zenon, <1>1, <1>5, <1>7, <2>2, <2>3, LimitKept
<1>8. \/ faults' = faults /\ \/ Step(p, [pc |-> "open", at |-> r.at + 1])
                             \/ Step(p, [pc |-> "prune", at |-> 0])
      \/ faults' = faults + 1 /\ Step(p, [pc |-> "remove", at |-> 0, victims |-> <<k>>])
  BY DEF Write
<1> QED BY Zenon, <1>6, <1>7, <1>8

LEMMA LimitRemoveEntry ==
    ASSUME CacheInv, LimitInv, NEW p \in Procs, RemoveEntry(p)
    PROVE  LimitInv'
<1> DEFINE r == proc[p]
           v == r.victims
<1>1. r.pc = "remove" /\ lane' = lane /\ faults' = faults /\ dirs' = dirs /\ order' = order /\ DOMAIN r = Fields
  BY Here DEF RemoveEntry, At, Bounds, OnDisk
<1>2. faults' \in Nat /\ OrderOK(order', dirs')
  BY ZenonT(30), <1>1 DEF LimitInv
<1>3. v \in Seq(Keys)
  BY <1>1 DEF LimitInv, VictimsOK
<1>4. \A x : Claims(dirs, r, x) <=> x \in Members(v)
  BY <1>1 DEF Claims
<1>5. CASE v = <<>>
  <2>1. Step(p, Continue(p))
    BY <1>5 DEF RemoveEntry
  <2>2. \A x : ~Claims(dirs, r, x)
    BY Z3T(30), <1>4, <1>5 DEF Members
  <2>3. VictimsOK(Updated(r, Continue(p)))
    BY Zenon, ContinueClaimsNothing, NoClaim
  <2>4. Relaxes(dirs, dirs', r, Updated(r, Continue(p)))
    BY Zenon, <1>1, <2>2 DEF Relaxes
  <2> QED BY ZenonT(30), <1>1, <1>2, <2>1, <2>3, <2>4, LimitKept
<1>6. CASE v # <<>> /\ Exists(Head(v))
  <2> DEFINE c == [pc |-> "unlink", todo |-> DOMAIN dirs[Head(v)]]
             s == Updated(r, c)
  <2>1. Step(p, c)
    BY Z3T(30), <1>6 DEF RemoveEntry
  <2>2. s.pc = "unlink" /\ s.victims = v /\ s.todo = DOMAIN dirs[Head(v)]
    BY <1>1 DEF Updated, Fields
  <2>3. VictimsOK(s) /\ \A x \in Members(v) : Claims(dirs, s, x)
    <3> HIDE DEF s, v
    <3> QED BY Zenon, <1>3, <1>6, <2>2 DEF VictimsOK, Claims
  <2>4. Relaxes(dirs, dirs', r, s)
    <3> HIDE DEF s, v
    <3> QED BY Zenon, <1>1, <1>4, <2>3 DEF Relaxes
  <2> QED BY Zenon, <1>1, <1>2, <2>1, <2>3, <2>4, LimitKept
<1>7. CASE v # <<>> /\ ~Exists(Head(v))
  <2> DEFINE c == [victims |-> Tail(v)]
             s == Updated(r, c)
  <2>1. Step(p, c)
    BY ZenonT(30), <1>7 DEF RemoveEntry
  <2>2. s.pc = "remove" /\ s.victims = Tail(v)
    BY <1>1 DEF Updated, Fields
  <2>3. Tail(v) \in Seq(Keys) /\ \A x \in Members(v) : x # Head(v) => x \in Members(Tail(v))
    BY <1>3, <1>7, TailMembers
  <2>4. VictimsOK(s) /\ \A x \in Members(v) : x # Head(v) => Claims(dirs, s, x)
    <3> HIDE DEF s, v
    <3> QED BY <2>2, <2>3 DEF VictimsOK, Claims
  <2>5. Relaxes(dirs, dirs', r, s)
    <3> HIDE DEF s, v
    <3> QED BY Zenon, <1>1, <1>4, <1>7, <2>4 DEF Relaxes, Exists
  <2> QED BY Zenon, <1>1, <1>2, <2>1, <2>4, <2>5, LimitKept
<1> QED BY ZenonT(30), <1>5, <1>6, <1>7

\* The process that removes the head of its victims.
LEMMA UnlinkClaims ==
    ASSUME NEW d, NEW r, r.pc = "unlink", NEW x
    PROVE  Claims(d, r, x) <=> x \in Members(r.victims) /\ (x = Head(r.victims) => DOMAIN d[x] \subseteq r.todo)
<1>1. r.pc \notin {"open", "write", "prune"} /\ r.pc # "remove"
  OBVIOUS
<1> QED BY Zenon, <1>1 DEF Claims

LEMMA LimitUnlink ==
    ASSUME CacheInv, LimitInv, NEW p \in Procs, Unlink(p)
    PROVE  LimitInv'
<1> DEFINE r == proc[p]
           v == r.victims
           k == Head(v)
<1>1. r.pc = "unlink" /\ lane' = lane /\ faults' = faults /\ DOMAIN r = Fields
  BY Z3T(30), Here DEF Unlink, At, Bounds
<1>2. v \in Seq(Keys) /\ v # <<>> /\ OrderOK(order, dirs) /\ faults' \in Nat
  BY <1>1 DEF LimitInv, VictimsOK
<1>3. PICK f \in r.todo :
        /\ Step(p, [todo |-> r.todo \ {f}])
        /\ IF Holds(k, f)
           THEN /\ dirs' = [dirs EXCEPT ![k] = Without(@, f)]
                /\ order' = IF "last_used" \in DOMAIN dirs'[k] THEN order ELSE MoveToEnd(order, k)
           ELSE UNCHANGED OnDisk
  BY Zenon DEF Unlink
<1> DEFINE c == [todo |-> r.todo \ {f}]
           s == Updated(r, c)
<1>4. s.pc = "unlink" /\ s.victims = v /\ s.todo = r.todo \ {f}
  BY <1>1 DEF Updated, Fields
<1>5. VictimsOK(s)
  <2> HIDE DEF s
  <2> QED BY Zenon, <1>2, <1>4 DEF VictimsOK
<1>6. /\ DOMAIN dirs' = DOMAIN dirs
      /\ \A x \in DOMAIN dirs : x # k => dirs'[x] = dirs[x]
      /\ k \in DOMAIN dirs => DOMAIN dirs'[k] = DOMAIN dirs[k] \ {f}
  <2>1. CASE Holds(k, f)
    <3> HIDE DEF k
    <3>1. k \in DOMAIN dirs /\ dirs' = [dirs EXCEPT ![k] = Without(@, f)]
      BY Z3T(30), <1>3, <2>1 DEF Holds, Exists
    <3> QED BY <3>1 DEF Without
  <2>2. CASE ~Holds(k, f)
    <3> HIDE DEF k
    <3>1. dirs' = dirs /\ (k \in DOMAIN dirs => f \notin DOMAIN dirs[k])
      BY <1>3, <2>2 DEF Holds, Exists, OnDisk
    <3> QED BY Z3T(30), <3>1
  <2> QED BY Zenon, <2>1, <2>2
<1>7. OrderOK(order', dirs')
  <2>1. CASE order' = order
    BY Zenon, <1>2, <1>6, <2>1 DEF OrderOK
  <2>2. CASE Holds(k, f) /\ order' = MoveToEnd(order, k)
    <3> HIDE DEF k
    <3>1. k \in DOMAIN dirs /\ k \in Keys /\ DOMAIN dirs' = DOMAIN dirs \cup {k}
      BY Zenon, <1>6, <2>2, EntriesAreKeys DEF Holds, Exists
    <3> QED BY Zenon, <2>2, <3>1, OrderMoved
  <2> QED BY Zenon, <1>3, <2>1, <2>2 DEF OnDisk
<1>8. Relaxes(dirs, dirs', r, s)
  <2> SUFFICES ASSUME NEW x \in DOMAIN dirs', ~Claims(dirs', s, x)
               PROVE  x \in DOMAIN dirs /\ DOMAIN dirs'[x] \subseteq DOMAIN dirs[x] /\ ~Claims(dirs, r, x)
    BY Zenon DEF Relaxes
  <2> HIDE DEF s, k
  <2>1. x \in DOMAIN dirs /\ DOMAIN dirs'[x] \subseteq DOMAIN dirs[x]
    BY Zenon, <1>6
  <2>2. ~(x \in Members(v) /\ (x = k => DOMAIN dirs'[x] \subseteq r.todo \ {f}))
    BY Zenon, <1>4, UnlinkClaims DEF k
  <2>3. x = k /\ DOMAIN dirs[x] \subseteq r.todo => DOMAIN dirs'[x] \subseteq r.todo \ {f}
    BY Zenon, <1>6
  <2>4. x # k => dirs'[x] = dirs[x]
    BY Zenon, <1>6
  <2>5. ~(x \in Members(v) /\ (x = k => DOMAIN dirs[x] \subseteq r.todo))
    BY Zenon, <2>2, <2>3, <2>4
  <2> QED BY Zenon, <1>1, <2>1, <2>5, UnlinkClaims DEF k
<1> QED BY ZenonT(30), <1>1, <1>2, <1>3, <1>5, <1>7, <1>8, LimitKept

LEMMA LimitRmdir ==
    ASSUME CacheInv, LimitInv, NEW p \in Procs, Rmdir(p)
    PROVE  LimitInv'
<1> DEFINE r == proc[p]
           v == r.victims
           k == Head(v)
           c == [pc |-> "remove", victims |-> Tail(v)]
           s == Updated(r, c)
<1>1. r.pc = "unlink" /\ r.todo = {} /\ lane' = lane /\ faults' = faults /\ DOMAIN r = Fields /\ Step(p, c)
  BY Z3T(30), Here DEF Rmdir, At, Bounds
<1>2. v \in Seq(Keys) /\ v # <<>> /\ OrderOK(order, dirs) /\ faults' \in Nat
  BY Z3T(30), <1>1 DEF LimitInv, VictimsOK
<1>3. s.pc = "remove" /\ s.victims = Tail(v)
  BY Z3T(30), <1>1 DEF Updated, Fields
<1>4. Tail(v) \in Seq(Keys) /\ \A x \in Members(v) : x # k => x \in Members(Tail(v))
  BY Z3T(30), <1>2, TailMembers
<1>5. VictimsOK(s) /\ \A e : \A x \in Members(v) : x # k => Claims(e, s, x)
  <2> HIDE DEF s, v, k
  <2> QED BY <1>3, <1>4 DEF VictimsOK, Claims
<1>6. \A x : Claims(dirs, r, x) <=> x \in Members(v) /\ (x = k => DOMAIN dirs[x] \subseteq {})
  BY Zenon, <1>1, UnlinkClaims
<1>7. CASE Exists(k) /\ DOMAIN dirs[k] = {}
  <2> HIDE DEF s, k
  <2>1. dirs' = Without(dirs, k) /\ order' = Drop(order, k)
    BY <1>7 DEF Rmdir, k
  <2>2. DOMAIN dirs' = DOMAIN dirs \ {k} /\ \A x \in DOMAIN dirs' : dirs'[x] = dirs[x]
    BY Zenon, <2>1, WithoutFacts
  <2>3. OrderOK(order', dirs')
    <3>1. order \in Seq(Keys) /\ Distinct(order) /\ Members(order) = DOMAIN dirs
      BY Zenon, <1>2 DEF OrderOK
    <3>2. Drop(order, k) \in Seq(Keys) /\ Distinct(Drop(order, k)) /\ Members(Drop(order, k)) = DOMAIN dirs \ {k}
      <4> HIDE DEF Keys
      <4> QED BY <3>1, DropFacts
    <3> QED BY Zenon, <2>1, <2>2, <3>2 DEF OrderOK
  <2>4. Relaxes(dirs, dirs', r, s)
    BY ZenonT(30), <1>5, <1>6, <2>2 DEF Relaxes
  <2> QED BY Zenon, <1>1, <1>2, <1>5, <2>3, <2>4, LimitKept DEF s
<1>8. CASE ~(Exists(k) /\ DOMAIN dirs[k] = {})
  <2> HIDE DEF s, k
  <2>1. dirs' = dirs /\ order' = order
    BY <1>8 DEF Rmdir, OnDisk, k
  <2>2. OrderOK(order', dirs')
    BY Zenon, <1>2, <2>1
  <2>3. ASSUME NEW x \in DOMAIN dirs, x = k
        PROVE  ~Claims(dirs, r, x)
    <3>1. DOMAIN dirs[x] # {}
      BY Zenon, <1>8, <2>3 DEF Exists
    <3>2. ~(DOMAIN dirs[x] \subseteq {})
      BY <3>1
    <3> QED BY Zenon, <1>6, <2>3, <3>2
  <2>4. Relaxes(dirs, dirs', r, s)
    BY Zenon, <1>5, <1>6, <2>1, <2>3 DEF Relaxes
  <2> QED BY Zenon, <1>1, <1>2, <1>5, <2>2, <2>4, LimitKept DEF s
<1> QED BY Zenon, <1>7, <1>8

\* The keys at b - a + 1 places of a sequence.
LEMMA AtMostPlaces ==
    ASSUME NEW s, NEW a \in Int, NEW b \in Int, NEW n \in Nat, b - a + 1 <= n
    PROVE  AtMost({s[i] : i \in a..b}, n)
<1> DEFINE f == [j \in 1..n |-> s[(a - 1) + j]]
<1>1. ASSUME NEW i \in a..b PROVE i - (a - 1) \in 1..n /\ (a - 1) + (i - (a - 1)) = i
  OBVIOUS
<1>2. \A i \in a..b : f[i - (a - 1)] = s[i]
  BY Zenon, <1>1
<1> HIDE DEF f
<1>3. {s[i] : i \in a..b} \subseteq {f[j] : j \in 1..n}
  BY Zenon, <1>1, <1>2
<1> QED BY Zenon, <1>3 DEF AtMost

LEMMA AtMostOneMore ==
    ASSUME NEW S, NEW n \in Nat, AtMost(S, n), NEW x
    PROVE  AtMost(S \cup {x}, n + 1)
<1>1. PICK f : S \subseteq {f[i] : i \in 1..n}
  BY Zenon DEF AtMost
<1> DEFINE g == [i \in 1..(n + 1) |-> IF i = n + 1 THEN x ELSE f[i]]
<1>2. n + 1 \in 1..(n + 1) /\ \A i \in 1..n : i \in 1..(n + 1) /\ i # n + 1
  OBVIOUS
<1>3. g[n + 1] = x /\ \A i \in 1..n : g[i] = f[i]
  BY Zenon, <1>2
<1> HIDE DEF g
<1>4. S \cup {x} \subseteq {g[i] : i \in 1..(n + 1)}
  BY Zenon, <1>1, <1>2, <1>3
<1> QED BY Zenon, <1>4 DEF AtMost

\* The victims are all but the kept entry and limit - 1 others.
LEMMA VictimsFacts ==
    ASSUME LimitInv, NEW k
    PROVE  Victims(k) \in Seq(Keys) /\ AtMost(DOMAIN dirs \ Members(Victims(k)), lane.limit)
<1>1. PICK others : others = Drop(order, k)
  BY Zenon
<1>2. order \in Seq(Keys) /\ Distinct(order) /\ Members(order) = DOMAIN dirs
  BY Zenon DEF LimitInv, OrderOK
<1>3. others \in Seq(Keys) /\ Members(others) = DOMAIN dirs \ {k}
  <2> HIDE DEF Keys
  <2> QED BY <1>1, <1>2, DropFacts
<1>4. PICK L : L = lane.limit
  BY Zenon
<1>5. L \in Nat /\ L >= 1 /\ L - 1 \in Nat
  BY <1>4, LimitIsNat
<1>6. PICK m : m = Len(others)
  BY Zenon
<1>7. m \in Nat /\ \A i \in 1..m : others[i] \in Keys
  <2> HIDE DEF Keys
  <2> QED BY <1>3, <1>6
<1>8. PICK n : n = m - (L - 1)
  BY Zenon
<1>9. n \in Int /\ m - (n + 1) + 1 <= L - 1 /\ n + 1 \in Int
  BY <1>5, <1>7, <1>8
<1>10. Victims(k) = [i \in 1..n |-> others[n + 1 - i]]
  BY Zenon, <1>1, <1>4, <1>6, <1>8 DEF Victims
<1>11. n <= m
  BY <1>5, <1>7, <1>8
<1> DEFINE kept == {others[i] : i \in (n + 1)..m}
<1>17. m \in Int
  BY <1>7
<1>12. AtMost(kept, L - 1)
  BY Zenon, <1>5, <1>7, <1>9, <1>17, AtMostPlaces
<1>13. AtMost(kept \cup {k}, L)
  <2>1. (L - 1) + 1 = L
    BY <1>5
  <2> HIDE DEF kept
  <2> QED BY Zenon, <1>5, <1>12, <2>1, AtMostOneMore
<1>14. CASE n <= 0
  <2>1. Victims(k) = <<>>
    BY <1>9, <1>10, <1>14
  <2>2. DOMAIN dirs \subseteq kept \cup {k}
    <3>1. 1..m \subseteq (n + 1)..m
      BY <1>7, <1>9, <1>14
    <3>2. Members(others) \subseteq kept
      BY Zenon, <1>6, <3>1 DEF Members
    <3> QED BY Zenon, <1>3, <3>2
  <2>3. <<>> \in Seq(Keys) /\ Members(<<>>) = {}
    BY DEF Members
  <2>4. DOMAIN dirs \ Members(Victims(k)) \subseteq kept \cup {k}
    BY Zenon, <2>1, <2>2
  <2> HIDE DEF kept
  <2> QED BY Zenon, <1>4, <1>5, <1>13, <2>1, <2>3, <2>4, FewerAtMost
<1>15. CASE n \in Nat
  <2>1. PICK w : w = Victims(k)
    BY Zenon
  <2>2. w = [i \in 1..n |-> others[n + 1 - i]]
    BY Zenon, <1>10, <2>1
  <2>3. \A i \in 1..n : n + 1 - i \in 1..n /\ n + 1 - i \in 1..m
    BY <1>7, <1>11, <1>15
  <2>4. w \in Seq(Keys) /\ Len(w) = n
    <3> HIDE DEF Keys
    <3>1. \A i \in 1..n : others[n + 1 - i] \in Keys
      BY Zenon, <1>7, <2>3
    <3> QED BY <1>15, <2>2, <3>1
  <2>5. \A i \in 1..n : n + 1 - i \in 1..n /\ w[n + 1 - i] = others[i]
    BY <1>15, <2>2
  <2>6. \A i \in 1..n : others[i] \in Members(w)
    BY Zenon, <2>4, <2>5 DEF Members
  <2>7. DOMAIN dirs \ Members(w) \subseteq kept \cup {k}
    <3> SUFFICES ASSUME NEW x \in DOMAIN dirs, x \notin Members(w), x # k
                 PROVE  x \in kept
      BY Zenon
    <3>1. PICK i \in 1..m : x = others[i]
      BY Zenon, <1>3, <1>6 DEF Members
    <3>2. i \notin 1..n
      BY Zenon, <2>6, <3>1
    <3>3. i \in (n + 1)..m
      BY <1>7, <1>15, <3>2
    <3> QED BY Zenon, <3>1, <3>3
  <2> HIDE DEF kept
  <2> QED BY Zenon, <1>4, <1>5, <1>13, <2>1, <2>4, <2>7, FewerAtMost
<1>16. n <= 0 \/ n \in Nat
  BY <1>9
<1> QED BY Zenon, <1>14, <1>15, <1>16

LEMMA LimitList ==
    ASSUME CacheInv, LimitInv, NEW p \in Procs, List(p)
    PROVE  LimitInv'
<1> DEFINE r == proc[p]
           w == Victims(r.key)
           c == [pc |-> "remove", victims |-> w]
           s == Updated(r, c)
<1>1. lane' = lane /\ faults' = faults /\ dirs' = dirs /\ order' = order /\ Step(p, c) /\ DOMAIN r = Fields
  BY Here DEF List, Bounds, OnDisk
<1> HIDE DEF w
<1>2. s.pc = "remove" /\ s.victims = w
  BY <1>1 DEF Updated, Fields
<1>3. w \in Seq(Keys) /\ AtMost(DOMAIN dirs \ Members(w), lane.limit) /\ lane.limit \in Nat
  BY Zenon, VictimsFacts, LimitIsNat DEF w
<1>4. VictimsOK(s) /\ \A x \in Members(w) : Claims(dirs, s, x)
  <2> HIDE DEF s
  <2> QED BY <1>2, <1>3 DEF VictimsOK, Claims
<1>5. \A q \in Procs : VictimsOK(proc'[q])
  BY Zenon, <1>1, <1>4, OneStep DEF LimitInv
<1>6. Loose(dirs', proc') \subseteq DOMAIN dirs \ Members(w)
  <2>1. proc'[p] = s
    BY Zenon, <1>1, OneStep
  <2> HIDE DEF s
  <2> QED BY Zenon, <1>1, <1>4, <2>1 DEF Loose
<1>7. AtMost(Loose(dirs', proc'), lane'.limit)
  BY Zenon, <1>1, <1>3, <1>6, FewerAtMost
<1> QED BY Zenon, <1>1, <1>5, <1>7 DEF LimitInv

LEMMA LimitNext ==
    ASSUME CacheInv, LimitInv, [Next]_vars
    PROVE  LimitInv'
<1>1. CASE UNCHANGED vars
  <2>1. lane' = lane /\ faults' = faults /\ dirs' = dirs /\ order' = order /\ proc' = proc
    BY <1>1 DEF vars
  <2> QED BY Zenon, <2>1 DEF LimitInv
<1>2. CASE Edit
  <2>1. lane' = lane /\ faults' = faults /\ dirs' = dirs /\ order' = order /\ proc' = proc
    BY <1>2 DEF Edit, OnDisk
  <2> QED BY Zenon, <2>1 DEF LimitInv
<1>3. ASSUME NEW p \in Procs,
             \/ Start(p) \/ Lookup(p) \/ ReadFile(p) \/ Touch(p) \/ Load(p)
             \/ Make(p) \/ Open(p) \/ Write(p)
             \/ List(p) \/ RemoveEntry(p) \/ Unlink(p) \/ Rmdir(p)
             \/ End(p) \/ Stamp(p) \/ Refresh(p) \/ Crash(p)
      PROVE  LimitInv'
  BY Zenon, <1>3, LimitSimple, LimitTouch, LimitMake, LimitOpen, LimitWrite, LimitList, LimitRemoveEntry,
     LimitUnlink, LimitRmdir, LimitCrash
<1> QED BY Zenon, <1>1, <1>2, <1>3 DEF Next

LEMMA LimitInit == Init => LimitInv
<1> SUFFICES ASSUME Init PROVE LimitInv
  OBVIOUS
<1>1. lane \in Lanes /\ faults = 0 /\ dirs = <<>> /\ order = <<>> /\ proc = [p \in Procs |-> Idle]
  BY DEF Init
<1>2. OrderOK(order, dirs)
  BY <1>1 DEF OrderOK, Members, Distinct
<1>3. \A p \in Procs : VictimsOK(proc[p])
  <2>1. Idle.pc \in Unclaiming
    BY DEF Idle, Unclaiming
  <2> QED BY Zenon, <1>1, <2>1, NoClaim
<1>4. AtMost(Loose(dirs, proc), lane.limit)
  <2>1. Loose(dirs, proc) = {}
    BY <1>1 DEF Loose
  <2> QED BY Zenon, <2>1 DEF AtMost
<1> QED BY Zenon, <1>1, <1>2, <1>3, <1>4 DEF LimitInv

LEMMA LimitInvariant == Spec => [](CacheInv /\ LimitInv)
<1>1. CacheInv /\ LimitInv /\ [Next]_vars => (CacheInv /\ LimitInv)'
  BY Zenon, StepNext, LimitNext
<1>2. Init => CacheInv /\ LimitInv
  BY Zenon, CacheInit, LimitInit
<1> QED BY <1>1, <1>2, PTL DEF Spec

-----------------------------------------------------------------------------
(* Builds in sequence keep the most recently used entries. *)

\* o is the last n of u, or all of u when there are no more.
Latest(o, u, n) ==
    /\ Len(o) = IF n < Len(u) THEN n ELSE Len(u)
    /\ \A i \in 1..Len(o) : o[i] = u[Len(u) - Len(o) + i]

\* ... which is u from place h + 1 on.
From(o, u, n, m, h) ==
    /\ m = Len(o) /\ Len(u) = h + m /\ m = (IF n < h + m THEN n ELSE h + m)
    /\ \A j \in 1..m : o[j] = u[h + j]

LEMMA LatestOffset ==
    ASSUME NEW S, NEW o \in Seq(S), NEW u \in Seq(S), NEW n \in Nat, Latest(o, u, n)
    PROVE  \E m, h \in Nat : From(o, u, n, m, h)
<1>1. PICK m, t : m = Len(o) /\ t = Len(u)
  BY Zenon
<1>2. m \in Nat /\ t \in Nat
  BY <1>1
<1>3. m = IF n < t THEN n ELSE t
  BY Zenon, <1>1 DEF Latest
<1>4. PICK h : h = t - m
  BY Zenon
<1>5. h \in Nat /\ t = h + m
  BY <1>2, <1>3, <1>4
<1>6. \A j \in 1..m : o[j] = u[h + j]
  BY Zenon, <1>1, <1>4 DEF Latest
<1>7. m = IF n < h + m THEN n ELSE h + m
  BY <1>3, <1>5
<1>8. From(o, u, n, m, h)
  BY Zenon, <1>1, <1>5, <1>6, <1>7 DEF From
<1> QED BY Zenon, <1>2, <1>5, <1>8

LEMMA IsLatest ==
    ASSUME NEW o, NEW u, NEW m \in Nat, NEW h \in Nat, NEW n \in Nat, Len(o) = m, Len(u) = h + m,
           m = (IF n < h + m THEN n ELSE h + m), \A j \in 1..m : o[j] = u[h + j]
    PROVE  Latest(o, u, n)
<1>1. (h + m) - m = h
  OBVIOUS
<1> QED BY Zenon, <1>1 DEF Latest

LEMMA LatestMoved ==
    ASSUME NEW S, NEW o \in Seq(S), Distinct(o), NEW u \in Seq(S), Distinct(u), NEW n \in Nat,
           Latest(o, u, n), NEW k \in Members(o)
    PROVE  Latest(MoveToEnd(o, k), MoveToEnd(u, k), n)
<1>1. PICK i \in 1..Len(o) : k = o[i]
  BY Zenon DEF Members
<1>2. PICK m, h \in Nat : From(o, u, n, m, h)
  BY Zenon, LatestOffset
<1>19. /\ m = Len(o) /\ Len(u) = h + m /\ m = (IF n < h + m THEN n ELSE h + m)
       /\ \A j \in 1..m : o[j] = u[h + j]
  BY Zenon, <1>2 DEF From
<1>3. i \in 1..m
  BY Zenon, <1>1, <1>19
<1>4. h + i \in 1..(h + m) /\ k = u[h + i]
  <2>1. h + i \in 1..(h + m)
    BY <1>3
  <2> QED BY Zenon, <1>1, <1>19, <1>3, <2>1
<1>5. k \in S
  BY <1>1
<1>6. PICK a, b : a = Drop(o, k) /\ b = Drop(u, k)
  BY Zenon
<1>7. /\ a \in Seq(S) /\ Len(a) = m - 1
      /\ \A j \in 1..(m - 1) : a[j] = IF j < i THEN o[j] ELSE o[j + 1]
  <2>1. Gap(S, o, i, a)
    BY Zenon, <1>1, <1>6, DropAt
  <2> QED BY Zenon, <1>19, <2>1 DEF Gap
<1>8. /\ b \in Seq(S) /\ Len(b) = (h + m) - 1
      /\ \A j \in 1..((h + m) - 1) : b[j] = IF j < h + i THEN u[j] ELSE u[j + 1]
  <2>1. h + i \in 1..Len(u)
    BY Zenon, <1>4, <1>19
  <2>2. Gap(S, u, h + i, b)
    BY Zenon, <1>4, <1>6, <2>1, DropAt
  <2> QED BY Zenon, <1>19, <2>2 DEF Gap
<1>9. ASSUME NEW j \in 1..(m - 1) PROVE a[j] = b[h + j]
  <2>1. /\ h + j \in 1..((h + m) - 1) /\ (j < i <=> h + j < h + i) /\ (h + j) + 1 = h + (j + 1)
        /\ j \in 1..m /\ j + 1 \in 1..m
    BY <1>3
  <2>2. o[j] = u[h + j] /\ o[j + 1] = u[(h + j) + 1]
    <3>1. o[j + 1] = u[h + (j + 1)]
      BY Zenon, <1>19, <2>1
    <3> QED BY Zenon, <1>19, <2>1, <3>1
  <2>3. b[h + j] = IF h + j < h + i THEN u[h + j] ELSE u[(h + j) + 1]
    BY Zenon, <1>8, <2>1
  <2> QED BY Zenon, <1>7, <2>1, <2>2, <2>3
<1>10. PICK x, y : x = Append(a, k) /\ y = Append(b, k)
  BY Zenon
<1>11. Len(x) = m /\ x[m] = k /\ \A j \in 1..(m - 1) : x[j] = a[j]
  <2>1. a \in Seq(S) /\ Len(a) = m - 1
    BY Zenon, <1>7
  <2>2. m \in Nat /\ m >= 1
    BY <1>3
  <2> QED BY <1>5, <1>10, <2>1, <2>2
<1>12. PICK g : g = h + m
  BY Zenon
<1>13. g \in Nat /\ g >= 1 /\ Len(b) = g - 1
  <2>1. g \in Nat /\ g >= 1
    BY <1>3, <1>12
  <2>2. Len(b) = g - 1
    BY Zenon, <1>8, <1>12
  <2> QED BY Zenon, <2>1, <2>2
<1>14. Len(y) = g /\ y[g] = k /\ \A j \in 1..(g - 1) : y[j] = b[j]
  <2>1. b \in Seq(S)
    BY Zenon, <1>8
  <2> QED BY Z3T(30), <1>5, <1>10, <1>13, <2>1
<1>15. ASSUME NEW j \in 1..m PROVE x[j] = y[h + j]
  <2>1. CASE j = m
    BY Zenon, <1>11, <1>12, <1>14, <2>1
  <2>2. CASE j \in 1..(m - 1)
    <3>1. h + j \in 1..(g - 1)
      BY Z3T(30), <1>12, <2>2
    <3> QED BY Zenon, <1>9, <1>11, <1>14, <2>2, <3>1
  <2>3. j = m \/ j \in 1..(m - 1)
    OBVIOUS
  <2> QED BY Zenon, <2>1, <2>2, <2>3
<1>16. Latest(x, y, n)
  BY Zenon, <1>19, <1>11, <1>12, <1>14, <1>15, IsLatest
<1> QED BY Zenon, <1>6, <1>10, <1>16 DEF MoveToEnd

\* Taking away the end that was added.
LEMMA DropEnd ==
    ASSUME NEW S, NEW s \in Seq(S), Distinct(s), NEW k \in S, k \notin Members(s)
    PROVE  Drop(Append(s, k), k) = s
<1>1. PICK t : t = Append(s, k)
  BY Zenon
<1>2. t \in Seq(S) /\ Distinct(t)
  BY <1>1, AppendFacts
<1>3. Len(t) = Len(s) + 1 /\ Len(s) \in Nat /\ t[Len(s) + 1] = k /\ \A i \in 1..Len(s) : t[i] = s[i]
  BY <1>1
<1>4. Len(s) + 1 \in 1..Len(t)
  BY <1>3
<1>5. PICK d : d = Drop(t, k)
  BY Zenon
<1>6. /\ d \in Seq(S) /\ Len(d) = Len(t) - 1
      /\ \A j \in 1..(Len(t) - 1) : d[j] = IF j < Len(s) + 1 THEN t[j] ELSE t[j + 1]
  <2>1. Gap(S, t, Len(s) + 1, d)
    BY Zenon, <1>2, <1>3, <1>4, <1>5, DropAt
  <2> QED BY Zenon, <2>1 DEF Gap
<1>7. Len(d) = Len(s) /\ \A j \in 1..Len(s) : d[j] = s[j]
  BY Z3T(30), <1>3, <1>6
<1>8. d = s
  BY <1>6, <1>7
<1> QED BY Zenon, <1>1, <1>5, <1>8

LEMMA DropMoved ==
    ASSUME NEW S, NEW s \in Seq(S), Distinct(s), NEW k \in S
    PROVE  Drop(MoveToEnd(s, k), k) = Drop(s, k)
<1>1. PICK d : d = Drop(s, k)
  BY Zenon
<1>2. d \in Seq(S) /\ Distinct(d) /\ k \notin Members(d)
  BY <1>1, DropFacts
<1>3. Drop(Append(d, k), k) = d
  BY <1>2, DropEnd
<1> QED BY Zenon, <1>1, <1>3 DEF MoveToEnd

LEMMA LastMoved ==
    ASSUME NEW S, NEW s \in Seq(S), Distinct(s), NEW k \in S
    PROVE  MoveToEnd(s, k) # <<>> /\ MoveToEnd(s, k)[Len(MoveToEnd(s, k))] = k
<1>1. PICK d : d = Drop(s, k)
  BY Zenon
<1>2. d \in Seq(S)
  BY <1>1, DropFacts
<1>3. Append(d, k) # <<>> /\ Append(d, k)[Len(Append(d, k))] = k
  BY <1>2
<1> QED BY Zenon, <1>1, <1>3 DEF MoveToEnd

\* A new key after the last n of u, and u with that key at its end.
LEMMA LatestAdded ==
    ASSUME NEW S, NEW o \in Seq(S), Distinct(o), NEW u \in Seq(S), Distinct(u), NEW n \in Nat,
           Latest(o, u, n), NEW k \in S, k \notin Members(o)
    PROVE  Latest(Append(o, k), MoveToEnd(u, k), n + 1)
<1>1. PICK m, h \in Nat : From(o, u, n, m, h)
  BY Zenon, LatestOffset
<1>19. /\ m = Len(o) /\ Len(u) = h + m /\ m = (IF n < h + m THEN n ELSE h + m)
       /\ \A j \in 1..m : o[j] = u[h + j]
  BY Zenon, <1>1 DEF From
<1>2. PICK g : g = h + m
  BY Zenon
<1>3. PICK x : x = Append(o, k)
  BY Zenon
<1>4. Len(x) = m + 1 /\ x[m + 1] = k /\ \A j \in 1..m : x[j] = o[j]
  BY <1>19, <1>3
<1>5. PICK b, y : b = Drop(u, k) /\ y = Append(b, k)
  BY Zenon
<1>20. g \in Nat /\ Len(u) = g
  BY <1>19, <1>2
<1>6. CASE k \notin Members(u)
  <2>1. b = u
    BY Zenon, <1>5, <1>6, DropAbsent
  <2>2. Len(y) = g + 1 /\ y[g + 1] = k /\ \A j \in 1..g : y[j] = u[j]
    BY <1>5, <1>20, <2>1
  <2>3. ASSUME NEW j \in 1..(m + 1) PROVE x[j] = y[h + j]
    <3>1. CASE j = m + 1
      <4>1. h + j = g + 1
        BY <1>2, <3>1
      <4> QED BY Zenon, <1>4, <2>2, <3>1, <4>1
    <3>2. CASE j \in 1..m
      <4>1. h + j \in 1..g
        BY <1>2, <3>2
      <4> QED BY Zenon, <1>19, <1>4, <2>2, <3>2, <4>1
    <3>3. j = m + 1 \/ j \in 1..m
      BY Z3T(30)
    <3> QED BY Zenon, <3>1, <3>2, <3>3
  <2>4. /\ m + 1 \in Nat /\ n + 1 \in Nat /\ Len(y) = h + (m + 1)
        /\ m + 1 = IF n + 1 < h + (m + 1) THEN n + 1 ELSE h + (m + 1)
    <3>1. g + 1 = h + (m + 1)
      BY <1>2
    <3>2. m + 1 = IF n + 1 < h + (m + 1) THEN n + 1 ELSE h + (m + 1)
      BY <1>19
    <3> QED BY <2>2, <3>1, <3>2
  <2>5. Latest(x, y, n + 1)
    BY Zenon, <1>4, <2>3, <2>4, IsLatest
  <2> QED BY Zenon, <1>3, <1>5, <2>5 DEF MoveToEnd
<1>7. CASE k \in Members(u)
  <2>1. PICK i \in 1..g : k = u[i]
    BY Zenon, <1>20, <1>7 DEF Members
  <2>2. i <= h
    <3> SUFFICES ASSUME ~(i <= h) PROVE FALSE
      BY Zenon
    <3>1. i - h \in 1..m /\ h + (i - h) = i
      BY <1>2, <2>1
    <3>2. o[i - h] = k
      BY Zenon, <1>19, <2>1, <3>1
    <3> QED BY Zenon, <1>19, <3>1, <3>2 DEF Members
  <2>3. m = n /\ h >= 1
    BY Z3T(30), <1>19, <1>2, <2>1, <2>2
  <2>4. /\ b \in Seq(S) /\ Len(b) = g - 1
        /\ \A j \in 1..(g - 1) : b[j] = IF j < i THEN u[j] ELSE u[j + 1]
    <3>1. Gap(S, u, i, b)
      BY Zenon, <1>20, <1>5, <2>1, DropAt
    <3> QED BY Zenon, <1>20, <3>1 DEF Gap
  <2>5. Len(y) = g /\ y[g] = k /\ \A j \in 1..(g - 1) : y[j] = b[j]
    BY Z3T(30), <1>20, <1>5, <2>1, <2>4
  <2>6. PICK l \in Nat : h = l + 1
    <3>1. h - 1 \in Nat /\ h = (h - 1) + 1
      BY <2>3
    <3> QED BY Zenon, <3>1
  <2>7. ASSUME NEW j \in 1..(m + 1) PROVE x[j] = y[l + j]
    <3>1. CASE j = m + 1
      <4>1. l + j = g
        BY <1>2, <2>6, <3>1
      <4> QED BY Zenon, <1>4, <2>5, <3>1, <4>1
    <3>2. CASE j \in 1..m
      <4>1. l + j \in 1..(g - 1) /\ ~(l + j < i) /\ (l + j) + 1 = h + j
        BY <1>2, <2>1, <2>2, <2>6, <3>2
      <4>2. y[l + j] = u[h + j]
        BY Zenon, <2>4, <2>5, <4>1
      <4> QED BY Zenon, <1>19, <1>4, <3>2, <4>2
    <3>3. j = m + 1 \/ j \in 1..m
      OBVIOUS
    <3> QED BY Zenon, <3>1, <3>2, <3>3
  <2>8. /\ m + 1 \in Nat /\ n + 1 \in Nat /\ g = l + (m + 1)
        /\ m + 1 = IF n + 1 < l + (m + 1) THEN n + 1 ELSE l + (m + 1)
    BY <1>2, <2>3, <2>6
  <2>9. Latest(x, y, n + 1)
    <3>1. Len(y) = l + (m + 1)
      BY Zenon, <2>5, <2>8
    <3> QED BY Zenon, <1>4, <2>7, <2>8, <3>1, IsLatest
  <2> QED BY Zenon, <1>3, <1>5, <2>9 DEF MoveToEnd
<1> QED BY Zenon, <1>6, <1>7

\* Without its oldest, the last n + 1 are the last n.
LEMMA LatestWithoutFirst ==
    ASSUME NEW S, NEW o \in Seq(S), Distinct(o), NEW u \in Seq(S), NEW n \in Nat,
           Latest(o, u, n + 1), Len(o) = n + 1
    PROVE  1 \in 1..Len(o) /\ Latest(Drop(o, o[1]), u, n)
<1>1. 1 \in 1..Len(o)
  OBVIOUS
<1>2. PICK d : d = Drop(o, o[1])
  BY Zenon
<1>3. /\ Len(d) = Len(o) - 1
      /\ \A j \in 1..(Len(o) - 1) : d[j] = IF j < 1 THEN o[j] ELSE o[j + 1]
  BY Zenon, <1>1, <1>2, DropAt DEF Gap
<1>4. Len(d) = n /\ \A j \in 1..n : d[j] = o[j + 1] /\ j + 1 \in 1..Len(o)
  BY <1>3
<1>5. PICK h \in Nat : Len(u) = h + (n + 1) /\ \A j \in 1..(n + 1) : o[j] = u[h + j]
  <2>1. n + 1 \in Nat
    OBVIOUS
  <2>2. PICK m, h \in Nat : From(o, u, n + 1, m, h)
    BY Zenon, <2>1, LatestOffset
  <2> QED BY Zenon, <2>2 DEF From
<1>6. h + 1 \in Nat /\ Len(u) = (h + 1) + n /\ n = IF n < (h + 1) + n THEN n ELSE (h + 1) + n
  BY <1>5
<1>7. ASSUME NEW j \in 1..n PROVE d[j] = u[(h + 1) + j]
  <2>1. j + 1 \in 1..(n + 1) /\ h + (j + 1) = (h + 1) + j
    OBVIOUS
  <2> QED BY Zenon, <1>4, <1>5, <2>1
<1>8. Latest(d, u, n)
  BY Zenon, <1>4, <1>6, <1>7, IsLatest
<1> QED BY Zenon, <1>1, <1>2, <1>8

\* What is pruned after a hit or a store in sequence: at most the oldest entry.
LEMMA PruneOne ==
    ASSUME LimitInv, NEW u \in Seq(Keys), NEW n \in {lane.limit, lane.limit + 1}, Latest(order, u, n),
           order # <<>>, NEW k, order[Len(order)] = k
    PROVE  \/ Victims(k) = <<>> /\ Latest(order, u, lane.limit)
           \/ \E v \in DOMAIN dirs : Victims(k) = <<v>> /\ Latest(Drop(order, v), u, lane.limit)
<1>1. order \in Seq(Keys) /\ Distinct(order) /\ Members(order) = DOMAIN dirs
  BY Zenon DEF LimitInv, OrderOK
<1>2. PICK L, m : L = lane.limit /\ m = Len(order)
  BY Zenon
<1>3. L \in Nat /\ L >= 1
  BY Zenon, <1>2, LimitIsNat
<1>4. m \in Nat /\ m >= 1 /\ m \in 1..Len(order) /\ Len(u) \in Nat
  <2> HIDE DEF Keys
  <2> QED BY <1>1, <1>2
<1>5. PICK others : others = Drop(order, k)
  BY Zenon
<1>6. Len(others) = m - 1 /\ \A j \in 1..(m - 1) : others[j] = IF j < m THEN order[j] ELSE order[j + 1]
  <2>1. k = order[m]
    BY Zenon, <1>2
  <2> HIDE DEF Keys
  <2>2. Gap(Keys, order, m, others)
    BY Zenon, <1>1, <1>4, <1>5, <2>1, DropAt
  <2> QED BY Zenon, <1>2, <2>2 DEF Gap
<1>7. \A j \in 1..(m - 1) : others[j] = order[j]
  BY <1>4, <1>6
<1>8. Victims(k) = [i \in 1..(m - 1 - (L - 1)) |-> others[(m - 1 - (L - 1)) + 1 - i]]
  BY Zenon, <1>2, <1>5, <1>6 DEF Victims
<1>9. m <= L \/ (m = L + 1 /\ n = L + 1)
  BY <1>2, <1>3, <1>4 DEF Latest
<1>10. CASE m <= L
  <2>1. Victims(k) = <<>>
    BY Z3T(30), <1>3, <1>4, <1>8, <1>10
  <2>2. Latest(order, u, L)
    BY Z3T(30), <1>2, <1>3, <1>4, <1>10 DEF Latest
  <2> QED BY Zenon, <1>2, <2>1, <2>2
<1>11. CASE m = L + 1 /\ n = L + 1
  <2>1. 1 \in 1..Len(order) /\ Latest(Drop(order, order[1]), u, L)
    <3> HIDE DEF Keys
    <3> QED BY Zenon, <1>1, <1>2, <1>3, <1>11, LatestWithoutFirst
  <2>2. Victims(k) = <<order[1]>>
    <3>1. m - 1 - (L - 1) = 1 /\ 1 \in 1..(m - 1)
      BY <1>3, <1>11
    <3>2. Victims(k) = [i \in 1..1 |-> others[1 + 1 - i]]
      BY Zenon, <1>8, <3>1
    <3>3. Victims(k) = <<others[1]>>
      BY <3>2
    <3> QED BY Zenon, <1>7, <3>1, <3>3
  <2>3. order[1] \in DOMAIN dirs
    BY Zenon, <1>1, <2>1 DEF Members
  <2> QED BY Zenon, <1>2, <2>1, <2>2, <2>3
<1> QED BY Zenon, <1>9, <1>10, <1>11

\* The entry of k is as a store that succeeds leaves it.
Whole(d, k) == DOMAIN d[k] = {Files[i] : i \in DOMAIN Files} /\ \A f \in DOMAIN d[k] : d[k][f] \notin Procs

WholeBut(d, X) == \A k \in DOMAIN d \ X : Whole(d, k)

FilesTo(a) == {Files[i] : i \in 1..a}

\* Between two compilations: the last n keys of u, all of them whole.
Calm(d, o, u, n) == Latest(o, u, n) /\ WholeBut(d, {})

\* The entry of k comes on top of them; its first m files are there and the
\* first a - 1 are written.
Filling(k, a, m, d, o, u, n) ==
    /\ a \in 1..5 /\ k \in DOMAIN d
    /\ o = MoveToEnd(o, k) /\ Latest(Drop(o, k), u, n)
    /\ WholeBut(d, {k}) /\ DOMAIN d[k] = FilesTo(m)
    /\ \A f \in FilesTo(a - 1) : d[k][f] \notin Procs

\* The entry of k was stored or found; now there may be one too many.
Pruning(k, d, o, u, n) ==
    /\ o = MoveToEnd(o, k) /\ WholeBut(d, {})
    /\ \E m \in {n, n + 1} : Latest(o, u, m)

Removing(v, d, o, u, n) ==
    /\ WholeBut(d, {})
    /\ \/ v = <<>> /\ Latest(o, u, n)
       \/ \E x \in DOMAIN d : v = <<x>> /\ Latest(Drop(o, x), u, n)

Unlinking(v, todo, d, o, u, n) ==
    \E x \in DOMAIN d : v = <<x>> /\ Latest(Drop(o, x), u, n) /\ WholeBut(d, {x}) /\ DOMAIN d[x] = todo

Calming == {"idle", "lookup", "load", "make", "result", "refresh"}

\* Where the only process r stands, and what the cache looks like meanwhile.
Phase(r, p, d, o, u, n) ==
    /\ r.pc \in Calming => Calm(d, o, u, n)
    /\ r.pc \in {"read", "touch"} => Calm(d, o, u, n) /\ r.key \in DOMAIN d
    /\ r.pc = "open" => Filling(r.key, r.at, r.at - 1, d, o, u, n)
    /\ r.pc = "write" => Filling(r.key, r.at, r.at, d, o, u, n) /\ d[r.key][Files[r.at]] = p
    /\ r.pc = "prune" => Pruning(r.key, d, o, u, n)
    /\ r.pc = "remove" => Removing(r.victims, d, o, u, n)
    /\ r.pc = "unlink" => Unlinking(r.victims, r.todo, d, o, u, n)

\* Until processes overlap, one is killed or a write fails, at most one is
\* underway, and where it stands says how the cache differs from the last keys
\* used.
SeqInv ==
    /\ used \in Seq(Keys) /\ Distinct(used)
    /\ ~disturbed =>
         /\ Quiet => Calm(dirs, order, used, lane.limit)
         /\ \A p \in Procs : proc[p] # Idle =>
              /\ \A q \in Procs : q # p => proc[q] = Idle
              /\ Phase(proc[p], p, dirs, order, used, lane.limit)

LEMMA PhaseIs ==
    ASSUME NEW r, NEW p, NEW d, NEW o, NEW u, NEW n
    PROVE  /\ r.pc \in Calming /\ Calm(d, o, u, n) => Phase(r, p, d, o, u, n)
           /\ r.pc \in {"read", "touch"} /\ Calm(d, o, u, n) /\ r.key \in DOMAIN d => Phase(r, p, d, o, u, n)
           /\ r.pc = "open" /\ Filling(r.key, r.at, r.at - 1, d, o, u, n) => Phase(r, p, d, o, u, n)
           /\ r.pc = "write" /\ Filling(r.key, r.at, r.at, d, o, u, n) /\ d[r.key][Files[r.at]] = p
                => Phase(r, p, d, o, u, n)
           /\ r.pc = "prune" /\ Pruning(r.key, d, o, u, n) => Phase(r, p, d, o, u, n)
           /\ r.pc = "remove" /\ Removing(r.victims, d, o, u, n) => Phase(r, p, d, o, u, n)
           /\ r.pc = "unlink" /\ Unlinking(r.victims, r.todo, d, o, u, n) => Phase(r, p, d, o, u, n)
<1>1. /\ \A x \in Calming : x \notin {"read", "touch", "open", "write", "prune", "remove", "unlink"}
      /\ \A x \in {"read", "touch"} : x \notin Calming \cup {"open", "write", "prune", "remove", "unlink"}
      /\ {"open", "write", "prune", "remove", "unlink"} \cap (Calming \cup {"read", "touch"}) = {}
  BY Zenon DEF Calming
<1>2. r.pc \in Calming => Phase(r, p, d, o, u, n) \/ ~Calm(d, o, u, n)
  BY Zenon, <1>1 DEF Phase
<1>3. r.pc \in {"read", "touch"} /\ Calm(d, o, u, n) /\ r.key \in DOMAIN d => Phase(r, p, d, o, u, n)
  BY Zenon, <1>1 DEF Phase
<1>4. r.pc = "open" /\ Filling(r.key, r.at, r.at - 1, d, o, u, n) => Phase(r, p, d, o, u, n)
  BY Zenon, <1>1 DEF Phase
<1>5. r.pc = "write" /\ Filling(r.key, r.at, r.at, d, o, u, n) /\ d[r.key][Files[r.at]] = p
        => Phase(r, p, d, o, u, n)
  BY Zenon, <1>1 DEF Phase
<1>6. r.pc = "prune" /\ Pruning(r.key, d, o, u, n) => Phase(r, p, d, o, u, n)
  BY Zenon, <1>1 DEF Phase
<1>7. r.pc = "remove" /\ Removing(r.victims, d, o, u, n) => Phase(r, p, d, o, u, n)
  BY ZenonT(30), <1>1 DEF Phase
<1>8. r.pc = "unlink" /\ Unlinking(r.victims, r.todo, d, o, u, n) => Phase(r, p, d, o, u, n)
  BY <1>1 DEF Phase
<1> QED BY Zenon, <1>2, <1>3, <1>4, <1>5, <1>6, <1>7, <1>8

\* The process underway is the only one.
LEMMA Alone ==
    ASSUME SeqInv, ~disturbed, NEW p \in Procs, proc[p].pc # "idle"
    PROVE  /\ \A q \in Procs : q # p => proc[q] = Idle
           /\ Phase(proc[p], p, dirs, order, used, lane.limit)
<1>1. Idle.pc = "idle"
  BY DEF Idle
<1>2. proc[p] # Idle
  BY Zenon, <1>1
<1> QED BY Zenon, <1>2 DEF SeqInv

LEMMA SeqKept ==
    ASSUME CacheInv, NEW p \in Procs, NEW c, Step(p, c), lane' = lane, used' \in Seq(Keys), Distinct(used'),
           ~disturbed' => /\ \A q \in Procs : q # p => proc[q] = Idle
                          /\ Phase(Updated(proc[p], c), p, dirs', order', used', lane.limit)
    PROVE  SeqInv'
<1>1. proc'[p] = Updated(proc[p], c) /\ \A q \in Procs : q # p => proc'[q] = proc[q]
  BY Zenon, OneStep
<1>2. ASSUME ~disturbed'
      PROVE  /\ Phase(proc'[p], p, dirs', order', used', lane'.limit)
             /\ \A q \in Procs : q # p => proc'[q] = Idle
  BY Zenon, <1>1, <1>2
<1>3. ASSUME ~disturbed', Quiet'
      PROVE  Calm(dirs', order', used', lane'.limit)
  <2>1. proc'[p] = Idle
    BY Zenon, <1>3 DEF Quiet
  <2>2. Idle.pc \in Calming
    BY DEF Idle, Calming
  <2> QED BY Zenon, <1>2, <1>3, <2>1, <2>2 DEF Phase
<1>4. ASSUME ~disturbed', NEW q \in Procs, proc'[q] # Idle
      PROVE  /\ \A x \in Procs : x # q => proc'[x] = Idle
             /\ Phase(proc'[q], q, dirs', order', used', lane'.limit)
  <2>1. q = p
    BY Zenon, <1>2, <1>4
  <2> QED BY Zenon, <1>2, <1>4, <2>1
<1> QED BY Zenon, <1>3, <1>4 DEF SeqInv

\* Every step of a process that neither starts nor fails.
LEMMA SeqStep ==
    ASSUME CacheInv, SeqInv, NEW p \in Procs, NEW c, Step(p, c), lane' = lane, used' \in Seq(Keys), Distinct(used'),
           disturbed' = disturbed, proc[p].pc # "idle",
           Phase(proc[p], p, dirs, order, used, lane.limit)
             => Phase(Updated(proc[p], c), p, dirs', order', used', lane.limit)
    PROVE  SeqInv'
  BY Zenon, Alone, SeqKept

LEMMA SeqDisturbed ==
    ASSUME SeqInv, used' = used, disturbed' = TRUE
    PROVE  SeqInv'
  BY Zenon DEF SeqInv

\* The steps that leave the cache as it is, and find it as it should be.
LEMMA SeqCalm ==
    ASSUME CacheInv, SeqInv, NEW p \in Procs, NEW c, Step(p, c), lane' = lane, UNCHANGED <<OnDisk, used, disturbed>>,
           proc[p].pc \in {"lookup", "read", "load", "make", "result", "refresh"},
           Updated(proc[p], c).pc \in Calming
    PROVE  SeqInv'
<1>1. dirs' = dirs /\ order' = order /\ used' = used /\ disturbed' = disturbed
  BY Z3T(30) DEF OnDisk
<1>2. proc[p].pc \in Calming \cup {"read", "touch"} /\ proc[p].pc # "idle"
  BY DEF Calming
<1>3. ASSUME Phase(proc[p], p, dirs, order, used, lane.limit)
      PROVE  Phase(Updated(proc[p], c), p, dirs', order', used', lane.limit)
  <2>1. Calm(dirs, order, used, lane.limit)
    BY Zenon, <1>2, <1>3 DEF Phase
  <2> QED BY Zenon, <1>1, <2>1, PhaseIs
<1>4. used' \in Seq(Keys) /\ Distinct(used')
  BY Zenon, <1>1 DEF SeqInv
<1> QED BY Zenon, <1>1, <1>2, <1>3, <1>4, SeqStep

LEMMA SeqStart ==
    ASSUME CacheInv, SeqInv, NEW p \in Procs, Start(p)
    PROVE  SeqInv'
<1> DEFINE c == [pc |-> "lookup", key |-> <<text, stamp>>]
<1>1. /\ Step(p, c) /\ lane' = lane /\ dirs' = dirs /\ order' = order /\ used' = used
      /\ disturbed' = (disturbed \/ ~Quiet)
  BY ZenonT(30) DEF Start, OnDisk
<1>2. Updated(proc[p], c).pc \in Calming
  BY Here DEF Updated, Fields, Calming
<1>3. ASSUME ~disturbed'
      PROVE  /\ \A q \in Procs : q # p => proc[q] = Idle
             /\ Phase(Updated(proc[p], c), p, dirs', order', used', lane.limit)
  <2>1. Quiet /\ ~disturbed
    BY Zenon, <1>1, <1>3
  <2>2. Calm(dirs, order, used, lane.limit)
    BY Zenon, <2>1 DEF SeqInv
  <2> HIDE DEF c
  <2> QED BY Zenon, <1>1, <1>2, <2>1, <2>2, PhaseIs DEF Quiet
<1>4. used' \in Seq(Keys) /\ Distinct(used')
  BY Zenon, <1>1 DEF SeqInv
<1> HIDE DEF c
<1> QED BY Zenon, <1>1, <1>3, <1>4, SeqKept

\* A lookup that goes on found the entry.
LEMMA SeqReading ==
    ASSUME CacheInv, SeqInv, NEW p \in Procs, NEW c, Step(p, c), lane' = lane, UNCHANGED <<OnDisk, used, disturbed>>,
           proc[p].pc \in {"lookup", "read"},
           Updated(proc[p], c).pc \in {"read", "touch"}, Updated(proc[p], c).key \in DOMAIN dirs
    PROVE  SeqInv'
<1>1. dirs' = dirs /\ order' = order /\ used' = used /\ disturbed' = disturbed
  BY Z3T(30) DEF OnDisk
<1>2. proc[p].pc \in Calming \cup {"read", "touch"} /\ proc[p].pc # "idle"
  BY DEF Calming
<1>3. ASSUME Phase(proc[p], p, dirs, order, used, lane.limit)
      PROVE  Phase(Updated(proc[p], c), p, dirs', order', used', lane.limit)
  <2>1. Calm(dirs, order, used, lane.limit)
    BY Zenon, <1>2, <1>3 DEF Phase
  <2> QED BY Zenon, <1>1, <2>1, PhaseIs
<1>4. used' \in Seq(Keys) /\ Distinct(used')
  BY Zenon, <1>1 DEF SeqInv
<1> QED BY ZenonT(30), <1>1, <1>2, <1>3, <1>4, SeqStep

LEMMA SeqLookup ==
    ASSUME CacheInv, SeqInv, NEW p \in Procs, Lookup(p)
    PROVE  SeqInv'
<1> DEFINE r == proc[p]
<1>1. r.pc = "lookup" /\ lane' = lane /\ UNCHANGED <<OnDisk, used, disturbed>>
  BY Z3T(30) DEF Lookup, At, Bounds
<1>2. \/ Step(p, Goto("read")) /\ r.key \in DOMAIN dirs
      \/ Step(p, Goto("load"))
  BY DEF Lookup, Holds, Exists
<1>3. CASE Step(p, Goto("read")) /\ r.key \in DOMAIN dirs
  <2>1. Updated(r, Goto("read")).pc = "read" /\ Updated(r, Goto("read")).key = r.key
    BY Here DEF Updated, Fields, Goto
  <2> QED BY Zenon, <1>1, <1>3, <2>1, SeqReading
<1>4. CASE Step(p, Goto("load"))
  <2>1. Updated(r, Goto("load")).pc \in Calming
    BY Here DEF Updated, Fields, Goto, Calming
  <2> QED BY Zenon, <1>1, <1>4, <2>1, SeqCalm
<1> QED BY Zenon, <1>2, <1>3, <1>4

LEMMA SeqReadFile ==
    ASSUME CacheInv, SeqInv, NEW p \in Procs, ReadFile(p)
    PROVE  SeqInv'
<1> DEFINE r == proc[p]
<1>1. r.pc = "read" /\ lane' = lane /\ UNCHANGED <<OnDisk, used, disturbed>>
  BY DEF ReadFile, At, Bounds
<1>2. \E n : \/ Step(p, [pc |-> "load", seen |-> <<>>])
             \/ r.key \in DOMAIN dirs /\ \/ Step(p, [seen |-> n])
                                         \/ Step(p, [pc |-> "touch", seen |-> <<>>, art |-> n[2]])
  BY Zenon DEF ReadFile, Holds, Exists
<1>3. PICK n : \/ Step(p, [pc |-> "load", seen |-> <<>>])
               \/ r.key \in DOMAIN dirs /\ \/ Step(p, [seen |-> n])
                                           \/ Step(p, [pc |-> "touch", seen |-> <<>>, art |-> n[2]])
  BY Zenon, <1>2
<1>4. CASE Step(p, [pc |-> "load", seen |-> <<>>])
  <2>1. Updated(r, [pc |-> "load", seen |-> <<>>]).pc \in Calming
    BY Here DEF Updated, Fields, Calming
  <2> QED BY Zenon, <1>1, <1>4, <2>1, SeqCalm
<1>5. ASSUME NEW c, Step(p, c), r.key \in DOMAIN dirs,
             c = [seen |-> n] \/ c = [pc |-> "touch", seen |-> <<>>, art |-> n[2]]
      PROVE  SeqInv'
  <2>1. Updated(r, c).pc \in {"read", "touch"} /\ Updated(r, c).key = r.key
    BY Z3T(30), <1>1, <1>5, Here DEF Updated, Fields
  <2> QED BY ZenonT(30), <1>1, <1>5, <2>1, SeqReading
<1> QED BY ZenonT(30), <1>3, <1>4, <1>5

LEMMA ContinueIsCalm ==
    ASSUME CacheInv, NEW p \in Procs
    PROVE  Updated(proc[p], Continue(p)).pc \in Calming
<1>1. Updated(proc[p], Idle).pc \in Calming
  BY Z3T(30), Here, ToIdle DEF Calming
<1>2. Updated(proc[p], [pc |-> "result", victims |-> <<>>]).pc \in Calming
  BY Here DEF Updated, Fields, Calming
<1> QED BY Zenon, <1>1, <1>2 DEF Continue

LEMMA SeqLoadEndStampRefresh ==
    ASSUME CacheInv, SeqInv, NEW p \in Procs, Load(p) \/ End(p) \/ Stamp(p) \/ Refresh(p)
    PROVE  SeqInv'
<1> DEFINE r == proc[p]
<1>1. /\ r.pc \in {"lookup", "read", "load", "make", "result", "refresh"} /\ lane' = lane
      /\ UNCHANGED <<OnDisk, used, disturbed>>
  BY ZenonT(30) DEF Load, End, Stamp, Refresh, At, Bounds
<1>2. \/ Step(p, [pc |-> "make", art |-> text]) \/ Step(p, Idle) \/ Step(p, Goto("refresh"))
      \/ Step(p, [pc |-> "make", goal |-> "refresh", key |-> <<text, stamp>>])
  BY ZenonT(30) DEF Load, End, Stamp, Refresh
<1>3. /\ Updated(r, [pc |-> "make", art |-> text]).pc \in Calming
      /\ Updated(r, [pc |-> "make", goal |-> "refresh", key |-> <<text, stamp>>]).pc \in Calming
  BY ZenonT(30), Here DEF Updated, Fields, Calming
<1>4. Updated(r, Idle).pc \in Calming
  BY Z3T(30), Here, ToIdle DEF Calming
<1>5. Updated(r, Goto("refresh")).pc \in Calming
  BY Z3T(30), Here DEF Updated, Fields, Calming, Goto
<1> QED BY ZenonT(30), <1>1, <1>2, <1>3, <1>4, <1>5, SeqCalm

\* The key of a process underway, and what the history of used keys becomes.
LEMMA UsedMoved ==
    ASSUME SeqInv, NEW k \in Keys
    PROVE  MoveToEnd(used, k) \in Seq(Keys) /\ Distinct(MoveToEnd(used, k))
<1> HIDE DEF Keys
<1> QED BY Z3T(30), MoveFacts DEF SeqInv

LEMMA OrderIs ==
    ASSUME LimitInv
    PROVE  order \in Seq(Keys) /\ Distinct(order) /\ Members(order) = DOMAIN dirs
  BY Zenon DEF LimitInv, OrderOK

LEMMA MoveMoved ==
    ASSUME NEW S, NEW s \in Seq(S), Distinct(s), NEW k \in S
    PROVE  MoveToEnd(MoveToEnd(s, k), k) = MoveToEnd(s, k)
<1>1. Drop(MoveToEnd(s, k), k) = Drop(s, k)
  BY Zenon, DropMoved
<1> QED BY Zenon, <1>1 DEF MoveToEnd

LEMMA SeqTouch ==
    ASSUME CacheInv, LimitInv, SeqInv, NEW p \in Procs, Touch(p)
    PROVE  SeqInv'
<1> DEFINE r == proc[p]
           k == r.key
           s == Updated(r, Goto("prune"))
<1>1. /\ r.pc = "touch" /\ r.pc \in HasArtifact /\ Touched(k) /\ Step(p, Goto("prune")) /\ lane' = lane
      /\ used' = MoveToEnd(used, k) /\ disturbed' = disturbed
  BY ZenonT(30) DEF Touch, At, Bounds, HasArtifact
<1>2. s.pc = "prune" /\ s.key = k
  BY Here DEF Updated, Goto, Fields
<1>3. k \in Keys
  BY Zenon, <1>1, HasKey
<1>4. used' \in Seq(Keys) /\ Distinct(used')
  BY Zenon, <1>1, <1>3, UsedMoved
<1>5. ASSUME Phase(r, p, dirs, order, used, lane.limit)
      PROVE  Pruning(k, dirs', order', used', lane.limit)
  <2>1. Latest(order, used, lane.limit) /\ WholeBut(dirs, {}) /\ k \in DOMAIN dirs
    BY Zenon, <1>1, <1>5 DEF Phase, Calm
  <2>2. dirs' = [dirs EXCEPT ![k] = With(@, "last_used", None)] /\ order' = MoveToEnd(order, k)
    BY Zenon, <1>1, <2>1 DEF Touched, Exists
  <2>3. order \in Seq(Keys) /\ Distinct(order) /\ k \in Members(order)
    BY Zenon, <2>1, OrderIs
  <2>4. used \in Seq(Keys) /\ Distinct(used) /\ lane.limit \in Nat
    BY Zenon, LimitIsNat DEF SeqInv
  <2>5. Latest(order', used', lane.limit)
    BY Zenon, <1>1, <2>1, <2>2, <2>3, <2>4, LatestMoved
  <2>6. order' = MoveToEnd(order', k)
    BY Zenon, <1>3, <2>2, <2>3, MoveMoved
  <2>7. WholeBut(dirs', {})
    <3>1. DOMAIN dirs' = DOMAIN dirs /\ \A x \in DOMAIN dirs : x # k => dirs'[x] = dirs[x]
      BY <2>2
    <3>2. Whole(dirs, k)
      BY Zenon, <2>1 DEF WholeBut
    <3>3. dirs'[k] = With(dirs[k], "last_used", None)
      BY Z3T(30), <2>1, <2>2
    <3>4. "last_used" \in {Files[i] : i \in DOMAIN Files}
      <4>1. 4 \in DOMAIN Files /\ Files[4] = "last_used"
        BY Z3T(30) DEF Files
      <4> QED BY Zenon, <4>1
    <3>5. DOMAIN dirs'[k] = DOMAIN dirs[k]
      <4>1. "last_used" \in DOMAIN dirs[k]
        BY ZenonT(30), <3>2, <3>4 DEF Whole
      <4> QED BY Z3T(30), <3>3, <4>1 DEF With
    <3>6. \A f \in DOMAIN dirs[k] : dirs'[k][f] = None \/ dirs'[k][f] = dirs[k][f]
      BY <3>3 DEF With
    <3>7. None \notin Procs
      BY CompileCacheAssumption
    <3>8. Whole(dirs', k)
      BY Zenon, <3>2, <3>5, <3>6, <3>7 DEF Whole
    <3> QED BY Zenon, <2>1, <3>1, <3>8 DEF WholeBut, Whole
  <2> QED BY Zenon, <2>5, <2>6, <2>7 DEF Pruning
<1>6. r.pc # "idle"
  BY <1>1
<1> HIDE DEF s
<1> QED BY ZenonT(30), <1>1, <1>2, <1>4, <1>5, <1>6, PhaseIs, SeqStep DEF s

LEMMA FilesGrow ==
    ASSUME NEW a \in 1..5
    PROVE  /\ Files[a] \notin FilesTo(a - 1) /\ FilesTo(a) = FilesTo(a - 1) \cup {Files[a]}
           /\ a = 5 => FilesTo(a) = {Files[i] : i \in DOMAIN Files}
           /\ Len(Files) = 5
<1>1. Len(Files) = 5 /\ DOMAIN Files = 1..5
  BY DEF Files
<1>2. \A i, j \in 1..5 : Files[i] = Files[j] => i = j
  BY DEF Files
<1>3. \A i : i \in 1..a <=> i \in 1..(a - 1) \/ i = a
  OBVIOUS
<1>4. \A i \in 1..(a - 1) : i \in 1..5 /\ i # a
  OBVIOUS
<1> HIDE DEF Files
<1>5. Files[a] \notin FilesTo(a - 1)
  BY Zenon, <1>2, <1>4 DEF FilesTo
<1>6. FilesTo(a) = FilesTo(a - 1) \cup {Files[a]}
  BY Zenon, <1>3 DEF FilesTo
<1> QED BY Zenon, <1>1, <1>5, <1>6 DEF FilesTo

LEMMA SeqMake ==
    ASSUME CacheInv, LimitInv, SeqInv, NEW p \in Procs, Make(p)
    PROVE  SeqInv'
<1> DEFINE r == proc[p]
           k == r.key
<1>1. /\ r.pc = "make" /\ r.pc \in HasArtifact /\ r.pc \in Calming /\ r.pc # "idle" /\ lane' = lane
      /\ used' = used /\ disturbed' = disturbed
  BY DEF Make, At, Bounds, HasArtifact, Calming
<1>2. k \in Keys
  BY Zenon, <1>1, HasKey
<1>3. CASE Exists(k)
  <2>1. Step(p, Continue(p)) /\ UNCHANGED OnDisk
    BY Z3T(30), <1>3 DEF Make
  <2>2. r.pc \in {"lookup", "read", "load", "make", "result", "refresh"} /\ UNCHANGED <<OnDisk, used, disturbed>>
    BY Z3T(30), <1>1, <2>1
  <2> QED BY ZenonT(30), <1>1, <2>1, <2>2, ContinueIsCalm, SeqCalm
<1>4. CASE ~Exists(k)
  <2> DEFINE c == [pc |-> "open", at |-> 1]
             s == Updated(r, c)
  <2>1. Step(p, c) /\ dirs' = With(dirs, k, <<>>) /\ order' = MoveToEnd(order, k)
    BY ZenonT(30), <1>4 DEF Make
  <2>2. s.pc = "open" /\ s.key = k /\ s.at = 1
    BY Here DEF Updated, Fields
  <2>3. used' \in Seq(Keys) /\ Distinct(used')
    BY Zenon, <1>1 DEF SeqInv
  <2>4. ASSUME Phase(r, p, dirs, order, used, lane.limit)
        PROVE  Filling(k, 1, 1 - 1, dirs', order', used', lane.limit)
    <3>1. Latest(order, used, lane.limit) /\ WholeBut(dirs, {})
      BY Zenon, <1>1, <2>4 DEF Phase, Calm
    <3>2. order \in Seq(Keys) /\ Distinct(order) /\ k \notin Members(order)
      BY Zenon, <1>4, OrderIs DEF Exists
    <3>3. Drop(order', k) = order
      BY ZenonT(30), <1>2, <2>1, <3>2, DropMoved, DropAbsent
    <3>4. order' = MoveToEnd(order', k)
      BY ZenonT(30), <1>2, <2>1, <3>2, MoveMoved
    <3>5. /\ DOMAIN dirs' = DOMAIN dirs \cup {k} /\ dirs'[k] = <<>>
          /\ \A x \in DOMAIN dirs : x # k => dirs'[x] = dirs[x]
      BY <2>1 DEF With
    <3>6. WholeBut(dirs', {k})
      BY ZenonT(30), <3>1, <3>5 DEF WholeBut, Whole
    <3>7. FilesTo(1 - 1) = {} /\ DOMAIN dirs'[k] = {} /\ 1 \in 1..5
      BY <3>5 DEF FilesTo
    <3> QED BY ZenonT(30), <1>1, <3>1, <3>3, <3>4, <3>5, <3>6, <3>7 DEF Filling
  <2> HIDE DEF s, c
  <2>5. ASSUME Phase(r, p, dirs, order, used, lane.limit)
        PROVE  Phase(s, p, dirs', order', used', lane.limit)
    <3>1. Filling(s.key, s.at, s.at - 1, dirs', order', used', lane.limit)
      BY Zenon, <2>2, <2>4, <2>5
    <3> QED BY Zenon, <2>2, <3>1, PhaseIs
  <2> QED BY Zenon, <1>1, <2>1, <2>3, <2>5, SeqStep DEF s
<1> QED BY ZenonT(30), <1>3, <1>4

LEMMA SeqOpen ==
    ASSUME CacheInv, LimitInv, SeqInv, NEW p \in Procs, Open(p)
    PROVE  SeqInv'
<1> DEFINE r == proc[p]
           k == r.key
           a == r.at
           f == Files[a]
<1>1. r.pc = "open" /\ r.pc # "idle" /\ lane' = lane /\ used' = used /\ disturbed' = disturbed
  BY DEF Open, At, Bounds
<1>2. used' \in Seq(Keys) /\ Distinct(used')
  BY Zenon, <1>1 DEF SeqInv
<1>3. CASE disturbed
  <2>1. disturbed' = TRUE
    BY Zenon, <1>1, <1>3
  <2> QED BY Zenon, <1>1, <2>1, SeqDisturbed
<1>4. CASE ~disturbed
  <2>1. Filling(k, a, a - 1, dirs, order, used, lane.limit)
    BY Zenon, <1>1, <1>4, Alone DEF Phase
  <2>2. /\ a \in 1..5 /\ k \in DOMAIN dirs
        /\ order = MoveToEnd(order, k) /\ Latest(Drop(order, k), used, lane.limit)
        /\ WholeBut(dirs, {k}) /\ DOMAIN dirs[k] = FilesTo(a - 1)
        /\ \A g \in FilesTo(a - 1) : dirs[k][g] \notin Procs
    BY Zenon, <2>1 DEF Filling
  <2> HIDE DEF a
  <2>3. f \notin FilesTo(a - 1) /\ FilesTo(a) = FilesTo(a - 1) \cup {f}
    BY Zenon, <2>2, FilesGrow
  <2>4. Creatable(k, f)
    BY Zenon, <2>2, <2>3 DEF Creatable, Exists
  <2> DEFINE s == Updated(r, Goto("write"))
  <2>5. /\ Step(p, Goto("write")) /\ dirs' = [dirs EXCEPT ![k] = With(@, f, p)]
        /\ order' = MoveToEnd(order, k) \/ order' = order
    BY Zenon, <2>4 DEF Open, a
  <2>6. order' = order
    BY ZenonT(30), <2>2, <2>5
  <2>7. s.pc = "write" /\ s.key = k /\ s.at = a
    BY Z3T(30), Here DEF Updated, Goto, Fields, a
  <2> HIDE DEF f
  <2>8. DOMAIN dirs' = DOMAIN dirs /\ dirs'[k] = With(dirs[k], f, p) /\ \A x \in DOMAIN dirs : x # k => dirs'[x] = dirs[x]
    BY <2>2, <2>5
  <2>9. WholeBut(dirs', {k})
    BY Zenon, <2>2, <2>8 DEF WholeBut, Whole
  <2>10. /\ DOMAIN dirs'[k] = FilesTo(a) /\ dirs'[k][f] = p
         /\ \A g \in FilesTo(a - 1) : dirs'[k][g] = dirs[k][g]
    <3>1. DOMAIN With(dirs[k], f, p) = DOMAIN dirs[k] \cup {f}
      BY ZenonT(30), WithFacts
    <3>2. With(dirs[k], f, p)[f] = p /\ \A g \in DOMAIN dirs[k] : g # f => With(dirs[k], f, p)[g] = dirs[k][g]
      BY DEF With
    <3> QED BY Zenon, <2>2, <2>3, <2>8, <3>1, <3>2
  <2>11. Filling(k, a, a, dirs', order', used', lane.limit)
    BY Zenon, <1>1, <2>2, <2>6, <2>8, <2>9, <2>10 DEF Filling
  <2> HIDE DEF s
  <2>12. Phase(s, p, dirs', order', used', lane.limit)
    BY Zenon, <2>7, <2>10, <2>11, PhaseIs DEF f
  <2> QED BY Zenon, <1>1, <1>2, <2>5, <2>12, SeqStep DEF s
<1> QED BY ZenonT(30), <1>3, <1>4

\* What is written is no process's name.
LEMMA ContentIsWritten ==
    ASSUME CacheInv, NEW p \in Procs, proc[p].pc \in HasArtifact, NEW f
    PROVE  Content(p, f) \notin Procs
<1>1. proc[p].key \in Keys /\ proc[p].art \in ArtifactsOf(proc[p].key)
  BY Zenon, HasKey
<1>2. proc[p].art \in Texts
  BY <1>1 DEF ArtifactsOf, Keys
<1>3. proc[p].key \notin Procs
  BY Zenon, <1>1, CompileCacheAssumption DEF Keys
<1>4. None \notin Procs /\ proc[p].art \notin Procs
  BY Zenon, <1>2, CompileCacheAssumption
<1> QED BY Zenon, <1>3, <1>4 DEF Content

LEMMA SeqWrite ==
    ASSUME CacheInv, LimitInv, SeqInv, NEW p \in Procs, Write(p)
    PROVE  SeqInv'
<1> DEFINE r == proc[p]
           k == r.key
           a == r.at
           f == Files[a]
           v == Content(p, f)
<1>1. r.pc = "write" /\ r.pc # "idle" /\ r.pc \in HasArtifact /\ lane' = lane /\ order' = order
  BY DEF Write, At, HasArtifact
<1>2. k \in Keys /\ v \notin Procs
  BY Zenon, <1>1, HasKey, ContentIsWritten
<1>3. \/ /\ disturbed' = disturbed
         /\ dirs' = IF Holds(k, f) /\ dirs[k][f] = p THEN [dirs EXCEPT ![k][f] = v] ELSE dirs
         /\ \/ a < Len(Files) /\ Step(p, [pc |-> "open", at |-> a + 1]) /\ used' = used
            \/ ~(a < Len(Files)) /\ Step(p, [pc |-> "prune", at |-> 0]) /\ used' = MoveToEnd(used, k)
      \/ disturbed' = TRUE /\ used' = used
  BY Zenon DEF Write
<1>4. used' = used \/ used' = MoveToEnd(used, k)
  BY Zenon, <1>3
<1>5. used' \in Seq(Keys) /\ Distinct(used')
  BY Zenon, <1>2, <1>4, UsedMoved DEF SeqInv
<1>6. CASE disturbed'
  BY Zenon, <1>5, <1>6 DEF SeqInv
<1>7. CASE ~disturbed'
  <2>1. /\ disturbed' = disturbed
        /\ dirs' = IF Holds(k, f) /\ dirs[k][f] = p THEN [dirs EXCEPT ![k][f] = v] ELSE dirs
        /\ \/ a < Len(Files) /\ Step(p, [pc |-> "open", at |-> a + 1]) /\ used' = used
           \/ ~(a < Len(Files)) /\ Step(p, [pc |-> "prune", at |-> 0]) /\ used' = MoveToEnd(used, k)
    <3>1. disturbed' # TRUE
      BY ZenonT(30), <1>7
    <3> QED BY Zenon, <1>3, <3>1
  <2>12. ~disturbed
    BY Z3T(30), <1>7, <2>1
  <2>2. Filling(k, a, a, dirs, order, used, lane.limit) /\ dirs[k][f] = p
    BY Zenon, <1>1, <2>12, Alone DEF Phase
  <2>3. /\ a \in 1..5 /\ k \in DOMAIN dirs
        /\ order = MoveToEnd(order, k) /\ Latest(Drop(order, k), used, lane.limit)
        /\ WholeBut(dirs, {k}) /\ DOMAIN dirs[k] = FilesTo(a)
        /\ \A g \in FilesTo(a - 1) : dirs[k][g] \notin Procs
    BY Zenon, <2>2 DEF Filling
  <2> HIDE DEF a
  <2>4. /\ f \notin FilesTo(a - 1) /\ FilesTo(a) = FilesTo(a - 1) \cup {f} /\ Len(Files) = 5
        /\ a = 5 => FilesTo(a) = {Files[i] : i \in DOMAIN Files}
    BY Zenon, <2>3, FilesGrow
  <2> HIDE DEF f, v
  <2>5. f \in DOMAIN dirs[k]
    BY Zenon, <2>3, <2>4
  <2>6. dirs' = [dirs EXCEPT ![k][f] = v]
    BY ZenonT(30), <2>1, <2>2, <2>3, <2>5 DEF Holds, Exists
  <2>7. /\ DOMAIN dirs' = DOMAIN dirs /\ DOMAIN dirs'[k] = DOMAIN dirs[k] /\ dirs'[k][f] = v
        /\ \A x \in DOMAIN dirs : x # k => dirs'[x] = dirs[x]
        /\ \A g \in DOMAIN dirs[k] : g # f => dirs'[k][g] = dirs[k][g]
    BY Z3T(30), <2>3, <2>5, <2>6
  <2>8. WholeBut(dirs', {k})
    BY Zenon, <2>3, <2>7 DEF WholeBut, Whole
  <2>9. DOMAIN dirs'[k] = FilesTo(a) /\ \A g \in FilesTo(a) : dirs'[k][g] \notin Procs
    BY Zenon, <1>2, <2>3, <2>4, <2>7
  <2>10. CASE a < Len(Files) /\ Step(p, [pc |-> "open", at |-> a + 1]) /\ used' = used
    <3> DEFINE c == [pc |-> "open", at |-> a + 1]
               s == Updated(r, c)
    <3>1. s.pc = "open" /\ s.key = k /\ s.at = a + 1
      BY Here DEF Updated, Fields
    <3>2. a + 1 \in 1..5 /\ (a + 1) - 1 = a
      <4>1. a \in 1..5 /\ Len(Files) = 5 /\ a < Len(Files)
        BY Zenon, <2>3, <2>4, <2>10
      <4> QED BY <4>1
    <3>3. Filling(k, a + 1, (a + 1) - 1, dirs', order', used', lane.limit)
      BY ZenonT(30), <1>1, <2>3, <2>7, <2>8, <2>9, <2>10, <3>2 DEF Filling
    <3> HIDE DEF s, c
    <3>4. Filling(s.key, s.at, s.at - 1, dirs', order', used', lane.limit)
      BY Zenon, <3>1, <3>3
    <3>5. Phase(s, p, dirs', order', used', lane.limit)
      BY Zenon, <3>1, <3>4, PhaseIs
    <3> QED BY ZenonT(30), <1>1, <1>5, <2>1, <2>10, <3>5, SeqStep DEF s, c
  <2>11. CASE ~(a < Len(Files)) /\ Step(p, [pc |-> "prune", at |-> 0]) /\ used' = MoveToEnd(used, k)
    <3> DEFINE c == [pc |-> "prune", at |-> 0]
               s == Updated(r, c)
    <3>1. s.pc = "prune" /\ s.key = k
      BY Z3T(30), Here DEF Updated, Fields
    <3>2. a = 5
      <4>1. a \in 1..5 /\ Len(Files) = 5 /\ ~(a < Len(Files))
        BY Zenon, <2>3, <2>4, <2>11
      <4> QED BY <4>1
    <3>3. WholeBut(dirs', {})
      <4>1. Whole(dirs', k)
        BY Zenon, <2>4, <2>9, <3>2 DEF Whole
      <4> QED BY Zenon, <2>8, <4>1 DEF WholeBut
    <3>4. Latest(order', used', lane.limit + 1)
      <4>1. order \in Seq(Keys) /\ Distinct(order) /\ used \in Seq(Keys) /\ Distinct(used) /\ lane.limit \in Nat
        BY Zenon, OrderIs, LimitIsNat DEF SeqInv
      <4>2. PICK d : d = Drop(order, k)
        BY Zenon
      <4>3. d \in Seq(Keys) /\ Distinct(d) /\ k \notin Members(d)
        <5> HIDE DEF Keys
        <5> QED BY Z3T(30), <4>1, <4>2, DropFacts
      <4>4. Latest(Append(d, k), MoveToEnd(used, k), lane.limit + 1)
        <5>1. Latest(d, used, lane.limit)
          BY Zenon, <2>3, <4>2
        <5> QED BY Zenon, <1>2, <4>1, <4>3, <5>1, LatestAdded
      <4>5. Append(d, k) = order
        BY Zenon, <2>3, <4>2 DEF MoveToEnd
      <4> QED BY Zenon, <1>1, <2>11, <4>4, <4>5
    <3>5. Pruning(k, dirs', order', used', lane.limit)
      BY Zenon, <1>1, <2>3, <3>3, <3>4 DEF Pruning
    <3> HIDE DEF s, c
    <3>6. Phase(s, p, dirs', order', used', lane.limit)
      BY Zenon, <3>1, <3>5, PhaseIs
    <3> QED BY ZenonT(30), <1>1, <1>5, <2>1, <2>11, <3>6, SeqStep DEF s, c
  <2> QED BY Zenon, <2>1, <2>10, <2>11
<1> QED BY ZenonT(30), <1>6, <1>7

LEMMA SeqList ==
    ASSUME CacheInv, LimitInv, SeqInv, NEW p \in Procs, List(p)
    PROVE  SeqInv'
<1> DEFINE r == proc[p]
           k == r.key
           w == Victims(k)
           c == [pc |-> "remove", victims |-> w]
           s == Updated(r, c)
<1>1. /\ r.pc = "prune" /\ r.pc # "idle" /\ r.pc \in HasArtifact /\ Step(p, c) /\ lane' = lane /\ dirs' = dirs
      /\ order' = order /\ used' = used /\ disturbed' = disturbed
  BY Z3T(30) DEF List, At, Bounds, OnDisk, HasArtifact
<1> HIDE DEF w
<1>2. s.pc = "remove" /\ s.victims = w
  BY Here DEF Updated, Fields
<1>3. used \in Seq(Keys) /\ Distinct(used)
  BY Zenon DEF SeqInv
<1>4. ASSUME Phase(r, p, dirs, order, used, lane.limit)
      PROVE  Removing(w, dirs, order, used, lane.limit)
  <2>1. Pruning(k, dirs, order, used, lane.limit)
    BY Zenon, <1>1, <1>4 DEF Phase
  <2>2. PICK m \in {lane.limit, lane.limit + 1} : Latest(order, used, m)
    BY Zenon, <2>1 DEF Pruning
  <2>3. order # <<>> /\ order[Len(order)] = k
    <3>1. order \in Seq(Keys) /\ Distinct(order) /\ k \in Keys
      BY Zenon, <1>1, OrderIs, HasKey
    <3>2. MoveToEnd(order, k) # <<>> /\ MoveToEnd(order, k)[Len(MoveToEnd(order, k))] = k
      BY Zenon, <3>1, LastMoved
    <3> QED BY Zenon, <2>1, <3>2 DEF Pruning
  <2>4. \/ Victims(k) = <<>> /\ Latest(order, used, lane.limit)
        \/ \E v \in DOMAIN dirs : Victims(k) = <<v>> /\ Latest(Drop(order, v), used, lane.limit)
    BY Zenon, <1>3, <2>2, <2>3, PruneOne
  <2> QED BY Zenon, <2>1, <2>4 DEF Removing, Pruning, w
<1> HIDE DEF s, c
<1>5. ASSUME Phase(r, p, dirs, order, used, lane.limit)
      PROVE  Phase(s, p, dirs', order', used', lane.limit)
  BY ZenonT(30), <1>1, <1>2, <1>4, <1>5, PhaseIs
<1> QED BY ZenonT(30), <1>1, <1>3, <1>5, SeqStep DEF s

LEMMA SeqRemoveEntry ==
    ASSUME CacheInv, LimitInv, SeqInv, NEW p \in Procs, RemoveEntry(p)
    PROVE  SeqInv'
<1> DEFINE r == proc[p]
           v == r.victims
<1>1. /\ r.pc = "remove" /\ r.pc # "idle" /\ lane' = lane /\ dirs' = dirs
      /\ order' = order /\ used' = used /\ disturbed' = disturbed
  BY DEF RemoveEntry, At, Bounds, OnDisk
<1>2. used \in Seq(Keys) /\ Distinct(used)
  BY Zenon DEF SeqInv
<1>3. CASE disturbed
  <2>1. disturbed' = TRUE
    BY Zenon, <1>1, <1>3
  <2> QED BY Zenon, <1>1, <2>1, SeqDisturbed
<1>4. CASE ~disturbed
  <2>1. Removing(v, dirs, order, used, lane.limit)
    BY Zenon, <1>1, <1>4, Alone DEF Phase
  <2>2. WholeBut(dirs, {})
    BY Zenon, <2>1 DEF Removing
  <2>3. CASE v = <<>> /\ Latest(order, used, lane.limit)
    <3>1. Step(p, Continue(p))
      BY Zenon, <2>3 DEF RemoveEntry
    <3>2. Calm(dirs, order, used, lane.limit)
      BY Zenon, <2>2, <2>3 DEF Calm
    <3>3. Phase(Updated(r, Continue(p)), p, dirs', order', used', lane.limit)
      BY Zenon, <1>1, <3>2, ContinueIsCalm, PhaseIs
    <3> QED BY Zenon, <1>1, <1>2, <3>1, <3>3, SeqStep
  <2>4. ASSUME NEW x \in DOMAIN dirs, v = <<x>>, Latest(Drop(order, x), used, lane.limit)
        PROVE  SeqInv'
    <3>1. v # <<>> /\ Head(v) = x
      BY <2>4
    <3> DEFINE c == [pc |-> "unlink", todo |-> DOMAIN dirs[x]]
               s == Updated(r, c)
    <3>2. Step(p, c)
      BY ZenonT(30), <3>1 DEF RemoveEntry, Exists
    <3>3. s.pc = "unlink" /\ s.victims = v /\ s.todo = DOMAIN dirs[x]
      BY Here DEF Updated, Fields
    <3>4. Unlinking(v, DOMAIN dirs[x], dirs, order, used, lane.limit)
      BY Zenon, <2>2, <2>4 DEF Unlinking, WholeBut
    <3> HIDE DEF s, c
    <3>5. Phase(s, p, dirs', order', used', lane.limit)
      BY ZenonT(30), <1>1, <3>3, <3>4, PhaseIs
    <3> QED BY ZenonT(30), <1>1, <1>2, <3>2, <3>5, SeqStep DEF s
  <2> QED BY Zenon, <2>1, <2>3, <2>4 DEF Removing
<1> QED BY Zenon, <1>3, <1>4

LEMMA SeqUnlink ==
    ASSUME CacheInv, LimitInv, SeqInv, NEW p \in Procs, Unlink(p)
    PROVE  SeqInv'
<1> DEFINE r == proc[p]
           v == r.victims
<1>1. r.pc = "unlink" /\ r.pc # "idle" /\ lane' = lane /\ used' = used /\ disturbed' = disturbed
  BY DEF Unlink, At, Bounds
<1>2. used' \in Seq(Keys) /\ Distinct(used')
  BY Zenon, <1>1 DEF SeqInv
<1>3. CASE disturbed
  <2>1. disturbed' = TRUE
    BY Zenon, <1>1, <1>3
  <2> QED BY Zenon, <1>1, <2>1, SeqDisturbed
<1>4. CASE ~disturbed
  <2>1. PICK x \in DOMAIN dirs : /\ v = <<x>> /\ Latest(Drop(order, x), used, lane.limit)
                                 /\ WholeBut(dirs, {x}) /\ DOMAIN dirs[x] = r.todo
    BY Zenon, <1>1, <1>4, Alone DEF Phase, Unlinking
  <2>2. Head(v) = x
    BY <2>1
  <2>3. PICK f \in r.todo :
          /\ Step(p, [todo |-> r.todo \ {f}])
          /\ IF Holds(x, f)
             THEN /\ dirs' = [dirs EXCEPT ![x] = Without(@, f)]
                  /\ order' = IF "last_used" \in DOMAIN dirs'[x] THEN order ELSE MoveToEnd(order, x)
             ELSE UNCHANGED OnDisk
    BY Zenon, <2>2 DEF Unlink
  <2>4. /\ dirs' = [dirs EXCEPT ![x] = Without(@, f)]
        /\ order' = order \/ order' = MoveToEnd(order, x)
    BY Zenon, <2>1, <2>3 DEF Holds, Exists
  <2>5. Drop(order', x) = Drop(order, x)
    <3>1. order \in Seq(Keys) /\ Distinct(order) /\ x \in Keys
      BY Zenon, OrderIs, EntriesAreKeys
    <3> QED BY Zenon, <2>4, <3>1, DropMoved
  <2>6. DOMAIN dirs' = DOMAIN dirs /\ dirs'[x] = Without(dirs[x], f) /\ \A y \in DOMAIN dirs : y # x => dirs'[y] = dirs[y]
    BY <2>4
  <2>7. WholeBut(dirs', {x})
    BY Zenon, <2>1, <2>6 DEF WholeBut, Whole
  <2>8. DOMAIN dirs'[x] = r.todo \ {f}
    <3>1. DOMAIN Without(dirs[x], f) = DOMAIN dirs[x] \ {f}
      BY ZenonT(30), WithoutFacts
    <3> QED BY Zenon, <2>1, <2>6, <3>1
  <2> DEFINE c == [todo |-> r.todo \ {f}]
             s == Updated(r, c)
  <2>9. s.pc = "unlink" /\ s.victims = v /\ s.todo = r.todo \ {f}
    BY Z3T(30), <1>1, Here DEF Updated, Fields
  <2>10. Unlinking(v, r.todo \ {f}, dirs', order', used', lane.limit)
    <3>1. Latest(Drop(order', x), used', lane.limit)
      BY Zenon, <1>1, <2>1, <2>5
    <3>2. x \in DOMAIN dirs'
      BY Zenon, <2>6
    <3> QED BY Zenon, <2>1, <2>7, <2>8, <3>1, <3>2 DEF Unlinking
  <2>11. Step(p, c)
    BY Zenon, <2>3
  <2> HIDE DEF s, c
  <2>12. Phase(s, p, dirs', order', used', lane.limit)
    BY Zenon, <2>9, <2>10, PhaseIs
  <2> QED BY Zenon, <1>1, <1>2, <2>11, <2>12, SeqStep DEF s
<1> QED BY Zenon, <1>3, <1>4

LEMMA SeqRmdir ==
    ASSUME CacheInv, LimitInv, SeqInv, NEW p \in Procs, Rmdir(p)
    PROVE  SeqInv'
<1> DEFINE r == proc[p]
           v == r.victims
           c == [pc |-> "remove", victims |-> Tail(v)]
           s == Updated(r, c)
<1>1. /\ r.pc = "unlink" /\ r.pc # "idle" /\ r.todo = {} /\ lane' = lane /\ used' = used /\ disturbed' = disturbed
      /\ Step(p, c)
  BY ZenonT(30) DEF Rmdir, At, Bounds
<1>2. s.pc = "remove" /\ s.victims = Tail(v)
  BY Zenon, Here DEF Updated, Fields
<1>3. used' \in Seq(Keys) /\ Distinct(used')
  BY Zenon, <1>1 DEF SeqInv
<1>4. ASSUME Phase(r, p, dirs, order, used, lane.limit)
      PROVE  Removing(Tail(v), dirs', order', used', lane.limit)
  <2>1. PICK x \in DOMAIN dirs : /\ v = <<x>> /\ Latest(Drop(order, x), used, lane.limit)
                                 /\ WholeBut(dirs, {x}) /\ DOMAIN dirs[x] = r.todo
    BY Zenon, <1>1, <1>4 DEF Phase, Unlinking
  <2>2. Head(v) = x /\ Tail(v) = <<>>
    BY <2>1
  <2>3. dirs' = Without(dirs, x) /\ order' = Drop(order, x)
    BY Zenon, <1>1, <2>1, <2>2 DEF Rmdir, Exists
  <2>4. DOMAIN dirs' = DOMAIN dirs \ {x} /\ \A y \in DOMAIN dirs' : dirs'[y] = dirs[y]
    BY Zenon, <2>3, WithoutFacts
  <2>5. WholeBut(dirs', {})
    BY Zenon, <2>1, <2>4 DEF WholeBut, Whole
  <2>6. Latest(order', used', lane.limit)
    BY Zenon, <1>1, <2>1, <2>3
  <2> QED BY Zenon, <2>2, <2>5, <2>6 DEF Removing
<1> HIDE DEF s, c
<1>5. ASSUME Phase(r, p, dirs, order, used, lane.limit)
      PROVE  Phase(s, p, dirs', order', used', lane.limit)
  BY Zenon, <1>2, <1>4, <1>5, PhaseIs
<1> QED BY Zenon, <1>1, <1>3, <1>5, SeqStep DEF s

LEMMA SeqNext ==
    ASSUME CacheInv, LimitInv, SeqInv, [Next]_vars
    PROVE  SeqInv'
<1>1. ASSUME lane' = lane, dirs' = dirs, order' = order, proc' = proc, used' = used, disturbed' = disturbed
      PROVE  SeqInv'
  <2>1. Quiet' <=> Quiet
    BY Zenon, <1>1 DEF Quiet
  <2> QED BY <1>1, <2>1 DEF SeqInv
<1>2. CASE UNCHANGED vars
  BY Z3T(30), <1>1, <1>2 DEF vars
<1>3. CASE Edit
  BY <1>1, <1>3 DEF Edit, OnDisk
<1>4. ASSUME NEW p \in Procs, Crash(p)
      PROVE  SeqInv'
  <2>1. used' = used /\ disturbed' = TRUE
    BY <1>4 DEF Crash
  <2> QED BY Zenon, <2>1, SeqDisturbed
<1>5. ASSUME NEW p \in Procs,
             \/ Start(p) \/ Lookup(p) \/ ReadFile(p) \/ Touch(p) \/ Load(p)
             \/ Make(p) \/ Open(p) \/ Write(p)
             \/ List(p) \/ RemoveEntry(p) \/ Unlink(p) \/ Rmdir(p)
             \/ End(p) \/ Stamp(p) \/ Refresh(p) \/ Crash(p)
      PROVE  SeqInv'
  BY ZenonT(30), <1>4, <1>5, SeqStart, SeqLookup, SeqReadFile, SeqLoadEndStampRefresh, SeqTouch, SeqMake, SeqOpen,
     SeqWrite, SeqList, SeqRemoveEntry, SeqUnlink, SeqRmdir
<1> QED BY ZenonT(30), <1>2, <1>3, <1>5 DEF Next

LEMMA SeqInit == Init => SeqInv
<1> SUFFICES ASSUME Init PROVE SeqInv
  OBVIOUS
<1>1. lane \in Lanes /\ dirs = <<>> /\ order = <<>> /\ used = <<>> /\ proc = [p \in Procs |-> Idle]
  BY DEF Init
<1>2. lane.limit \in Nat
  BY Z3T(30), <1>1, CompileCacheAssumption
<1>3. used \in Seq(Keys) /\ Distinct(used)
  BY <1>1 DEF Distinct
<1>4. WholeBut(dirs, {})
  BY <1>1 DEF WholeBut
<1>5. Latest(order, used, lane.limit)
  BY <1>1, <1>2 DEF Latest
<1> QED BY Zenon, <1>1, <1>3, <1>4, <1>5 DEF SeqInv, Calm

\* Nobody claims anything once nothing runs.
LEMMA LooseIsAll ==
    ASSUME Quiet PROVE Loose(dirs, proc) = DOMAIN dirs
<1>1. Idle.pc \in Unclaiming
  BY DEF Idle, Unclaiming
<1>2. \A q \in Procs : \A x : ~Claims(dirs, proc[q], x)
  BY Zenon, <1>1, NoClaim DEF Quiet
<1> QED BY Zenon, <1>2 DEF Loose

\* The last n of u as a set.
LastOf(u, n) == {u[i] : i \in {j \in DOMAIN u : j > Len(u) - n}}

LEMMA LatestMembers ==
    ASSUME NEW S, NEW o \in Seq(S), NEW u \in Seq(S), NEW n \in Nat, Latest(o, u, n)
    PROVE  Members(o) = LastOf(u, n)
<1>1. PICK m, h \in Nat : From(o, u, n, m, h)
  BY Zenon, LatestOffset
<1>2. /\ m = Len(o) /\ Len(u) = h + m /\ m = (IF n < h + m THEN n ELSE h + m)
      /\ \A j \in 1..m : o[j] = u[h + j]
  BY Zenon, <1>1 DEF From
<1>3. DOMAIN u = 1..(h + m)
  BY Z3T(30), <1>2
<1>4. \A j \in 1..m : h + j \in 1..(h + m) /\ h + j > (h + m) - n
  BY Z3T(30), <1>2
<1>5. \A i \in 1..(h + m) : i > (h + m) - n => i - h \in 1..m /\ h + (i - h) = i
  BY <1>2
<1>6. ASSUME NEW x \in Members(o) PROVE \E i \in DOMAIN u : i > Len(u) - n /\ x = u[i]
  <2>1. PICK j \in 1..m : x = o[j]
    BY Zenon, <1>2 DEF Members
  <2> QED BY Zenon, <1>2, <1>3, <1>4, <2>1
<1>7. ASSUME NEW i \in DOMAIN u, i > Len(u) - n PROVE u[i] \in Members(o)
  <2>1. i - h \in 1..m /\ h + (i - h) = i
    BY Zenon, <1>2, <1>3, <1>5, <1>7
  <2>2. o[i - h] = u[i]
    BY Zenon, <1>2, <2>1
  <2> QED BY Zenon, <1>2, <2>1, <2>2 DEF Members
<1> QED BY Zenon, <1>6, <1>7 DEF LastOf

INSTANCE FiniteSetTheorems

LEMMA AtMostCounts ==
    ASSUME NEW S, NEW n \in Nat, AtMost(S, n)
    PROVE  Cardinality(S) <= n
<1>1. PICK f : S \subseteq {f[i] : i \in 1..n}
  BY Zenon DEF AtMost
<1> DEFINE T == {f[i] : i \in 1..n}
           g == [i \in 1..n |-> f[i]]
<1>2. g \in Surjection(1..n, T)
  BY Z3T(30) DEF Surjection
<1>3. IsFiniteSet(1..n) /\ Cardinality(1..n) = n
  BY Z3T(30), FS_Interval
<1> HIDE DEF g, T
<1>4. IsFiniteSet(T) /\ Cardinality(T) <= n
  BY Z3T(30), <1>2, <1>3, FS_Surjection
<1>5. S \subseteq T
  BY Zenon, <1>1 DEF T
<1>6. IsFiniteSet(S) /\ Cardinality(S) <= Cardinality(T)
  BY ZenonT(30), <1>4, <1>5, FS_Subset
<1>7. Cardinality(S) \in Nat /\ Cardinality(T) \in Nat
  BY ZenonT(30), <1>4, <1>6, FS_CardinalityType
<1> QED BY Z3T(30), <1>4, <1>6, <1>7

\* Once nothing runs, the cache is within its limit if no process was killed and
\* no write failed, and it holds the most recently used entries, complete, if the
\* builds did not overlap either (prune_incremental_cache_entries,
\* refresh_incremental_cache_recency and incremental_cache_store): for any number
\* of processes and any limit.
THEOREM KeepsMostRecentAlways == Spec => []KeepsMostRecent
<1>1. CacheInv /\ LimitInv /\ SeqInv /\ [Next]_vars => (CacheInv /\ LimitInv /\ SeqInv)'
  BY ZenonT(30), StepNext, LimitNext, SeqNext
<1>2. Init => CacheInv /\ LimitInv /\ SeqInv
  BY ZenonT(30), CacheInit, LimitInit, SeqInit
<1>3. ASSUME LimitInv, SeqInv PROVE KeepsMostRecent
  <2> SUFFICES ASSUME Quiet
               PROVE  /\ faults = 0 => Cardinality(DOMAIN dirs) <= lane.limit
                      /\ ~disturbed =>
                           /\ DOMAIN dirs = {used[i] : i \in {j \in DOMAIN used : j > Len(used) - lane.limit}}
                           /\ \A k \in DOMAIN dirs : Complete(k)
    BY Zenon DEF KeepsMostRecent
  <2>1. faults = 0 => Cardinality(DOMAIN dirs) <= lane.limit
    <3>1. faults = 0 => AtMost(Loose(dirs, proc), lane.limit)
      BY Zenon, <1>3 DEF LimitInv
    <3> QED BY ZenonT(30), <1>3, <3>1, LooseIsAll, LimitIsNat, AtMostCounts
  <2>2. ASSUME ~disturbed
        PROVE  /\ DOMAIN dirs = {used[i] : i \in {j \in DOMAIN used : j > Len(used) - lane.limit}}
               /\ \A k \in DOMAIN dirs : Complete(k)
    <3>1. Latest(order, used, lane.limit) /\ WholeBut(dirs, {}) /\ used \in Seq(Keys)
      BY ZenonT(30), <1>3, <2>2 DEF SeqInv, Calm
    <3>2. order \in Seq(Keys) /\ Members(order) = DOMAIN dirs /\ lane.limit \in Nat
      BY ZenonT(30), <1>3, OrderIs, LimitIsNat
    <3>3. Members(order) = LastOf(used, lane.limit)
      BY Zenon, <3>1, <3>2, LatestMembers
    <3> QED BY ZenonT(30), <3>1, <3>2, <3>3 DEF WholeBut, Whole, Complete, LastOf
  <2> QED BY ZenonT(30), <2>1, <2>2
<1> QED BY <1>1, <1>2, <1>3, PTL DEF Spec
=============================================================================
