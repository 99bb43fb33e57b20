--------------------------- MODULE LockFilesProofs ---------------------------
(***************************************************************************)
(* Safety of LockFiles for any number of locks, processes, plans, faults   *)
(* and crashes.  A replacement owns the temporary it created until it      *)
(* renames it, so no lock is ever renamed from a file that is part         *)
(* written; and a command that ran alone knows every lock, so it stops     *)
(* with the locks all replaced or all restored.                            *)
(***************************************************************************)
EXTENDS LockFiles, TLAPS

ProcRec ==
    [op : Ops, step : Steps, i : 0..N, plan : 0..MaxPlans, olds : Seq(Contents), content : Whole,
     graph : Graphs, start : [Members -> Contents], solo : BOOLEAN, clean : BOOLEAN, unrestored : BOOLEAN]

PlanRec == [old : [Members -> Contents], new : [Members -> Whole]]

\* Which steps each command goes through.
StepOf(s) ==
    \/ s.op = "idle" /\ s.step = "none"
    \/ s.op = "plan" /\ s.step \in {"bytes", "parse"}
    \/ s.op = "apply" /\ s.step \in {"check", "create", "write", "rename", "ok"}
    \/ s.op = "undo" /\ s.step \in {"create", "write", "rename", "err"}
    \/ s.op = "build" /\ s.step \in {"compile", "read", "truncate", "fill", "lost"}
    \/ s.op = "lock" /\ s.step \in {"read", "truncate", "fill", "lost"}

\* A process between the creation of its temporary and the rename holds it.
Holding(s) == s.step \in {"write", "rename"}
SuffixOf(s) == IF s.op = "apply" THEN s.plan ELSE Rollback
WantedOf(s, pl) == IF s.op = "apply" THEN pl[s.plan].new[s.i] ELSE pl[s.plan].old[s.i]

ProcOK(s, tp, pl) ==
    /\ s \in ProcRec
    /\ StepOf(s)
    /\ s.op # "idle" => s.i \in Members
    /\ s.op \in {"apply", "undo"} => s.plan \in 1..Len(pl)
    /\ s.step = "bytes" => Len(s.olds) = s.i - 1
    /\ s.step = "parse" => Len(s.olds) = s.i
    /\ Holding(s) => tp[s.i][SuffixOf(s)] # Absent
    /\ s.step = "rename" => tp[s.i][SuffixOf(s)] = WantedOf(s, pl)

\* What a command that nothing has run beside knows of the locks.
SoloOK(s, lk, tp, pl) ==
    s.solo =>
        /\ s.op # "idle" /\ s.clean =>
             \A m \in Members : tp[m][Rollback] = Absent \/ (s.op = "undo" /\ Holding(s) /\ m = s.i)
        /\ s.op = "apply" => \A m \in Members :
             /\ s.step = "check" => s.start[m] = lk[m] /\ (m < s.i => lk[m] = pl[s.plan].old[m])
             /\ s.step # "check" => s.start[m] = pl[s.plan].old[m]
             /\ s.step \in {"create", "write", "rename"} =>
                  lk[m] = IF m < s.i THEN pl[s.plan].new[m] ELSE pl[s.plan].old[m]
             /\ s.step = "ok" => lk[m] = pl[s.plan].new[m]
        /\ s.op = "undo" /\ s.clean /\ ~s.unrestored => \A m \in Members :
             /\ s.start[m] = pl[s.plan].old[m]
             /\ s.step # "err" => lk[m] = IF m <= s.i THEN pl[s.plan].new[m] ELSE pl[s.plan].old[m]
             /\ s.step = "err" => lk[m] = pl[s.plan].old[m]

\* Two processes never hold one temporary.
Exclusive ==
    \A p, q \in Procs : p # q /\ Holding(proc[p]) /\ Holding(proc[q]) =>
        ~(proc[p].i = proc[q].i /\ SuffixOf(proc[p]) = SuffixOf(proc[q]))

Alone == \A p, q \in Procs : p # q /\ proc[p].op # "idle" /\ proc[p].solo => proc[q].op = "idle"

\* Until a command writes a lock in place, every lock ever read or planned is
\* a whole one.
Unharmed(s) == s.step \notin {"fill", "lost"} /\ s.olds \in Seq(Whole)
Intact == ~direct => /\ lock \in [Members -> Whole]
                     /\ \A k \in 1..Len(plans) : plans[k].old \in [Members -> Whole]
                     /\ \A p \in Procs : Unharmed(proc[p])

Inv ==
    /\ lock \in [Members -> Contents]
    /\ temp \in [Members -> [Suffixes -> Contents \cup {Absent}]]
    /\ plans \in Seq(PlanRec)
    /\ Len(plans) <= MaxPlans
    /\ ops \in 0..MaxOps /\ faults \in 0..MaxFaults /\ crashes \in 0..MaxCrashes
    /\ direct \in BOOLEAN /\ overlapped \in BOOLEAN
    /\ proc \in [Procs -> ProcRec]
    /\ \A p \in Procs : ProcOK(proc[p], temp, plans) /\ SoloOK(proc[p], lock, temp, plans)
    /\ Exclusive /\ Alone /\ Intact

Good(c) == c # Torn /\ c.stamped => c.built = c.graph

GoodProc(s, lk) ==
    /\ s.op # "idle" => s.solo
    /\ \A j \in 1..Len(s.olds) : Good(s.olds[j])
    /\ s.step \in {"truncate", "fill"} => Good(s.content)
    /\ s.op = "build" /\ s.step = "read" /\ lk[s.i] # Torn => lk[s.i].graph = s.graph

\* While commands run one at a time, what they have read and will write is
\* as good as the locks.
Serial ==
    ~overlapped =>
        /\ \A m \in Members : Good(lock[m])
        /\ \A k \in 1..Len(plans), m \in Members : Good(plans[k].old[m]) /\ Good(plans[k].new[m])
        /\ \A p \in Procs : GoodProc(proc[p], lock)

-----------------------------------------------------------------------------
LEMMA Constants ==
    /\ N \in Nat /\ N >= 1 /\ MaxOps \in Nat /\ MaxPlans \in Nat /\ MaxFaults \in Nat /\ MaxCrashes \in Nat
    /\ Rollback \notin 1..MaxPlans /\ Rollback \in Suffixes /\ \A k \in 1..MaxPlans : k \in Suffixes /\ k # Rollback
    /\ Torn \notin Whole /\ Absent \notin Contents /\ Torn \in Contents /\ Whole \subseteq Contents
    /\ 1 \in Members /\ N \in Members
  BY LockFilesAssumption, ContentAssumption DEF Suffixes, Contents, Members

\* The places a process can be at, and their neighbours.
LEMMA Positions ==
    ASSUME NEW i \in Members
    PROVE  i \in 0..N /\ i - 1 \in 0..N /\ 0 \in 0..N /\ N \in 0..N
  BY Constants DEF Members

LEMMA IdleRec ==
    /\ Idle \in ProcRec /\ Idle.op = "idle" /\ Idle.step = "none" /\ Idle.olds = <<>>
  <1>1. Initial \in Whole /\ Initial \in Contents /\ 0 \in 0..N /\ 0 \in 0..MaxPlans /\ 0 \in Graphs
    BY Constants DEF Initial, Whole, Graphs, Contents
  <1>2. <<>> \in Seq(Contents) /\ [m \in Members |-> Initial] \in [Members -> Contents]
    BY <1>1
  <1> QED BY <1>1, <1>2 DEF Idle, ProcRec, Ops, Steps

\* e is r but for solo.
SoloSet(r, b, e) ==
    /\ e \in ProcRec /\ e.solo = b
    /\ e.op = r.op /\ e.i = r.i /\ e.plan = r.plan /\ e.olds = r.olds /\ e.content = r.content
    /\ e.step = r.step

LEMMA WithSolo ==
    ASSUME NEW r \in ProcRec, NEW b \in BOOLEAN
    PROVE  SoloSet(r, b, [r EXCEPT !.solo = b])
  BY Zenon DEF ProcRec, SoloSet

LEMMA IdleOK ==
    ASSUME NEW lk, NEW tp, NEW pl
    PROVE  ProcOK(Idle, tp, pl) /\ SoloOK(Idle, lk, tp, pl)
<1>1. ProcOK(Idle, tp, pl)
  BY IdleRec DEF ProcOK, Holding, StepOf
<1>2. SoloOK(Idle, lk, tp, pl)
  BY Z3T(30), IdleRec DEF SoloOK
<1> QED BY <1>1, <1>2

\* A process that another one's step leaves alone, except that it is no longer
\* by itself or that its open file was renamed over.
Kept(a, b) ==
    /\ b \in ProcRec
    /\ b.op = a.op /\ b.i = a.i /\ b.plan = a.plan /\ b.olds = a.olds /\ b.content = a.content
    /\ b.step = a.step \/ (a.step = "fill" /\ b.step = "lost")
    /\ b.solo => a.solo

LEMMA KeptOK ==
    ASSUME NEW a, NEW b, NEW tp, NEW tp2, NEW pl \in Seq(PlanRec), NEW pl2 \in Seq(PlanRec),
           ProcOK(a, tp, pl), Kept(a, b),
           Len(pl) <= Len(pl2), \A k \in 1..Len(pl) : pl2[k] = pl[k],
           Holding(a) => tp2[a.i][SuffixOf(a)] = tp[a.i][SuffixOf(a)]
    PROVE  ProcOK(b, tp2, pl2)
<1>1. b \in ProcRec /\ a \in ProcRec
  BY DEF ProcOK, Kept
<1>2. StepOf(b) /\ (b.op # "idle" => b.i \in Members)
  <2>1. CASE b.step = a.step
    BY <2>1 DEF ProcOK, Kept, StepOf
  <2>2. CASE a.step = "fill" /\ b.step = "lost"
    <3>1. a.op \in {"build", "lock"}
      BY <1>1, <2>2 DEF ProcOK, StepOf, ProcRec, Ops
    <3> QED BY <2>2, <3>1 DEF ProcOK, Kept, StepOf
  <2> QED BY <2>1, <2>2 DEF Kept
<1>3. b.op \in {"apply", "undo"} => b.plan \in 1..Len(pl) /\ b.plan \in 1..Len(pl2) /\ pl2[b.plan] = pl[b.plan]
  BY DEF ProcOK, Kept
<1>4. /\ b.step = "bytes" => Len(b.olds) = b.i - 1
      /\ b.step = "parse" => Len(b.olds) = b.i
  BY DEF ProcOK, Kept
<1>5. Holding(b) => Holding(a) /\ b.op \in {"apply", "undo"}
  BY Z3T(30), <1>1 DEF Holding, Kept, ProcOK, StepOf, ProcRec, Ops
<1>6. SuffixOf(b) = SuffixOf(a) /\ (b.op \in {"apply", "undo"} => WantedOf(b, pl2) = WantedOf(a, pl))
  BY <1>3 DEF SuffixOf, WantedOf, Kept
<1>7. Holding(b) => tp2[b.i][SuffixOf(b)] # Absent
  BY <1>5, <1>6 DEF ProcOK, Kept
<1>8. b.step = "rename" => tp2[b.i][SuffixOf(b)] = WantedOf(b, pl2)
  BY <1>5, <1>6 DEF ProcOK, Kept, Holding
<1> QED BY <1>1, <1>2, <1>3, <1>4, <1>7, <1>8 DEF ProcOK

\* A process that does not run, or no longer runs alone, knows nothing.
LEMMA NotSolo ==
    ASSUME NEW s, StepOf(s), s.op = "idle" \/ ~s.solo, NEW lk, NEW tp, NEW pl
    PROVE  SoloOK(s, lk, tp, pl)
  BY DEF SoloOK

\* What the locks are to a command that ran alone.
ApplyAlone(s) == s.solo /\ s.op = "apply" /\ s.step \in {"create", "write", "rename"}
UndoAlone(s) == s.solo /\ s.op = "undo" /\ s.clean /\ ~s.unrestored /\ s.step # "err"

ApplyView(lk, start, plan, i) ==
    \A m \in Members : start[m] = plan.old[m] /\ lk[m] = IF m < i THEN plan.new[m] ELSE plan.old[m]
UndoView(lk, start, plan, i) ==
    \A m \in Members : start[m] = plan.old[m] /\ lk[m] = IF m <= i THEN plan.new[m] ELSE plan.old[m]

LEMMA ApplyKnows ==
    ASSUME NEW s, NEW lk, NEW tp, NEW pl, SoloOK(s, lk, tp, pl), ApplyAlone(s)
    PROVE  ApplyView(lk, s.start, pl[s.plan], s.i)
  BY Zenon DEF SoloOK, ApplyAlone, ApplyView

LEMMA UndoKnows ==
    ASSUME NEW s, NEW lk, NEW tp, NEW pl, SoloOK(s, lk, tp, pl), UndoAlone(s)
    PROVE  UndoView(lk, s.start, pl[s.plan], s.i)
  BY Zenon DEF SoloOK, UndoAlone, UndoView

LEMMA Frame ==
    ASSUME Inv, NEW p \in Procs, proc' \in [Procs -> ProcRec],
           \A q \in Procs : q # p => Kept(proc[q], proc'[q]),
           lock' \in [Members -> Contents], temp' \in [Members -> [Suffixes -> Contents \cup {Absent}]],
           plans' \in Seq(PlanRec), Len(plans) <= Len(plans'), \A k \in 1..Len(plans) : plans'[k] = plans[k],
           Len(plans') <= MaxPlans,
           ops' \in 0..MaxOps, faults' \in 0..MaxFaults, crashes' \in 0..MaxCrashes,
           direct' \in BOOLEAN, overlapped' \in BOOLEAN, direct => direct',
           \A q \in Procs : q # p /\ Holding(proc[q]) =>
               /\ temp'[proc[q].i][SuffixOf(proc[q])] = temp[proc[q].i][SuffixOf(proc[q])]
               /\ Holding(proc'[p]) => ~(proc'[p].i = proc[q].i /\ SuffixOf(proc'[p]) = SuffixOf(proc[q])),
           ProcOK(proc'[p], temp', plans'), SoloOK(proc'[p], lock', temp', plans'),
           proc[p].op # "idle" \/ \A q \in Procs : q # p /\ proc[q].op # "idle" => ~proc'[q].solo,
           proc'[p].op # "idle" /\ proc'[p].solo => \A q \in Procs : q # p => proc[q].op = "idle",
           ~direct' => /\ lock' \in [Members -> Whole] /\ Unharmed(proc'[p])
                       /\ \A k \in 1..Len(plans') : plans'[k].old \in [Members -> Whole]
    PROVE  Inv'
<1>1. ASSUME NEW q \in Procs
      PROVE  ProcOK(proc'[q], temp', plans') /\ SoloOK(proc'[q], lock', temp', plans')
  <2>1. CASE q = p
    BY Z3T(30), <2>1
  <2>2. CASE q # p
    <3>1. ProcOK(proc[q], temp, plans) /\ Kept(proc[q], proc'[q]) /\ plans \in Seq(PlanRec)
      BY <2>2 DEF Inv
    <3>2. ProcOK(proc'[q], temp', plans')
      BY Zenon, <2>2, <3>1, KeptOK
    <3>3. proc'[q].op = "idle" \/ ~proc'[q].solo
      BY Z3T(30), <2>2, <3>1 DEF Inv, Alone, Kept
    <3> QED BY Z3T(30), <3>2, <3>3, NotSolo DEF ProcOK
  <2> QED BY Z3T(30), <2>1, <2>2
<1>2. Exclusive'
  <2>1. \A q \in Procs : q # p => /\ Holding(proc'[q]) => Holding(proc[q])
                                  /\ proc'[q].i = proc[q].i /\ SuffixOf(proc'[q]) = SuffixOf(proc[q])
    BY Z3T(30) DEF Kept, Holding, SuffixOf
  <2> QED BY Z3T(30), <2>1 DEF Inv, Exclusive
<1>3. Alone'
  <2>1. \A q \in Procs : q # p => proc'[q].op = proc[q].op /\ (proc'[q].solo => proc[q].solo)
    BY DEF Kept
  <2> QED BY Z3T(30), <2>1 DEF Inv, Alone
<1>4. Intact'
  BY ZenonT(30) DEF Inv, Intact, Unharmed, Kept
<1> QED BY Z3T(30), <1>1, <1>2, <1>3, <1>4 DEF Inv

\* The temporaries of the other processes stay, and stay theirs.
Undisturbed(p, s) ==
    \A q \in Procs : q # p /\ Holding(proc[q]) =>
        /\ temp'[proc[q].i][SuffixOf(proc[q])] = temp[proc[q].i][SuffixOf(proc[q])]
        /\ Holding(s) => ~(s.i = proc[q].i /\ SuffixOf(s) = SuffixOf(proc[q]))

\* The step of a running command that changes its own process only.
LEMMA OneProc ==
    ASSUME Inv, NEW p \in Procs, proc[p].op # "idle", NEW s, proc' = [proc EXCEPT ![p] = s],
           s.op = "idle" \/ s.solo = proc[p].solo,
           lock' \in [Members -> Contents], temp' \in [Members -> [Suffixes -> Contents \cup {Absent}]],
           plans' = plans \/ (Len(plans) < MaxPlans /\ \E r \in PlanRec : plans' = Append(plans, r)),
           UNCHANGED <<ops, overlapped>>, faults' \in 0..MaxFaults, crashes' \in 0..MaxCrashes,
           direct' \in BOOLEAN, direct => direct', Undisturbed(p, s),
           ProcOK(s, temp', plans'), SoloOK(s, lock', temp', plans'),
           ~direct' => /\ lock' \in [Members -> Whole] /\ Unharmed(s)
                       /\ \A k \in 1..Len(plans') : plans'[k].old \in [Members -> Whole]
    PROVE  Inv'
<1>1. s \in ProcRec /\ proc \in [Procs -> ProcRec]
  BY DEF ProcOK, Inv
<1>2. proc' \in [Procs -> ProcRec] /\ proc'[p] = s /\ \A q \in Procs : q # p => proc'[q] = proc[q]
  BY Z3T(30), <1>1
<1>3. \A q \in Procs : q # p => Kept(proc[q], proc'[q])
  BY Z3T(30), <1>1, <1>2 DEF Kept
<1>5. /\ plans' \in Seq(PlanRec) /\ Len(plans) <= Len(plans') /\ \A k \in 1..Len(plans) : plans'[k] = plans[k]
      /\ Len(plans') <= MaxPlans
  <2>1. plans \in Seq(PlanRec) /\ Len(plans) \in Nat /\ Len(plans) <= MaxPlans
    BY Z3T(30) DEF Inv
  <2>2. CASE plans' = plans
    BY Z3T(30), <2>1, <2>2
  <2>3. ASSUME NEW r \in PlanRec, plans' = Append(plans, r)
        PROVE  /\ plans' \in Seq(PlanRec) /\ Len(plans') = Len(plans) + 1
               /\ \A k \in 1..Len(plans) : plans'[k] = plans[k]
    BY Z3T(30), <2>1, <2>3
  <2> QED BY Z3T(30), <2>1, <2>2, <2>3, Constants
<1>7. ops' \in 0..MaxOps
  BY Z3T(30) DEF Inv
<1>8. overlapped' \in BOOLEAN
  BY DEF Inv
<1>9. s.op # "idle" /\ s.solo => \A q \in Procs : q # p => proc[q].op = "idle"
  BY Zenon DEF Inv, Alone
<1>10. \A q \in Procs : q # p /\ Holding(proc[q]) =>
           /\ temp'[proc[q].i][SuffixOf(proc[q])] = temp[proc[q].i][SuffixOf(proc[q])]
           /\ Holding(s) => ~(s.i = proc[q].i /\ SuffixOf(s) = SuffixOf(proc[q]))
  BY DEF Undisturbed
<1> QED BY ZenonT(30), <1>2, <1>3, <1>5, <1>7, <1>8, <1>9, <1>10, Frame

LEMMA Returns ==
    ASSUME Inv, NEW p \in Procs, proc[p].op # "idle", Return(p), lock' \in [Members -> Contents], temp' = temp,
           plans' = plans \/ (Len(plans) < MaxPlans /\ \E r \in PlanRec : plans' = Append(plans, r)),
           UNCHANGED <<ops, overlapped, faults, direct>>, crashes' \in 0..MaxCrashes,
           ~direct => /\ lock' \in [Members -> Whole]
                      /\ \A k \in 1..Len(plans') : plans'[k].old \in [Members -> Whole]
    PROVE  Inv'
<1>1. proc' = [proc EXCEPT ![p] = Idle] /\ Idle.op = "idle" /\ ~Holding(Idle) /\ Unharmed(Idle)
  <2>1. <<>> \in Seq(Whole)
    OBVIOUS
  <2> QED BY <2>1, IdleRec DEF Return, Holding, Unharmed
<1>2. ProcOK(Idle, temp', plans') /\ SoloOK(Idle, lock', temp', plans')
  BY IdleOK
<1>3. temp' \in [Members -> [Suffixes -> Contents \cup {Absent}]] /\ faults' \in 0..MaxFaults
  BY DEF Inv
<1>4. direct' \in BOOLEAN /\ (direct => direct') /\ (~direct' => ~direct)
  BY DEF Inv
<1>5. Undisturbed(p, Idle)
  BY <1>1 DEF Undisturbed
<1> QED BY Zenon, <1>1, <1>2, <1>3, <1>4, <1>5, OneProc

\* A step that only moves a process that holds no temporary afterwards.
LEMMA Moves ==
    ASSUME Inv, NEW p \in Procs, proc[p].op # "idle", NEW s, proc' = [proc EXCEPT ![p] = s],
           s.solo = proc[p].solo,
           UNCHANGED <<lock, temp, plans, ops, crashes, overlapped, direct>>, faults' \in 0..MaxFaults,
           ~Holding(s), ProcOK(s, temp, plans), SoloOK(s, lock, temp, plans), ~direct => Unharmed(s)
    PROVE  Inv'
<1>1. /\ lock' \in [Members -> Contents] /\ temp' \in [Members -> [Suffixes -> Contents \cup {Absent}]]
      /\ crashes' \in 0..MaxCrashes
  BY DEF Inv
<1>2. direct' \in BOOLEAN /\ (direct => direct') /\ (~direct' => ~direct)
  BY Z3T(30) DEF Inv
<1>3. ~direct' => /\ lock' \in [Members -> Whole] /\ Unharmed(s)
                  /\ \A k \in 1..Len(plans') : plans'[k].old \in [Members -> Whole]
  BY Z3T(30), <1>2 DEF Inv, Intact
<1>4. ProcOK(s, temp', plans') /\ SoloOK(s, lock', temp', plans')
  OBVIOUS
<1>5. Undisturbed(p, s)
  BY DEF Undisturbed
<1> QED BY Zenon, <1>1, <1>2, <1>3, <1>4, <1>5, OneProc

-----------------------------------------------------------------------------
(* Commands that start, and plans.                                          *)

LEMMA StepStart ==
    ASSUME Inv, NEW p \in Procs, NEW op \in {"plan", "apply", "build", "lock"}, NEW step, NEW i \in Members,
           NEW k \in 0..Len(plans), Start(p, op, step, i, k),
           \/ op = "plan" /\ step = "bytes" /\ i = 1
           \/ op = "apply" /\ step = "check" /\ i = 1 /\ k # 0
           \/ op = "build" /\ step = "compile"
           \/ op = "lock" /\ step = "read"
    PROVE  Inv'
<1> DEFINE alone == Busy = {}
           tidy == \A m \in Members : temp[m][Rollback] = Absent
           s == [Idle EXCEPT !.op = op, !.step = step, !.i = i, !.plan = k, !.graph = ops + 1, !.start = lock,
                             !.solo = alone, !.clean = tidy]
<1>1. /\ proc[p].op = "idle" /\ ops < MaxOps /\ ops' = ops + 1 /\ overlapped' = (overlapped \/ Busy # {})
      /\ UNCHANGED <<lock, temp, plans, faults, crashes, direct>>
  BY Zenon DEF Start
<1>2. /\ op \in Ops /\ step \in Steps /\ i \in 0..N /\ k \in 0..MaxPlans /\ ops + 1 \in Graphs
      /\ lock \in [Members -> Contents] /\ Len(plans) \in Nat /\ Len(plans) <= MaxPlans
  <2>1. Len(plans) \in Nat /\ Len(plans) <= MaxPlans
    BY DEF Inv
  <2>2. i \in 0..N
    BY Constants DEF Members
  <2> QED BY <1>1, <2>1, <2>2, Constants DEF Inv, Ops, Steps, Graphs
<1>3. alone \in BOOLEAN /\ tidy \in BOOLEAN
  OBVIOUS
<1> HIDE DEF alone, tidy
<1>4. /\ s \in ProcRec /\ s.op = op /\ s.step = step /\ s.i = i /\ s.plan = k /\ s.start = lock
      /\ s.solo = alone /\ s.clean = tidy /\ s.olds = <<>>
  BY Zenon, <1>2, <1>3, IdleRec DEF ProcRec
<1>5. /\ proc' \in [Procs -> ProcRec] /\ proc'[p] = s
      /\ \A q \in Procs : q # p => proc'[q] = [proc[q] EXCEPT !.solo = proc[q].solo /\ proc[q].op = "idle"]
  <2>1. proc' = [q \in Procs |-> IF q = p THEN s
                   ELSE [proc[q] EXCEPT !.solo = proc[q].solo /\ proc[q].op = "idle"]]
    BY Zenon DEF Start, alone, tidy
  <2>2. \A q \in Procs : [proc[q] EXCEPT !.solo = proc[q].solo /\ proc[q].op = "idle"] \in ProcRec
    <3> SUFFICES ASSUME NEW q \in Procs
                 PROVE  [proc[q] EXCEPT !.solo = proc[q].solo /\ proc[q].op = "idle"] \in ProcRec
      OBVIOUS
    <3>1. proc[q] \in ProcRec /\ (proc[q].solo /\ proc[q].op = "idle") \in BOOLEAN
      BY Zenon DEF Inv
    <3> QED BY Zenon, <3>1, WithSolo DEF SoloSet
  <2> HIDE DEF s
  <2> QED BY <1>4, <2>1, <2>2
<1> HIDE DEF s
<1>6. \A q \in Procs : q # p => Kept(proc[q], proc'[q]) /\ (proc[q].op # "idle" => ~proc'[q].solo)
  <2> SUFFICES ASSUME NEW q \in Procs, q # p
               PROVE  Kept(proc[q], proc'[q]) /\ (proc[q].op # "idle" => ~proc'[q].solo)
    OBVIOUS
  <2>1. proc[q] \in ProcRec /\ proc'[q] \in ProcRec
    BY <1>5 DEF Inv
  <2>2. /\ proc'[q].solo = (proc[q].solo /\ proc[q].op = "idle")
        /\ proc'[q].op = proc[q].op /\ proc'[q].i = proc[q].i /\ proc'[q].plan = proc[q].plan
        /\ proc'[q].olds = proc[q].olds /\ proc'[q].content = proc[q].content /\ proc'[q].step = proc[q].step
    <3>1. (proc[q].solo /\ proc[q].op = "idle") \in BOOLEAN
      BY Zenon
    <3>2. proc'[q] = [proc[q] EXCEPT !.solo = proc[q].solo /\ proc[q].op = "idle"]
      BY Zenon, <1>5
    <3>3. SoloSet(proc[q], proc[q].solo /\ proc[q].op = "idle", proc'[q])
      BY Zenon, <2>1, <3>1, <3>2, WithSolo
    <3> QED BY Zenon, <3>3 DEF SoloSet
  <2> QED BY Zenon, <2>1, <2>2 DEF Kept
<1>7. Len(plans') <= MaxPlans
  BY <1>1, <1>2
<1>8. ~Holding(s)
  BY Z3T(30), <1>4 DEF Holding
<1>9. ProcOK(s, temp, plans)
  <2>1. StepOf(s) /\ (s.step = "bytes" => Len(s.olds) = s.i - 1) /\ s.step \notin {"parse", "rename"}
    BY <1>4 DEF StepOf
  <2>2. s.op \in {"apply", "undo"} => s.plan \in 1..Len(plans)
    BY Z3T(30), <1>2, <1>4
  <2> QED BY <1>4, <1>8, <2>1, <2>2 DEF ProcOK
<1>10. SoloOK(s, lock, temp, plans)
  <2>1. s.clean => \A m \in Members : temp[m][Rollback] = Absent
    BY Zenon, <1>4 DEF tidy
  <2>2. s.op # "undo" /\ (s.op = "apply" => s.step = "check" /\ s.i = 1) /\ s.start = lock
    BY <1>4
  <2>3. \A m \in Members : ~(m < 1)
    BY DEF Members
  <2> QED BY <2>1, <2>2, <2>3 DEF SoloOK
<1>11. s.solo => \A q \in Procs : q # p => proc[q].op = "idle"
  BY Zenon, <1>4 DEF alone, Busy
<1>12. /\ lock' \in [Members -> Contents] /\ temp' \in [Members -> [Suffixes -> Contents \cup {Absent}]]
       /\ plans' \in Seq(PlanRec) /\ Len(plans) <= Len(plans') /\ \A j \in 1..Len(plans) : plans'[j] = plans[j]
       /\ ops' \in 0..MaxOps /\ faults' \in 0..MaxFaults /\ crashes' \in 0..MaxCrashes
  BY Z3T(30), <1>1, <1>2, Constants DEF Inv
<1>13. direct' \in BOOLEAN /\ overlapped' \in BOOLEAN /\ (direct => direct') /\ (~direct' => ~direct)
  BY ZenonT(30), <1>1 DEF Inv
<1>14. ~direct' => /\ lock' \in [Members -> Whole] /\ Unharmed(s)
                   /\ \A j \in 1..Len(plans') : plans'[j].old \in [Members -> Whole]
  <2>1. Unharmed(s)
    <3>1. <<>> \in Seq(Whole)
      OBVIOUS
    <3> QED BY <1>4, <3>1 DEF Unharmed
  <2> QED BY <1>1, <1>13, <2>1 DEF Inv, Intact
<1> QED BY Zenon, <1>1, <1>5, <1>6, <1>7, <1>8, <1>9, <1>10, <1>11, <1>12, <1>13, <1>14, Frame

LEMMA Starts ==
    ASSUME Inv, NEW p \in Procs, StartPlan(p) \/ StartApply(p) \/ StartBuild(p) \/ StartLock(p)
    PROVE  Inv'
<1>0. Len(plans) \in Nat
  BY DEF Inv
<1>1. CASE StartPlan(p)
  BY <1>0, <1>1, StepStart, Constants DEF StartPlan
<1>2. CASE StartApply(p)
  BY <1>0, <1>2, StepStart, Constants DEF StartApply
<1>3. CASE StartBuild(p)
  BY <1>0, <1>3, StepStart DEF StartBuild
<1>4. CASE StartLock(p)
  BY <1>0, <1>4, StepStart DEF StartLock
<1> QED BY <1>1, <1>2, <1>3, <1>4

LEMMA StepPlanReads ==
    ASSUME Inv, NEW p \in Procs, PlanReads(p)
    PROVE  Inv'
<1> DEFINE o == proc[p]
           s == [o EXCEPT !.olds = Append(o.olds, lock[o.i]), !.step = "parse"]
<1>1. /\ o.op = "plan" /\ o.step = "bytes"
      /\ UNCHANGED <<lock, temp, plans, ops, crashes, overlapped, direct, faults>>
  BY DEF PlanReads, Step, Quiet
<1>2. proc' = [proc EXCEPT ![p] = s]
  BY Zenon DEF PlanReads, Inv
<1>3. o \in ProcRec /\ ProcOK(o, temp, plans)
  BY DEF Inv
<1>4. o.i \in Members /\ Len(o.olds) = o.i - 1 /\ lock[o.i] \in Contents /\ o.olds \in Seq(Contents)
  BY Zenon, <1>1, <1>3 DEF ProcOK, ProcRec, Inv
<1>5. Append(o.olds, lock[o.i]) \in Seq(Contents) /\ Len(Append(o.olds, lock[o.i])) = o.i
  BY <1>4 DEF Members
<1>6. /\ s \in ProcRec /\ s.op = "plan" /\ s.step = "parse" /\ s.i = o.i /\ s.solo = o.solo
      /\ s.olds = Append(o.olds, lock[o.i]) /\ s.clean = o.clean
  BY Zenon, <1>1, <1>3, <1>5 DEF ProcRec, Steps
<1>7. ~direct => Append(o.olds, lock[o.i]) \in Seq(Whole)
  <2> SUFFICES ASSUME ~direct PROVE Append(o.olds, lock[o.i]) \in Seq(Whole)
    OBVIOUS
  <2>1. o.olds \in Seq(Whole) /\ lock[o.i] \in Whole
    BY Zenon, <1>4 DEF Inv, Intact, Unharmed
  <2> QED BY <2>1
<1>11. SoloOK(o, lock, temp, plans)
  BY DEF Inv
<1> HIDE DEF s, o
<1>8. ~Holding(s) /\ ProcOK(s, temp, plans)
  BY Zenon, <1>4, <1>5, <1>6 DEF Holding, ProcOK, StepOf
<1>9. SoloOK(s, lock, temp, plans)
  BY <1>1, <1>6, <1>11 DEF SoloOK
<1>10. ~direct => Unharmed(s)
  BY <1>6, <1>7 DEF Unharmed
<1>12. faults' \in 0..MaxFaults
  BY Zenon, <1>1 DEF Inv
<1> QED BY Zenon, <1>1, <1>2, <1>6, <1>8, <1>9, <1>10, <1>12, Moves DEF o

LEMMA StepPlanParses ==
    ASSUME Inv, NEW p \in Procs, PlanParses(p)
    PROVE  Inv'
<1> DEFINE o == proc[p]
<1>1. /\ o.op = "plan" /\ o.step = "parse"
      /\ UNCHANGED <<lock, temp, ops, crashes, overlapped, direct, faults>>
  BY DEF PlanParses, Step, Quiet
<1>2. o \in ProcRec /\ ProcOK(o, temp, plans) /\ SoloOK(o, lock, temp, plans)
  BY ZenonT(30) DEF Inv
<1>3. o.i \in Members /\ Len(o.olds) = o.i /\ o.olds \in Seq(Contents)
  BY <1>1, <1>2 DEF ProcOK, ProcRec
<1>4. lock' \in [Members -> Contents] /\ crashes' \in 0..MaxCrashes /\ faults' \in 0..MaxFaults
  BY <1>1 DEF Inv
<1>5. CASE Return(p) /\ plans' = plans
  <2>1. ~direct => /\ lock' \in [Members -> Whole]
                   /\ \A k \in 1..Len(plans') : plans'[k].old \in [Members -> Whole]
    BY Z3T(30), <1>1, <1>5 DEF Inv, Intact
  <2> QED BY ZenonT(30), <1>1, <1>4, <1>5, <2>1, Returns
<1>6. CASE o.i < N /\ Goto(p, "bytes", o.i + 1) /\ plans' = plans
  <2> DEFINE j == o.i + 1
             s == [o EXCEPT !.step = "bytes", !.i = j]
  <2>0. proc' = [proc EXCEPT ![p] = s]
    BY Zenon, <1>6 DEF Goto, Inv
  <2>1. j \in Members /\ "bytes" \in Steps /\ j = o.i + 1
    BY <1>3, <1>6, Constants DEF Members, Steps
  <2> HIDE DEF j, o
  <2>2. /\ s \in ProcRec /\ s.step = "bytes" /\ s.i = o.i + 1 /\ s.op = o.op /\ s.olds = o.olds
        /\ s.solo = o.solo /\ s.clean = o.clean
    <3>1. j \in 0..N
      BY <2>1, Constants DEF Members
    <3> QED BY Zenon, <1>2, <2>1, <3>1 DEF ProcRec
  <2>6. ~direct => o.olds \in Seq(Whole)
    BY Zenon DEF Inv, Intact, Unharmed, o
  <2> HIDE DEF s
  <2>3. ~Holding(s) /\ ProcOK(s, temp, plans)
    BY Z3T(30), <1>1, <1>3, <2>1, <2>2 DEF Holding, ProcOK, StepOf, Members
  <2>4. SoloOK(s, lock, temp, plans)
    BY <1>1, <1>2, <2>2 DEF SoloOK
  <2>5. ~direct => Unharmed(s)
    BY <2>2, <2>6 DEF Unharmed
  <2> QED BY Zenon, <1>1, <1>4, <1>6, <2>0, <2>2, <2>3, <2>4, <2>5, Moves DEF o
<1>7. CASE /\ o.i = N /\ Len(plans) < MaxPlans
           /\ plans' = Append(plans, [old |-> o.olds, new |-> [m \in Members |-> Candidate(p)]])
           /\ Return(p)
  <2> DEFINE r == [old |-> o.olds, new |-> [m \in Members |-> Candidate(p)]]
  <2>1. o.olds \in [Members -> Contents]
    BY Z3T(30), <1>3, <1>7 DEF Members
  <2>2. Candidate(p) \in Whole
    BY ZenonT(30), <1>2 DEF Candidate, Whole, ProcRec
  <2>3. r \in PlanRec
    BY ZenonT(30), <2>1, <2>2 DEF PlanRec
  <2>4. ~direct => r.old \in [Members -> Whole]
    <3> SUFFICES ASSUME ~direct PROVE o.olds \in [Members -> Whole]
      BY Z3T(30)
    <3>1. o.olds \in Seq(Whole)
      BY DEF Inv, Intact, Unharmed
    <3> QED BY <1>3, <1>7, <3>1 DEF Members
  <2>5. plans \in Seq(PlanRec)
    BY DEF Inv
  <2> HIDE DEF r, o
  <2>6. plans' = Append(plans, r)
    BY <1>7 DEF r, o
  <2>7. \A k \in 1..Len(plans') : plans'[k] = IF k = Len(plans) + 1 THEN r ELSE plans[k]
    BY <2>5, <2>6, <2>3
  <2>8. Len(plans') = Len(plans) + 1
    BY Z3T(30), <2>5, <2>6, <2>3
  <2>9. ~direct => \A k \in 1..Len(plans) : plans[k].old \in [Members -> Whole]
    BY DEF Inv, Intact
  <2>10. ~direct => \A k \in 1..Len(plans') : plans'[k].old \in [Members -> Whole]
    BY Z3T(30), <2>4, <2>5, <2>7, <2>8, <2>9
  <2>11. ~direct => lock' \in [Members -> Whole]
    BY <1>1 DEF Inv, Intact
  <2> QED BY ZenonT(30), <1>1, <1>4, <1>7, <2>3, <2>6, <2>10, <2>11, Returns DEF o
<1>8. Len(plans) \in Nat /\ Len(plans) <= MaxPlans
  BY DEF Inv
<1>9. Len(plans) = MaxPlans \/ (Len(plans) # MaxPlans /\ Len(plans) < MaxPlans)
  BY <1>8, Constants
<1> QED BY Zenon, <1>1, <1>5, <1>6, <1>7, <1>9 DEF PlanParses

-----------------------------------------------------------------------------
(* What follows a replacement.                                              *)

Replaces(o) == o.op \in {"apply", "undo"} /\ o.step \in {"create", "write", "rename"}

Same(o, s) ==
    /\ s \in ProcRec /\ s.plan = o.plan /\ s.start = o.start /\ s.solo = o.solo /\ s.clean = o.clean
    /\ s.olds = o.olds

\* On to the next lock, and back to the one before.
Advanced(o, s) ==
    /\ Same(o, s) /\ s.op = "apply"
    /\ \/ o.i < N /\ s.step = "create" /\ s.i = o.i + 1
       \/ o.i = N /\ s.step = "ok" /\ s.i = o.i
Retreated(o, s) ==
    /\ Same(o, s) /\ s.op = "undo"
    /\ \/ o.i > 1 /\ s.step = "create" /\ s.i = o.i - 1
       \/ o.i = 1 /\ s.step = "err" /\ s.i = o.i

LEMMA ContinueOK ==
    ASSUME Inv, NEW p \in Procs, Replaces(proc[p])
    PROVE  /\ proc[p].op = "apply" => Advanced(proc[p], Continue(p, TRUE))
           /\ proc[p].op = "undo" => /\ Retreated(proc[p], Continue(p, TRUE))
                                     /\ Continue(p, TRUE).unrestored = proc[p].unrestored
           /\ Retreated(proc[p], Continue(p, FALSE))
           /\ Continue(p, FALSE).unrestored = proc[p].unrestored
<1> DEFINE o == proc[p]
           next == [o EXCEPT !.step = "create", !.i = o.i + 1]
           done == [o EXCEPT !.step = "ok"]
           back == [o EXCEPT !.op = "undo", !.step = "create", !.i = o.i - 1]
           over == [o EXCEPT !.op = "undo", !.step = "err"]
<1>1. o \in ProcRec /\ ProcOK(o, temp, plans)
  BY Zenon DEF Inv
<1>2. o.i \in 1..N /\ N \in Nat
  BY <1>1, Constants DEF ProcOK, Replaces, Members
<1>3. "create" \in Steps /\ "ok" \in Steps /\ "err" \in Steps /\ "undo" \in Ops
  BY DEF Steps, Ops
<1>4. o.op = "apply" /\ o.i < N => Advanced(o, next)
  <2> SUFFICES ASSUME o.op = "apply", o.i < N PROVE Advanced(o, next)
    OBVIOUS
  <2>1. o.i + 1 \in 0..N
    BY <1>2
  <2> QED BY Zenon, <1>1, <1>3, <2>1 DEF Advanced, Same, ProcRec
<1>5. o.op = "apply" /\ ~(o.i < N) => Advanced(o, done)
  BY Z3T(30), <1>1, <1>2, <1>3 DEF Advanced, Same, ProcRec
<1>6. o.i > 1 => Retreated(o, back) /\ back.unrestored = o.unrestored
  <2> SUFFICES ASSUME o.i > 1 PROVE Retreated(o, back) /\ back.unrestored = o.unrestored
    OBVIOUS
  <2>1. o.i - 1 \in 0..N
    BY <1>2
  <2> QED BY Zenon, <1>1, <1>3, <2>1 DEF Retreated, Same, ProcRec
<1>7. ~(o.i > 1) => Retreated(o, over) /\ over.unrestored = o.unrestored
  <2> SUFFICES ASSUME ~(o.i > 1) PROVE Retreated(o, over) /\ over.unrestored = o.unrestored
    OBVIOUS
  <2>1. o.i = 1
    BY <1>2
  <2> QED BY Zenon, <1>1, <1>3, <2>1 DEF Retreated, Same, ProcRec
<1>8. /\ o.op = "apply" => Continue(p, TRUE) = IF o.i < N THEN next ELSE done
      /\ o.op # "apply" => Continue(p, TRUE) = IF o.i > 1 THEN back ELSE over
      /\ Continue(p, FALSE) = IF o.i > 1 THEN back ELSE over
  BY DEF Continue
<1> HIDE DEF o, next, done, back, over
<1>9. /\ o.op = "apply" => Advanced(o, Continue(p, TRUE))
      /\ o.op = "undo" => Retreated(o, Continue(p, TRUE)) /\ Continue(p, TRUE).unrestored = o.unrestored
      /\ Retreated(o, Continue(p, FALSE)) /\ Continue(p, FALSE).unrestored = o.unrestored
  BY Zenon, <1>4, <1>5, <1>6, <1>7, <1>8
<1> QED BY Zenon, <1>9 DEF o

LEMMA FaultOK ==
    ASSUME Inv, NEW p \in Procs, Replaces(proc[p]), Fault(p)
    PROVE  \E s : /\ proc' = [proc EXCEPT ![p] = s] /\ Retreated(proc[p], s)
                  /\ proc[p].op = "undo" => s.unrestored
                  /\ faults' \in 0..MaxFaults
<1> DEFINE c == Continue(p, FALSE)
           b == c.unrestored \/ proc[p].op = "undo"
           s == [c EXCEPT !.unrestored = b]
<1>1. proc' = [proc EXCEPT ![p] = s]
  BY DEF Fault
<1>2. Retreated(proc[p], c) /\ c \in ProcRec
  BY Zenon, ContinueOK DEF Retreated, Same
<1>3. b \in BOOLEAN /\ (proc[p].op = "undo" => b)
  BY Zenon
<1> HIDE DEF c, b
<1>4. /\ s \in ProcRec /\ s.unrestored = b /\ s.op = c.op /\ s.step = c.step /\ s.i = c.i /\ s.plan = c.plan
      /\ s.start = c.start /\ s.solo = c.solo /\ s.clean = c.clean /\ s.olds = c.olds
  BY <1>2, <1>3 DEF ProcRec
<1>5. faults' \in 0..MaxFaults
  BY Z3T(30), Constants DEF Fault, Inv
<1> HIDE DEF s
<1>6. Retreated(proc[p], s)
  BY <1>2, <1>4 DEF Retreated, Same
<1> QED BY Zenon, <1>1, <1>3, <1>4, <1>5, <1>6

LEMMA ContinuedOK ==
    ASSUME NEW o, NEW s, NEW tp, NEW tp2, NEW pl, ProcOK(o, tp, pl), Replaces(o), Advanced(o, s) \/ Retreated(o, s)
    PROVE  ProcOK(s, tp2, pl) /\ ~Holding(s) /\ s.op # "plan" /\ (Unharmed(o) => Unharmed(s))
<1>1. o.i \in 1..N /\ N \in Nat /\ o.plan \in 1..Len(pl)
  BY Zenon, Constants DEF ProcOK, Replaces, Members
<1>2. s.i \in Members /\ s.plan \in 1..Len(pl) /\ s \in ProcRec
  BY Z3T(30), <1>1 DEF Advanced, Retreated, Same, Members
<1>3. StepOf(s) /\ s.step \in {"create", "ok", "err"} /\ s.op \in {"apply", "undo"}
  BY Zenon DEF Advanced, Retreated, StepOf
<1> QED BY Zenon, <1>2, <1>3 DEF ProcOK, Holding, Unharmed, Advanced, Retreated, Same

\* lk2 is lk with c in member i; tp2 has the rollback files of tp, the one of
\* member i apart.
Replaced(lk, lk2, i, c) == \A m \in Members : lk2[m] = IF m = i THEN c ELSE lk[m]
RollbacksKept(tp, tp2) == \A m \in Members : tp2[m][Rollback] = tp[m][Rollback]
RollbackGone(tp, tp2, i) == \A m \in Members : tp2[m][Rollback] = IF m = i THEN Absent ELSE tp[m][Rollback]

\* A lock was replaced.
LEMMA SoloReplaced ==
    ASSUME NEW o \in ProcRec, NEW s, NEW lk \in [Members -> Contents], NEW lk2, NEW tp, NEW tp2, NEW pl,
           o.op = "apply", o.step = "rename", o.i \in Members, SoloOK(o, lk, tp, pl), Advanced(o, s),
           Replaced(lk, lk2, o.i, pl[o.plan].new[o.i]), RollbacksKept(tp, tp2)
    PROVE  SoloOK(s, lk2, tp2, pl)
<1> SUFFICES ASSUME s.solo PROVE SoloOK(s, lk2, tp2, pl)
  BY ZenonT(30) DEF SoloOK
<1>1. o.solo /\ s.clean = o.clean /\ s.op = "apply" /\ s.plan = o.plan /\ s.start = o.start
  BY Zenon DEF Advanced, Same
<1>2. s.clean => \A m \in Members : tp2[m][Rollback] = Absent
  BY ZenonT(30), <1>1 DEF SoloOK, RollbacksKept
<1>3. \A m \in Members : /\ s.start[m] = pl[s.plan].old[m]
                         /\ lk[m] = IF m < o.i THEN pl[s.plan].new[m] ELSE pl[s.plan].old[m]
  <2>1. ApplyAlone(o)
    BY Zenon, <1>1 DEF ApplyAlone
  <2>2. ApplyView(lk, o.start, pl[o.plan], o.i)
    BY Zenon, <2>1, ApplyKnows
  <2>3. ApplyView(lk, s.start, pl[s.plan], o.i)
    BY Zenon, <1>1, <2>2
  <2> QED BY Zenon, <2>3 DEF ApplyView
<1>4. \A m \in Members : lk2[m] = IF m <= o.i THEN pl[s.plan].new[m] ELSE pl[s.plan].old[m]
  BY <1>1, <1>3, Constants DEF Members, Replaced
<1>5. CASE o.i < N /\ s.step = "create" /\ s.i = o.i + 1
  <2>1. \A m \in Members : lk2[m] = IF m < s.i THEN pl[s.plan].new[m] ELSE pl[s.plan].old[m]
    BY <1>4, <1>5, Constants DEF Members
  <2> QED BY ZenonT(30), <1>1, <1>2, <1>3, <1>5, <2>1 DEF SoloOK
<1>6. CASE o.i = N /\ s.step = "ok"
  <2>1. \A m \in Members : lk2[m] = pl[s.plan].new[m]
    BY Z3T(30), <1>4, <1>6, Constants DEF Members
  <2> QED BY ZenonT(30), <1>1, <1>2, <1>3, <1>6, <2>1 DEF SoloOK
<1> QED BY <1>5, <1>6 DEF Advanced

\* A replacement failed: the locks before it are restored.
LEMMA SoloFailed ==
    ASSUME NEW o \in ProcRec, NEW s, NEW lk, NEW tp, NEW tp2, NEW pl,
           o.op = "apply", Replaces(o), o.i \in Members, SoloOK(o, lk, tp, pl), Retreated(o, s),
           \A m \in Members : tp2[m][Rollback] = tp[m][Rollback]
    PROVE  SoloOK(s, lk, tp2, pl)
<1> SUFFICES ASSUME s.solo PROVE SoloOK(s, lk, tp2, pl)
  BY Zenon DEF SoloOK
<1>1. /\ o.solo /\ s.clean = o.clean /\ s.op = "undo" /\ s.plan = o.plan /\ s.start = o.start
      /\ o.step \in {"create", "write", "rename"}
  BY ZenonT(30) DEF Retreated, Same, Replaces
<1>2. s.clean => \A m \in Members : tp2[m][Rollback] = Absent
  BY ZenonT(30), <1>1 DEF SoloOK
<1>3. \A m \in Members : /\ s.start[m] = pl[s.plan].old[m]
                         /\ lk[m] = IF m < o.i THEN pl[s.plan].new[m] ELSE pl[s.plan].old[m]
  <2>1. ApplyAlone(o)
    BY Zenon, <1>1 DEF ApplyAlone
  <2>2. ApplyView(lk, o.start, pl[o.plan], o.i)
    BY Zenon, <2>1, ApplyKnows
  <2>3. ApplyView(lk, s.start, pl[s.plan], o.i)
    BY Zenon, <1>1, <2>2
  <2> QED BY Zenon, <2>3 DEF ApplyView
<1>4. CASE o.i > 1 /\ s.step = "create" /\ s.i = o.i - 1
  <2>0. \A m \in Members : (m < o.i) <=> (m <= s.i)
    BY <1>4, Constants DEF Members
  <2>1. \A m \in Members : lk[m] = IF m <= s.i THEN pl[s.plan].new[m] ELSE pl[s.plan].old[m]
    BY Zenon, <1>3, <2>0
  <2> QED BY ZenonT(30), <1>1, <1>2, <1>3, <1>4, <2>1 DEF SoloOK
<1>5. CASE o.i = 1 /\ s.step = "err"
  <2>1. \A m \in Members : lk[m] = pl[s.plan].old[m]
    BY Z3T(30), <1>3, <1>5, Constants DEF Members
  <2> QED BY ZenonT(30), <1>1, <1>2, <1>3, <1>5, <2>1 DEF SoloOK
<1> QED BY <1>4, <1>5 DEF Retreated

\* A lock was restored.
LEMMA SoloRestored ==
    ASSUME NEW o \in ProcRec, NEW s, NEW lk \in [Members -> Contents], NEW lk2, NEW tp, NEW tp2, NEW pl,
           o.op = "undo", o.step = "rename", o.i \in Members, SoloOK(o, lk, tp, pl), Retreated(o, s),
           s.unrestored = o.unrestored,
           Replaced(lk, lk2, o.i, pl[o.plan].old[o.i]), RollbackGone(tp, tp2, o.i)
    PROVE  SoloOK(s, lk2, tp2, pl)
<1> SUFFICES ASSUME s.solo PROVE SoloOK(s, lk2, tp2, pl)
  BY ZenonT(30) DEF SoloOK
<1>1. o.solo /\ s.clean = o.clean /\ s.op = "undo" /\ s.plan = o.plan /\ s.start = o.start
  BY Zenon DEF Retreated, Same
<1>2. s.clean => \A m \in Members : tp2[m][Rollback] = Absent
  BY ZenonT(30), <1>1 DEF SoloOK, RollbackGone
<1> SUFFICES ASSUME s.clean, ~s.unrestored PROVE SoloOK(s, lk2, tp2, pl)
  BY Zenon, <1>1, <1>2 DEF SoloOK
<1>3. \A m \in Members : /\ s.start[m] = pl[s.plan].old[m]
                         /\ lk[m] = IF m <= o.i THEN pl[s.plan].new[m] ELSE pl[s.plan].old[m]
  <2>1. UndoAlone(o)
    BY Zenon, <1>1 DEF UndoAlone
  <2>2. UndoView(lk, o.start, pl[o.plan], o.i)
    BY Zenon, <2>1, UndoKnows
  <2>3. UndoView(lk, s.start, pl[s.plan], o.i)
    BY Zenon, <1>1, <2>2
  <2> QED BY Zenon, <2>3 DEF UndoView
<1>4. \A m \in Members : lk2[m] = IF m < o.i THEN pl[s.plan].new[m] ELSE pl[s.plan].old[m]
  BY <1>1, <1>3, Constants DEF Members, Replaced
<1>5. CASE o.i > 1 /\ s.step = "create" /\ s.i = o.i - 1
  <2>1. \A m \in Members : lk2[m] = IF m <= s.i THEN pl[s.plan].new[m] ELSE pl[s.plan].old[m]
    BY <1>4, <1>5, Constants DEF Members
  <2> QED BY ZenonT(30), <1>1, <1>2, <1>3, <1>5, <2>1 DEF SoloOK
<1>6. CASE o.i = 1 /\ s.step = "err"
  <2>1. \A m \in Members : lk2[m] = pl[s.plan].old[m]
    BY <1>4, <1>6, Constants DEF Members
  <2> QED BY ZenonT(30), <1>1, <1>2, <1>3, <1>6, <2>1 DEF SoloOK
<1> QED BY <1>5, <1>6 DEF Retreated

\* A restoration failed: only the temporaries are still known.
LEMMA SoloUnrestored ==
    ASSUME NEW o \in ProcRec, NEW s, NEW lk, NEW tp, NEW tp2, NEW pl,
           o.op = "undo", Replaces(o), SoloOK(o, lk, tp, pl), Retreated(o, s),
           s.solo /\ s.clean => s.unrestored,
           \A m \in Members : tp2[m][Rollback] = Absent \/ (tp2[m][Rollback] = tp[m][Rollback] /\ ~(Holding(o) /\ m = o.i))
    PROVE  SoloOK(s, lk, tp2, pl)
<1> SUFFICES ASSUME s.solo PROVE SoloOK(s, lk, tp2, pl)
  BY Zenon DEF SoloOK
<1>1. o.solo /\ s.clean = o.clean /\ s.op = "undo"
  BY ZenonT(30) DEF Retreated, Same
<1>2. s.clean => \A m \in Members : tp2[m][Rollback] = Absent
  BY <1>1 DEF SoloOK
<1> QED BY Zenon, <1>1, <1>2 DEF SoloOK

\* Within one replacement the locks do not change.
LEMMA SoloWithin ==
    ASSUME NEW o \in ProcRec, NEW s, NEW lk, NEW tp, NEW tp2, NEW pl,
           Replaces(o), SoloOK(o, lk, tp, pl), Same(o, s), s.op = o.op, s.i = o.i, s.unrestored = o.unrestored,
           Holding(s),
           \A m \in Members : tp2[m][Rollback] = tp[m][Rollback] \/ (o.op = "undo" /\ m = o.i)
    PROVE  SoloOK(s, lk, tp2, pl)
<1>1. s.step \in {"create", "write", "rename"} /\ o.step \in {"create", "write", "rename"}
  BY Zenon DEF Holding, Replaces
<1>2. /\ s.solo = o.solo /\ s.clean = o.clean /\ s.plan = o.plan /\ s.start = o.start
  BY Zenon DEF Same
<1> SUFFICES ASSUME s.solo PROVE SoloOK(s, lk, tp2, pl)
  BY Zenon DEF SoloOK
<1>3. CASE o.op = "apply"
  <2>1. s.clean => \A m \in Members : tp2[m][Rollback] = Absent
    BY Zenon, <1>2, <1>3 DEF SoloOK
  <2>2. \A m \in Members : /\ s.start[m] = pl[s.plan].old[m]
                           /\ lk[m] = IF m < s.i THEN pl[s.plan].new[m] ELSE pl[s.plan].old[m]
    <3>1. ApplyAlone(o)
      BY Zenon, <1>1, <1>2, <1>3 DEF ApplyAlone
    <3>2. ApplyView(lk, o.start, pl[o.plan], o.i)
      BY Zenon, <3>1, ApplyKnows
    <3>3. ApplyView(lk, s.start, pl[s.plan], s.i)
      BY Zenon, <1>2, <3>2
    <3> QED BY Zenon, <3>3 DEF ApplyView
  <2> QED BY Zenon, <1>1, <1>3, <2>1, <2>2 DEF SoloOK
<1>4. CASE o.op = "undo"
  <2>1. s.clean => \A m \in Members : tp2[m][Rollback] = Absent \/ m = s.i
    BY Zenon, <1>2, <1>4 DEF SoloOK
  <2>2. s.clean /\ ~s.unrestored =>
          \A m \in Members : /\ s.start[m] = pl[s.plan].old[m]
                             /\ lk[m] = IF m <= s.i THEN pl[s.plan].new[m] ELSE pl[s.plan].old[m]
    <3> SUFFICES ASSUME s.clean, ~s.unrestored
                 PROVE  \A m \in Members : /\ s.start[m] = pl[s.plan].old[m]
                                           /\ lk[m] = IF m <= s.i THEN pl[s.plan].new[m] ELSE pl[s.plan].old[m]
      BY Zenon
    <3>1. UndoAlone(o)
      BY Zenon, <1>1, <1>2, <1>4 DEF UndoAlone
    <3>2. UndoView(lk, o.start, pl[o.plan], o.i)
      BY Zenon, <3>1, UndoKnows
    <3>3. UndoView(lk, s.start, pl[s.plan], s.i)
      BY Zenon, <1>2, <3>2
    <3> QED BY Zenon, <3>3 DEF UndoView
  <2> QED BY Zenon, <1>1, <1>4, <2>1, <2>2 DEF SoloOK
<1> QED BY Zenon, <1>3, <1>4 DEF Replaces

-----------------------------------------------------------------------------
(* The steps of an apply.                                                   *)

LEMMA StepPreflight ==
    ASSUME Inv, NEW p \in Procs, Preflight(p)
    PROVE  Inv'
<1> DEFINE o == proc[p]
<1>1. /\ o.op = "apply" /\ o.step = "check"
      /\ UNCHANGED <<lock, temp, plans, ops, crashes, overlapped, direct, faults>>
  BY Zenon DEF Preflight, Step, Quiet
<1>2. o \in ProcRec /\ ProcOK(o, temp, plans) /\ SoloOK(o, lock, temp, plans) /\ (~direct => Unharmed(o))
  BY ZenonT(30) DEF Inv, Intact
<1>3. o.i \in Members /\ o.plan \in 1..Len(plans)
  BY <1>1, <1>2 DEF ProcOK
<1>4. lock' \in [Members -> Contents] /\ crashes' \in 0..MaxCrashes /\ faults' \in 0..MaxFaults
  BY Zenon, <1>1 DEF Inv
<1>5. CASE Return(p)
  <2>1. ~direct => /\ lock' \in [Members -> Whole]
                   /\ \A k \in 1..Len(plans') : plans'[k].old \in [Members -> Whole]
    BY Z3T(30), <1>1 DEF Inv, Intact
  <2> QED BY ZenonT(30), <1>1, <1>4, <1>5, <2>1, Returns
<1>6. ASSUME NEW step \in Steps, NEW j \in Members, Goto(p, step, j), lock[o.i] = plans[o.plan].old[o.i],
             \/ o.i < N /\ step = "check" /\ j = o.i + 1
             \/ o.i = N /\ step = "create" /\ j = 1
      PROVE  Inv'
  <2> DEFINE s == [o EXCEPT !.step = step, !.i = j]
  <2>1. proc' = [proc EXCEPT ![p] = s]
    BY Zenon, <1>6 DEF Goto, Inv
  <2>2. j \in 0..N
    BY Constants DEF Members
  <2> HIDE DEF o
  <2>3. Same(o, s) /\ s.op = o.op /\ s.step = step /\ s.i = j
    BY Zenon, <1>2, <2>2 DEF ProcRec, Same
  <2> HIDE DEF s
  <2>4. ~Holding(s) /\ ProcOK(s, temp, plans) /\ (Unharmed(o) => Unharmed(s))
    BY Zenon, <1>1, <1>3, <1>6, <2>3 DEF Holding, ProcOK, StepOf, Same, Unharmed
  <2>5. SoloOK(s, lock, temp, plans)
    <3> SUFFICES ASSUME s.solo PROVE SoloOK(s, lock, temp, plans)
      BY ZenonT(30) DEF SoloOK
    <3>1. /\ o.solo /\ s.clean = o.clean /\ s.op = "apply" /\ s.plan = o.plan /\ s.start = o.start
      BY <1>1, <2>3 DEF Same
    <3>2. s.clean => \A m \in Members : temp[m][Rollback] = Absent
      BY Zenon, <1>1, <1>2, <3>1 DEF SoloOK
    <3>3. \A m \in Members : s.start[m] = lock[m] /\ (m < o.i => lock[m] = plans[s.plan].old[m])
      BY ZenonT(30), <1>1, <1>2, <3>1 DEF SoloOK
    <3>4. \A m \in Members : m <= o.i => lock[m] = plans[s.plan].old[m]
      <4>1. \A m \in Members : m <= o.i => m < o.i \/ m = o.i
        BY <1>3, Constants DEF Members
      <4> QED BY Zenon, <1>6, <3>1, <3>3, <4>1
    <3>5. CASE o.i < N /\ step = "check" /\ j = o.i + 1
      <4>1. \A m \in Members : m < s.i => lock[m] = plans[s.plan].old[m]
        BY Z3T(30), <1>3, <2>3, <3>4, <3>5, Constants DEF Members
      <4> QED BY Z3T(30), <2>3, <3>1, <3>2, <3>3, <3>5, <4>1 DEF SoloOK
    <3>6. CASE o.i = N /\ step = "create" /\ j = 1
      <4>1. \A m \in Members : ~(m < s.i) /\ lock[m] = plans[s.plan].old[m]
        BY Z3T(30), <1>3, <2>3, <3>4, <3>6, Constants DEF Members
      <4> QED BY Zenon, <2>3, <3>1, <3>2, <3>3, <3>6, <4>1 DEF SoloOK
    <3> QED BY Zenon, <1>6, <3>5, <3>6
  <2>6. s.solo = o.solo /\ s.op = "apply"
    BY Zenon, <1>1, <2>3 DEF Same
  <2> QED BY Zenon, <1>1, <1>2, <1>4, <2>1, <2>4, <2>5, <2>6, Moves DEF o
<1>7. o.i < N => o.i + 1 \in Members
  BY Z3T(30), <1>3, Constants DEF Members
<1>8. "check" \in Steps /\ "create" \in Steps /\ 1 \in Members
  BY Constants DEF Steps
<1>9. CASE o.i < N /\ Fresh(p, o.i) /\ Goto(p, "check", o.i + 1)
  BY Zenon, <1>6, <1>7, <1>8, <1>9 DEF Fresh, Plan
<1>10. CASE o.i = N /\ Fresh(p, o.i) /\ Goto(p, "create", 1)
  BY Zenon, <1>6, <1>8, <1>10 DEF Fresh, Plan
<1> QED BY Zenon, <1>5, <1>9, <1>10 DEF Preflight

\* The slot a replacement works on, and what a change of it leaves alone.
Sets(p, c) == temp' = [temp EXCEPT ![proc[p].i][Suffix(p)] = c]

LEMMA Slot ==
    ASSUME Inv, NEW p \in Procs, Replaces(proc[p]), NEW c \in Contents \cup {Absent}, Sets(p, c)
    PROVE  /\ temp' \in [Members -> [Suffixes -> Contents \cup {Absent}]]
           /\ temp'[proc[p].i][SuffixOf(proc[p])] = c
           /\ \A m \in Members, x \in Suffixes : m # proc[p].i \/ x # SuffixOf(proc[p]) => temp'[m][x] = temp[m][x]
           /\ \A m \in Members : temp'[m][Rollback] = IF proc[p].op = "undo" /\ m = proc[p].i THEN c ELSE temp[m][Rollback]
<1> DEFINE o == proc[p]
<1>1. ProcOK(o, temp, plans) /\ o.op \in {"apply", "undo"}
  BY DEF Inv, Replaces
<1>2. o.i \in Members /\ o.plan \in 1..Len(plans) /\ Len(plans) <= MaxPlans
  <2>1. Len(plans) \in Nat /\ Len(plans) <= MaxPlans
    BY Z3T(30) DEF Inv
  <2> QED BY ZenonT(30), <1>1, <2>1, Constants DEF ProcOK
<1>3. o.plan \in 1..MaxPlans
  BY Z3T(30), <1>2, Constants DEF Inv
<1>4. /\ SuffixOf(o) \in Suffixes /\ Suffix(p) = SuffixOf(o) /\ Rollback \in Suffixes
      /\ SuffixOf(o) = Rollback <=> o.op = "undo"
  BY Z3T(30), <1>1, <1>3, Constants DEF SuffixOf, Suffix
<1>5. temp \in [Members -> [Suffixes -> Contents \cup {Absent}]]
  BY DEF Inv
<1> HIDE DEF o
<1>6. temp' = [temp EXCEPT ![o.i][SuffixOf(o)] = c]
  BY Zenon, <1>4 DEF o, Sets
<1>7. /\ temp' \in [Members -> [Suffixes -> Contents \cup {Absent}]]
      /\ temp'[o.i][SuffixOf(o)] = c
      /\ \A m \in Members, x \in Suffixes : m # o.i \/ x # SuffixOf(o) => temp'[m][x] = temp[m][x]
  <2> DEFINE row == [temp[o.i] EXCEPT ![SuffixOf(o)] = c]
  <2>1. temp' = [temp EXCEPT ![o.i] = row]
    BY <1>6
  <2>2. temp[o.i] \in [Suffixes -> Contents \cup {Absent}]
    BY ZenonT(30), <1>2, <1>5
  <2>3. /\ row \in [Suffixes -> Contents \cup {Absent}] /\ row[SuffixOf(o)] = c
        /\ \A x \in Suffixes : x # SuffixOf(o) => row[x] = temp[o.i][x]
    BY Z3T(30), <1>4, <2>2
  <2> HIDE DEF row
  <2>4. temp'[o.i] = row /\ \A m \in Members : m # o.i => temp'[m] = temp[m]
    BY <1>2, <1>5, <2>1
  <2>5. temp' \in [Members -> [Suffixes -> Contents \cup {Absent}]]
    BY ZenonT(30), <1>5, <2>1, <2>3
  <2> QED BY <1>2, <2>3, <2>4, <2>5
<1>8. \A m \in Members : temp'[m][Rollback] = IF o.op = "undo" /\ m = o.i THEN c ELSE temp[m][Rollback]
  BY Zenon, <1>4, <1>7
<1> QED BY Z3T(30), <1>7, <1>8 DEF o

\* Holders of temporaries work on slots of their own.
LEMMA OtherSlots ==
    ASSUME Inv, NEW p \in Procs, Replaces(proc[p]), Holding(proc[p]) \/ temp[proc[p].i][SuffixOf(proc[p])] = Absent
    PROVE  \A q \in Procs : q # p /\ Holding(proc[q]) =>
               /\ proc[q].i \in Members /\ SuffixOf(proc[q]) \in Suffixes
               /\ proc[q].i # proc[p].i \/ SuffixOf(proc[q]) # SuffixOf(proc[p])
<1> SUFFICES ASSUME NEW q \in Procs, q # p, Holding(proc[q])
             PROVE  /\ proc[q].i \in Members /\ SuffixOf(proc[q]) \in Suffixes
                    /\ proc[q].i # proc[p].i \/ SuffixOf(proc[q]) # SuffixOf(proc[p])
  OBVIOUS
<1>1. ProcOK(proc[q], temp, plans)
  BY DEF Inv
<1>2. proc[q].op \in {"apply", "undo"} /\ proc[q].i \in Members /\ proc[q].plan \in 1..Len(plans)
  BY Zenon, <1>1 DEF ProcOK, StepOf, Holding
<1>3. Len(plans) \in Nat /\ Len(plans) <= MaxPlans
  BY Z3T(30) DEF Inv
<1>4. SuffixOf(proc[q]) \in Suffixes
  BY Z3T(30), <1>2, <1>3, Constants DEF SuffixOf
<1>5. temp[proc[q].i][SuffixOf(proc[q])] # Absent
  BY Zenon, <1>1 DEF ProcOK
<1>6. proc[q].i # proc[p].i \/ SuffixOf(proc[q]) # SuffixOf(proc[p])
  <2>1. CASE Holding(proc[p])
    BY ZenonT(30), <2>1 DEF Inv, Exclusive
  <2>2. CASE temp[proc[p].i][SuffixOf(proc[p])] = Absent
    BY <1>5, <2>2
  <2> QED BY Zenon, <2>1, <2>2
<1> QED BY Zenon, <1>2, <1>4, <1>6

LEMMA ReplacerFacts ==
    ASSUME Inv, NEW p \in Procs, Replaces(proc[p])
    PROVE  LET o == proc[p] IN
           /\ o \in ProcRec /\ ProcOK(o, temp, plans) /\ SoloOK(o, lock, temp, plans) /\ (~direct => Unharmed(o))
           /\ o.op # "idle" /\ o.op # "plan" /\ o.op \in {"apply", "undo"} /\ o.i \in Members
           /\ o.plan \in 1..Len(plans) /\ plans[o.plan] \in PlanRec
           /\ lock \in [Members -> Contents] /\ faults \in 0..MaxFaults /\ crashes \in 0..MaxCrashes
           /\ temp \in [Members -> [Suffixes -> Contents \cup {Absent}]]
<1>1. /\ proc[p] \in ProcRec /\ ProcOK(proc[p], temp, plans) /\ SoloOK(proc[p], lock, temp, plans)
      /\ (~direct => Unharmed(proc[p])) /\ plans \in Seq(PlanRec)
      /\ lock \in [Members -> Contents] /\ faults \in 0..MaxFaults /\ crashes \in 0..MaxCrashes
      /\ temp \in [Members -> [Suffixes -> Contents \cup {Absent}]]
  BY ZenonT(30) DEF Inv, Intact
<1>2. proc[p].op # "idle" /\ proc[p].op # "plan" /\ proc[p].op \in {"apply", "undo"}
  BY DEF Replaces
<1>3. proc[p].i \in Members /\ proc[p].plan \in 1..Len(plans)
  BY Zenon, <1>1, <1>2 DEF ProcOK
<1>4. ASSUME NEW k \in 1..Len(plans), plans \in Seq(PlanRec) PROVE plans[k] \in PlanRec
  BY <1>4
<1> QED BY Zenon, <1>1, <1>2, <1>3, <1>4

\* Frame of the steps of a replacement: its own slot and, at the rename, its
\* lock change.
LEMMA ReplacerStep ==
    ASSUME Inv, NEW p \in Procs, Replaces(proc[p]), NEW s, proc' = [proc EXCEPT ![p] = s], Same(proc[p], s),
           s.op \in {"apply", "undo"}, lock' = lock,
           temp' \in [Members -> [Suffixes -> Contents \cup {Absent}]],
           temp' = temp \/ (/\ Holding(proc[p]) \/ temp[proc[p].i][SuffixOf(proc[p])] = Absent
                            /\ \A m \in Members, x \in Suffixes :
                                  m # proc[p].i \/ x # SuffixOf(proc[p]) => temp'[m][x] = temp[m][x]),
           Holding(s) => /\ s.i = proc[p].i /\ s.op = proc[p].op
                         /\ Holding(proc[p]) \/ temp[proc[p].i][SuffixOf(proc[p])] = Absent,
           UNCHANGED <<plans, ops, crashes, overlapped, direct>>, faults' \in 0..MaxFaults,
           ProcOK(s, temp', plans), SoloOK(s, lock, temp', plans), Unharmed(proc[p]) => Unharmed(s)
    PROVE  Inv'
<1>1. /\ proc[p].op # "idle" /\ s.op # "plan" /\ lock' \in [Members -> Contents] /\ crashes' \in 0..MaxCrashes
      /\ s.solo = proc[p].solo
  BY Zenon, ReplacerFacts DEF Same
<1>2. direct' \in BOOLEAN /\ (direct => direct') /\ (~direct' => ~direct)
  BY DEF Inv
<1>3. ~direct' => /\ lock' \in [Members -> Whole] /\ Unharmed(s)
                  /\ \A k \in 1..Len(plans') : plans'[k].old \in [Members -> Whole]
  BY Zenon, <1>2 DEF Inv, Intact
<1>4. \A q \in Procs : q # p /\ Holding(proc[q]) =>
          temp'[proc[q].i][SuffixOf(proc[q])] = temp[proc[q].i][SuffixOf(proc[q])]
  <2>1. CASE temp' = temp
    BY Zenon, <2>1
  <2>2. CASE /\ Holding(proc[p]) \/ temp[proc[p].i][SuffixOf(proc[p])] = Absent
             /\ \A m \in Members, x \in Suffixes :
                   m # proc[p].i \/ x # SuffixOf(proc[p]) => temp'[m][x] = temp[m][x]
    BY ZenonT(30), <2>2, OtherSlots
  <2> QED BY ZenonT(30), <2>1, <2>2
<1>5. Holding(s) => SuffixOf(s) = SuffixOf(proc[p])
  BY Zenon DEF SuffixOf, Same
<1>6. \A q \in Procs : q # p /\ Holding(proc[q]) =>
          (Holding(s) => ~(s.i = proc[q].i /\ SuffixOf(s) = SuffixOf(proc[q])))
  BY Z3T(30), <1>5, OtherSlots
<1>7. ProcOK(s, temp', plans') /\ SoloOK(s, lock', temp', plans')
  BY ZenonT(30)
<1>8. Undisturbed(p, s)
  BY <1>4, <1>6 DEF Undisturbed
<1> QED BY ZenonT(30), <1>1, <1>2, <1>3, <1>7, <1>8, OneProc

\* A fault sends the command back, whatever became of its slot.
LEMMA StepFault ==
    ASSUME Inv, NEW p \in Procs, Replaces(proc[p]), Fault(p), lock' = lock,
           \/ temp' = temp /\ ~Holding(proc[p])
           \/ Sets(p, Absent) /\ Holding(proc[p]),
           UNCHANGED <<plans, ops, crashes, overlapped, direct>>
    PROVE  Inv'
<1>1. PICK s : /\ proc' = [proc EXCEPT ![p] = s] /\ Retreated(proc[p], s)
               /\ proc[p].op = "undo" => s.unrestored
               /\ faults' \in 0..MaxFaults
  BY Zenon, FaultOK
<1>2. Same(proc[p], s) /\ s.op = "undo"
  BY <1>1 DEF Retreated
<1>3. ProcOK(s, temp', plans) /\ ~Holding(s) /\ (Unharmed(proc[p]) => Unharmed(s))
  BY Zenon, <1>1, ReplacerFacts, ContinuedOK
<1>4. /\ temp' \in [Members -> [Suffixes -> Contents \cup {Absent}]]
      /\ \A m \in Members, x \in Suffixes : m # proc[p].i \/ x # SuffixOf(proc[p]) => temp'[m][x] = temp[m][x]
      /\ \A m \in Members : temp'[m][Rollback] = IF Holding(proc[p]) /\ proc[p].op = "undo" /\ m = proc[p].i
                                                THEN Absent ELSE temp[m][Rollback]
  <2>1. CASE temp' = temp /\ ~Holding(proc[p])
    BY ZenonT(30), <2>1, ReplacerFacts
  <2>2. CASE Sets(p, Absent) /\ Holding(proc[p])
    BY <2>2, Slot
  <2> QED BY Zenon, <2>1, <2>2
<1>5. SoloOK(s, lock, temp', plans)
  <2>1. CASE proc[p].op = "apply"
    <3>1. \A m \in Members : temp'[m][Rollback] = temp[m][Rollback]
      BY ZenonT(30), <1>4, <2>1
    <3> QED BY ZenonT(30), <1>1, <2>1, <3>1, ReplacerFacts, SoloFailed
  <2>2. CASE proc[p].op = "undo"
    <3>1. \A m \in Members : \/ temp'[m][Rollback] = Absent
                            \/ (temp'[m][Rollback] = temp[m][Rollback] /\ ~(Holding(proc[p]) /\ m = proc[p].i))
      BY Zenon, <1>4, <2>2
    <3> QED BY <1>1, <2>2, <3>1, ReplacerFacts, SoloUnrestored
  <2> QED BY Zenon, <2>1, <2>2, ReplacerFacts
<1> QED BY ZenonT(30), <1>1, <1>2, <1>3, <1>4, <1>5, ReplacerStep

LEMMA StepCreateTemp ==
    ASSUME Inv, NEW p \in Procs, CreateTemp(p)
    PROVE  Inv'
<1> DEFINE o == proc[p]
<1>1. Replaces(o) /\ o.step = "create" /\ UNCHANGED <<lock, plans, ops, crashes, overlapped, direct>>
  BY DEF CreateTemp, Replacing, Replaces, Quiet
<1>2. ~Holding(o)
  BY Zenon, <1>1 DEF Holding
<1>3. Suffix(p) = SuffixOf(o)
  BY DEF Suffix, SuffixOf
<1>4. CASE /\ Creatable(p) /\ temp' = [temp EXCEPT ![o.i][Suffix(p)] = Torn]
           /\ Goto(p, "write", o.i) /\ UNCHANGED faults
  <2> DEFINE s == [o EXCEPT !.step = "write", !.i = o.i]
  <2>1. proc' = [proc EXCEPT ![p] = s]
    BY Zenon, <1>4 DEF Goto, Inv
  <2>2. temp[o.i][SuffixOf(o)] = Absent
    BY <1>3, <1>4 DEF Creatable
  <2>3. /\ o \in ProcRec /\ ProcOK(o, temp, plans) /\ SoloOK(o, lock, temp, plans) /\ (~direct => Unharmed(o))
        /\ o.i \in Members /\ o.op \in {"apply", "undo"} /\ o.plan \in 1..Len(plans) /\ faults \in 0..MaxFaults
    BY Zenon, <1>1, ReplacerFacts
  <2>4. /\ temp' \in [Members -> [Suffixes -> Contents \cup {Absent}]]
        /\ temp'[o.i][SuffixOf(o)] = Torn
        /\ \A m \in Members, x \in Suffixes : m # o.i \/ x # SuffixOf(o) => temp'[m][x] = temp[m][x]
        /\ \A m \in Members : temp'[m][Rollback] = IF o.op = "undo" /\ m = o.i THEN Torn ELSE temp[m][Rollback]
    <3>1. Sets(p, Torn) /\ Torn \in Contents \cup {Absent}
      BY <1>4, Constants DEF Sets, o
    <3> QED BY ZenonT(30), <1>1, <3>1, Slot
  <2> HIDE DEF o
  <2>5. Same(o, s) /\ s.op = o.op /\ s.i = o.i /\ s.step = "write" /\ s.unrestored = o.unrestored
    BY Zenon, <2>3 DEF Same, ProcRec, Steps
  <2> HIDE DEF s
  <2>6. Holding(s) /\ SuffixOf(s) = SuffixOf(o) /\ Torn # Absent
    BY <2>5, Constants DEF Holding, SuffixOf, Same
  <2>7. ProcOK(s, temp', plans)
    <3>1. s \in ProcRec /\ s.plan = o.plan
      BY ZenonT(30), <2>5 DEF Same
    <3> QED BY Zenon, <2>3, <2>4, <2>5, <2>6, <3>1 DEF ProcOK, StepOf
  <2>8. SoloOK(s, lock, temp', plans)
    BY Z3T(30), <1>1, <2>3, <2>4, <2>5, <2>6, SoloWithin
  <2>9. Unharmed(o) => Unharmed(s)
    BY Z3T(30), <2>5 DEF Unharmed, Same
  <2>10. faults' \in 0..MaxFaults /\ s.op \in {"apply", "undo"}
    BY <1>4, <2>3, <2>5
  <2> QED BY ZenonT(30), <1>1, <2>1, <2>2, <2>4, <2>5, <2>7, <2>8, <2>9, <2>10, ReplacerStep DEF o
<1>5. CASE ~Creatable(p) /\ proc' = [proc EXCEPT ![p] = Continue(p, FALSE)] /\ UNCHANGED <<temp, faults>>
  <2> DEFINE s == Continue(p, FALSE)
  <2>1. Retreated(o, s)
    BY Zenon, <1>1, ContinueOK
  <2>2. temp[o.i][SuffixOf(o)] # Absent
    BY Zenon, <1>3, <1>5 DEF Creatable
  <2>3. /\ o \in ProcRec /\ ProcOK(o, temp, plans) /\ SoloOK(o, lock, temp, plans) /\ (~direct => Unharmed(o))
        /\ o.i \in Members /\ o.op \in {"apply", "undo"} /\ faults \in 0..MaxFaults
        /\ temp \in [Members -> [Suffixes -> Contents \cup {Absent}]]
    BY Zenon, <1>1, ReplacerFacts
  <2>4. proc' = [proc EXCEPT ![p] = s]
    BY Zenon, <1>5
  <2> HIDE DEF s, o
  <2>5. ProcOK(s, temp, plans) /\ ~Holding(s) /\ (Unharmed(o) => Unharmed(s))
    BY Zenon, <1>1, <2>1, <2>3, ContinuedOK
  <2>6. SoloOK(s, lock, temp, plans)
    <3>1. CASE o.op = "apply"
      BY <1>1, <2>1, <2>3, <3>1, SoloFailed
    <3>2. CASE o.op = "undo"
      <4>1. ~(s.solo /\ s.clean)
        <5>1. SuffixOf(o) = Rollback /\ s.solo = o.solo /\ s.clean = o.clean
          BY ZenonT(30), <2>1, <3>2 DEF SuffixOf, Retreated, Same
        <5> QED BY ZenonT(30), <1>2, <2>2, <2>3, <3>2, <5>1 DEF SoloOK
      <4> QED BY Zenon, <2>1, <4>1 DEF SoloOK, Retreated
    <3> QED BY ZenonT(30), <2>3, <3>1, <3>2
  <2>7. Same(o, s) /\ s.op \in {"apply", "undo"} /\ faults' \in 0..MaxFaults /\ temp' = temp
    BY <1>5, <2>1, <2>3 DEF Retreated
  <2> QED BY Zenon, <1>1, <2>3, <2>4, <2>5, <2>6, <2>7, ReplacerStep DEF o
<1>6. CASE Fault(p) /\ UNCHANGED temp
  BY Zenon, <1>1, <1>2, <1>6, StepFault
<1> QED BY Zenon, <1>4, <1>5, <1>6 DEF CreateTemp

LEMMA WantedFacts ==
    ASSUME Inv, NEW p \in Procs, Replaces(proc[p])
    PROVE  /\ Wanted(p) = WantedOf(proc[p], plans) /\ Wanted(p) \in Contents /\ Wanted(p) # Absent
           /\ ~direct => Wanted(p) \in Whole
<1> DEFINE o == proc[p]
<1>1. o.op \in {"apply", "undo"} /\ o.i \in Members /\ o.plan \in 1..Len(plans) /\ plans[o.plan] \in PlanRec
  BY ZenonT(30), ReplacerFacts
<1>2. plans[o.plan].old \in [Members -> Contents] /\ plans[o.plan].new \in [Members -> Whole]
  BY ZenonT(30), <1>1 DEF PlanRec
<1>3. ~direct => plans[o.plan].old \in [Members -> Whole]
  BY Z3T(30), <1>1 DEF Inv, Intact
<1>4. Wanted(p) = IF o.op = "apply" THEN plans[o.plan].new[o.i] ELSE plans[o.plan].old[o.i]
  BY Zenon DEF Wanted, Plan
<1>5. Wanted(p) = WantedOf(o, plans)
  BY <1>4 DEF WantedOf
<1> HIDE DEF o
<1>6. Wanted(p) \in Contents /\ (~direct => Wanted(p) \in Whole)
  BY ZenonT(30), <1>1, <1>2, <1>3, <1>4, Constants
<1> QED BY <1>5, <1>6, Constants DEF o

LEMMA StepWriteTemp ==
    ASSUME Inv, NEW p \in Procs, WriteTemp(p)
    PROVE  Inv'
<1> DEFINE o == proc[p]
<1>1. Replaces(o) /\ o.step = "write" /\ UNCHANGED <<lock, plans, ops, crashes, overlapped, direct>>
  BY DEF WriteTemp, Replacing, Replaces, Quiet
<1>2. Holding(o)
  BY <1>1 DEF Holding
<1>3. CASE /\ temp' = [temp EXCEPT ![proc[p].i][Suffix(p)] = Wanted(p)]
           /\ Goto(p, "rename", o.i) /\ UNCHANGED faults
  <2> DEFINE s == [o EXCEPT !.step = "rename", !.i = o.i]
             c == Wanted(p)
  <2>1. proc' = [proc EXCEPT ![p] = s]
    BY Zenon, <1>3 DEF Goto, Inv
  <2>2. c = WantedOf(o, plans) /\ c \in Contents \cup {Absent} /\ c # Absent
    BY Zenon, <1>1, WantedFacts
  <2>3. /\ o \in ProcRec /\ ProcOK(o, temp, plans) /\ SoloOK(o, lock, temp, plans) /\ (~direct => Unharmed(o))
        /\ o.i \in Members /\ o.op \in {"apply", "undo"} /\ o.plan \in 1..Len(plans) /\ faults \in 0..MaxFaults
    BY Zenon, <1>1, ReplacerFacts
  <2>4. /\ temp' \in [Members -> [Suffixes -> Contents \cup {Absent}]]
        /\ temp'[o.i][SuffixOf(o)] = c
        /\ \A m \in Members, x \in Suffixes : m # o.i \/ x # SuffixOf(o) => temp'[m][x] = temp[m][x]
        /\ \A m \in Members : temp'[m][Rollback] = IF o.op = "undo" /\ m = o.i THEN c ELSE temp[m][Rollback]
    <3>1. Sets(p, c)
      BY <1>3 DEF Sets
    <3> HIDE DEF c
    <3> QED BY ZenonT(30), <1>1, <2>2, <3>1, Slot
  <2> HIDE DEF o, c
  <2>5. Same(o, s) /\ s.op = o.op /\ s.i = o.i /\ s.step = "rename" /\ s.unrestored = o.unrestored
    BY Zenon, <2>3 DEF Same, ProcRec, Steps
  <2> HIDE DEF s
  <2>6. Holding(s) /\ SuffixOf(s) = SuffixOf(o) /\ WantedOf(s, plans) = c
    BY Zenon, <2>2, <2>5 DEF Holding, SuffixOf, WantedOf, Same
  <2>7. ProcOK(s, temp', plans)
    <3>1. s \in ProcRec /\ s.plan = o.plan
      BY Zenon, <2>5 DEF Same
    <3> QED BY ZenonT(30), <2>2, <2>3, <2>4, <2>5, <2>6, <3>1 DEF ProcOK, StepOf
  <2>8. SoloOK(s, lock, temp', plans)
    BY Z3T(30), <1>1, <2>3, <2>4, <2>5, <2>6, SoloWithin
  <2>9. Unharmed(o) => Unharmed(s)
    BY <2>5 DEF Unharmed, Same
  <2>10. faults' \in 0..MaxFaults /\ s.op \in {"apply", "undo"}
    BY Zenon, <1>3, <2>3, <2>5
  <2> QED BY Zenon, <1>1, <1>2, <2>1, <2>4, <2>5, <2>7, <2>8, <2>9, <2>10, ReplacerStep DEF o
<1>4. CASE Fault(p) /\ temp' = [temp EXCEPT ![proc[p].i][Suffix(p)] = Absent]
  <2>1. Sets(p, Absent)
    BY <1>4 DEF Sets
  <2> QED BY Zenon, <1>1, <1>2, <1>4, <2>1, StepFault
<1> QED BY ZenonT(30), <1>3, <1>4 DEF WriteTemp

LEMMA StepRenameTemp ==
    ASSUME Inv, NEW p \in Procs, RenameTemp(p)
    PROVE  Inv'
<1> DEFINE o == proc[p]
           c == Wanted(p)
           s == Continue(p, TRUE)
<1>1. Replaces(o) /\ o.step = "rename" /\ UNCHANGED <<plans, ops, crashes, overlapped, direct>> /\ Sets(p, Absent)
  BY Zenon DEF RenameTemp, Replacing, Replaces, Quiet, Sets
<1>2. Holding(o)
  BY <1>1 DEF Holding
<1>3. CASE Fault(p) /\ UNCHANGED lock
  BY Zenon, <1>1, <1>2, <1>3, StepFault
<1>4. CASE /\ lock' = [lock EXCEPT ![o.i] = temp[o.i][Suffix(p)]]
           /\ proc' = [q \in Procs |-> IF q = p THEN s ELSE Detach(q, o.i)]
           /\ UNCHANGED faults
  <2>1. c = WantedOf(o, plans) /\ c \in Contents /\ (~direct => c \in Whole)
    BY Zenon, <1>1, WantedFacts
  <2>2. /\ o \in ProcRec /\ ProcOK(o, temp, plans) /\ SoloOK(o, lock, temp, plans) /\ (~direct => Unharmed(o))
        /\ o.i \in Members /\ o.op \in {"apply", "undo"} /\ faults \in 0..MaxFaults /\ crashes \in 0..MaxCrashes
        /\ lock \in [Members -> Contents] /\ o.op # "idle" /\ o.op # "plan"
    BY Zenon, <1>1, ReplacerFacts
  <2>3. temp[o.i][Suffix(p)] = c
    BY ZenonT(30), <1>1, <2>1, <2>2 DEF ProcOK, SuffixOf, Suffix
  <2>4. lock' = [lock EXCEPT ![o.i] = c]
    BY ZenonT(30), <1>4, <2>3
  <2>5. /\ temp' \in [Members -> [Suffixes -> Contents \cup {Absent}]]
        /\ \A m \in Members, x \in Suffixes : m # o.i \/ x # SuffixOf(o) => temp'[m][x] = temp[m][x]
        /\ \A m \in Members : temp'[m][Rollback] = IF o.op = "undo" /\ m = o.i THEN Absent ELSE temp[m][Rollback]
    BY ZenonT(30), <1>1, Slot
  <2>6. Advanced(o, s) \/ Retreated(o, s)
    BY Zenon, <1>1, <2>2, ContinueOK
  <2>7. ProcOK(s, temp', plans) /\ ~Holding(s) /\ s.op # "plan" /\ (Unharmed(o) => Unharmed(s))
    BY Zenon, <1>1, <2>2, <2>6, ContinuedOK
  <2>8. SoloOK(s, lock', temp', plans)
    <3>1. CASE o.op = "apply"
      <4>1. c = plans[o.plan].new[o.i] /\ Advanced(o, s) /\ RollbacksKept(temp, temp')
        BY Zenon, <1>1, <2>1, <2>5, <3>1, ContinueOK DEF WantedOf, RollbacksKept
      <4>2. Replaced(lock, lock', o.i, plans[o.plan].new[o.i])
        BY Zenon, <2>2, <2>4, <4>1 DEF Replaced
      <4> HIDE DEF o, s, c
      <4> QED BY Zenon, <1>1, <2>2, <3>1, <4>1, <4>2, SoloReplaced
    <3>2. CASE o.op = "undo"
      <4>1. /\ c = plans[o.plan].old[o.i] /\ Retreated(o, s) /\ s.unrestored = o.unrestored
            /\ RollbackGone(temp, temp', o.i)
        BY Zenon, <1>1, <2>1, <2>5, <3>2, ContinueOK DEF WantedOf, RollbackGone
      <4>2. Replaced(lock, lock', o.i, plans[o.plan].old[o.i])
        BY Zenon, <2>2, <2>4, <4>1 DEF Replaced
      <4> HIDE DEF o, s, c
      <4> QED BY Zenon, <1>1, <2>2, <3>2, <4>1, <4>2, SoloRestored
    <3> QED BY Zenon, <2>2, <3>1, <3>2
  <2>9. s \in ProcRec /\ s.solo = o.solo /\ s.op \in {"apply", "undo"}
    BY Zenon, <2>6 DEF Advanced, Retreated, Same
  <2> HIDE DEF s, c
  <2>10. \A q \in Procs : q # p => Kept(proc[q], Detach(q, o.i))
    <3> SUFFICES ASSUME NEW q \in Procs PROVE Kept(proc[q], Detach(q, o.i))
      OBVIOUS
    <3> DEFINE a == proc[q]
               b == [a EXCEPT !.step = "lost"]
    <3>1. a \in ProcRec
      BY DEF Inv
    <3>2. Kept(a, a)
      BY <3>1 DEF Kept
    <3>3. a.step = "fill" => Kept(a, b)
      BY Zenon, <3>1 DEF Kept, ProcRec, Steps
    <3> HIDE DEF a
    <3>4. Detach(q, o.i) = a \/ (a.step = "fill" /\ Detach(q, o.i) = b)
      BY DEF Detach, a
    <3> QED BY <3>2, <3>3, <3>4 DEF a
  <2>11. /\ proc' \in [Procs -> ProcRec] /\ proc'[p] = s
         /\ \A q \in Procs : q # p => Kept(proc[q], proc'[q])
    <3>1. \A q \in Procs : q # p => Detach(q, o.i) \in ProcRec
      BY ZenonT(30), <2>10 DEF Kept
    <3> HIDE DEF o
    <3> QED BY Zenon, <1>4, <2>9, <2>10, <3>1
  <2>12. /\ plans' \in Seq(PlanRec) /\ Len(plans) <= Len(plans') /\ \A k \in 1..Len(plans) : plans'[k] = plans[k]
         /\ ops' \in 0..MaxOps /\ faults' \in 0..MaxFaults /\ crashes' \in 0..MaxCrashes
    BY Z3T(30), <1>1, <1>4, <2>2 DEF Inv
  <2>13. Len(plans') <= MaxPlans
    BY Z3T(30), <1>1 DEF Inv
  <2>14. direct' \in BOOLEAN /\ overlapped' \in BOOLEAN /\ (direct => direct') /\ (~direct' => ~direct)
    BY <1>1 DEF Inv
  <2>15. \A q \in Procs : q # p /\ Holding(proc[q]) =>
             temp'[proc[q].i][SuffixOf(proc[q])] = temp[proc[q].i][SuffixOf(proc[q])]
    BY ZenonT(30), <1>1, <1>2, <2>5, OtherSlots
  <2>16. lock' \in [Members -> Contents] /\ (~direct' => lock' \in [Members -> Whole])
    <3>1. lock' \in [Members -> Contents]
      BY <2>1, <2>2, <2>4
    <3>2. ASSUME ~direct' PROVE lock' \in [Members -> Whole]
      <4>1. lock \in [Members -> Whole] /\ c \in Whole
        BY ZenonT(30), <2>1, <2>14, <3>2 DEF Inv, Intact
      <4> QED BY ZenonT(30), <2>4, <4>1
    <3> QED BY <3>1, <3>2
  <2>17. ~direct' => Unharmed(s) /\ \A k \in 1..Len(plans') : plans'[k].old \in [Members -> Whole]
    BY Zenon, <1>1, <2>2, <2>7, <2>14 DEF Inv, Intact
  <2>18. s.solo => \A q \in Procs : q # p => proc[q].op = "idle"
    BY Zenon, <2>2, <2>9 DEF Inv, Alone
  <2>19. ProcOK(s, temp', plans') /\ SoloOK(s, lock', temp', plans')
    BY Zenon, <1>1, <2>7, <2>8
  <2> QED BY ZenonT(30), <2>2, <2>5, <2>7, <2>11, <2>12, <2>13, <2>14, <2>15, <2>16, <2>17, <2>18, <2>19, Frame
<1> QED BY ZenonT(30), <1>3, <1>4 DEF RenameTemp

LEMMA StepFinish ==
    ASSUME Inv, NEW p \in Procs, Finish(p)
    PROVE  Inv'
<1>1. /\ proc[p].step \in {"ok", "err"} /\ Return(p)
      /\ UNCHANGED <<lock, temp, plans, ops, crashes, overlapped, direct, faults>>
  BY DEF Finish, Quiet
<1>2. proc[p].op # "idle"
  BY Zenon, <1>1 DEF Inv, ProcOK, StepOf
<1>3. lock' \in [Members -> Contents] /\ crashes' \in 0..MaxCrashes
  BY <1>1 DEF Inv
<1>4. ~direct => /\ lock' \in [Members -> Whole]
                 /\ \A k \in 1..Len(plans') : plans'[k].old \in [Members -> Whole]
  BY Zenon, <1>1 DEF Inv, Intact
<1> QED BY ZenonT(30), <1>1, <1>2, <1>3, <1>4, Returns

-----------------------------------------------------------------------------
(* The commands that write in place.                                        *)

LEMMA StepBuildCompiles ==
    ASSUME Inv, NEW p \in Procs, BuildCompiles(p)
    PROVE  Inv'
<1> DEFINE o == proc[p]
<1>1. /\ o.op = "build" /\ o.step = "compile"
      /\ UNCHANGED <<lock, temp, plans, ops, crashes, overlapped, direct, faults>>
  BY ZenonT(30) DEF BuildCompiles, Step, Quiet
<1>2. o \in ProcRec /\ ProcOK(o, temp, plans) /\ SoloOK(o, lock, temp, plans) /\ (~direct => Unharmed(o))
  BY Zenon DEF Inv, Intact
<1>3. o.i \in Members /\ lock[o.i] \in Contents
  BY Z3T(30), <1>1, <1>2 DEF ProcOK, Inv
<1>4. lock' \in [Members -> Contents] /\ crashes' \in 0..MaxCrashes /\ faults' \in 0..MaxFaults
  BY Z3T(30), <1>1 DEF Inv
<1>5. CASE Return(p)
  <2>1. ~direct => /\ lock' \in [Members -> Whole]
                   /\ \A k \in 1..Len(plans') : plans'[k].old \in [Members -> Whole]
    BY Zenon, <1>1 DEF Inv, Intact
  <2> QED BY ZenonT(30), <1>1, <1>4, <1>5, <2>1, Returns
<1>6. CASE /\ lock[o.i] # Torn
           /\ proc' = [proc EXCEPT ![p].graph = lock[o.i].graph, ![p].step = "read"]
  <2> DEFINE g == lock[o.i].graph
             s == [o EXCEPT !.graph = g, !.step = "read"]
  <2>1. proc' = [proc EXCEPT ![p] = s]
    BY Zenon, <1>6 DEF Inv
  <2>2. g \in Graphs
    BY <1>3, <1>6 DEF Contents, Whole
  <2> HIDE DEF g, o
  <2>3. /\ s \in ProcRec /\ s.op = "build" /\ s.step = "read" /\ s.i = o.i /\ s.solo = o.solo
        /\ s.clean = o.clean /\ s.olds = o.olds
    BY ZenonT(30), <1>1, <1>2, <2>2 DEF ProcRec, Steps
  <2> HIDE DEF s
  <2>4. ~Holding(s) /\ ProcOK(s, temp, plans) /\ (Unharmed(o) => Unharmed(s))
    BY <1>3, <2>3 DEF Holding, ProcOK, StepOf, Unharmed
  <2>5. SoloOK(s, lock, temp, plans)
    BY Zenon, <1>1, <1>2, <2>3 DEF SoloOK
  <2> QED BY Zenon, <1>1, <1>2, <1>4, <2>1, <2>3, <2>4, <2>5, Moves DEF o
<1> QED BY <1>5, <1>6 DEF BuildCompiles

LEMMA Rewrites ==
    ASSUME NEW c \in Whole, NEW g \in Graphs
    PROVE  Stamped(c, g) \in Whole /\ Repinned(c, g) \in Whole
  BY Zenon DEF Stamped, Repinned, Whole

LEMMA StepReadLock ==
    ASSUME Inv, NEW p \in Procs, ReadLock(p)
    PROVE  Inv'
<1> DEFINE o == proc[p]
<1>1. /\ o.op \in {"build", "lock"} /\ o.step = "read"
      /\ UNCHANGED <<lock, temp, plans, ops, crashes, overlapped, direct, faults>>
  BY Z3T(30) DEF ReadLock, Step, Quiet
<1>2. o \in ProcRec /\ ProcOK(o, temp, plans) /\ SoloOK(o, lock, temp, plans) /\ (~direct => Unharmed(o))
  BY ZenonT(30) DEF Inv, Intact
<1>3. o.i \in Members /\ lock[o.i] \in Contents /\ o.graph \in Graphs
  BY Zenon, <1>1, <1>2 DEF ProcOK, Inv, ProcRec
<1>4. lock' \in [Members -> Contents] /\ crashes' \in 0..MaxCrashes /\ faults' \in 0..MaxFaults
  BY <1>1 DEF Inv
<1>5. CASE Return(p)
  <2>1. ~direct => /\ lock' \in [Members -> Whole]
                   /\ \A k \in 1..Len(plans') : plans'[k].old \in [Members -> Whole]
    BY Zenon, <1>1 DEF Inv, Intact
  <2> QED BY Zenon, <1>1, <1>4, <1>5, <2>1, Returns
<1>6. CASE /\ lock[o.i] # Torn
           /\ proc' = [proc EXCEPT ![p].step = "truncate",
                          ![p].content = IF o.op = "build" THEN Stamped(lock[o.i], o.graph)
                                                           ELSE Repinned(lock[o.i], o.graph)]
  <2> DEFINE c == IF o.op = "build" THEN Stamped(lock[o.i], o.graph) ELSE Repinned(lock[o.i], o.graph)
             s == [o EXCEPT !.step = "truncate", !.content = c]
  <2>1. proc' = [proc EXCEPT ![p] = s]
    BY Zenon, <1>6 DEF Inv
  <2>2. c \in Whole
    <3>1. lock[o.i] \in Whole
      BY ZenonT(30), <1>3, <1>6 DEF Contents
    <3>2. Stamped(lock[o.i], o.graph) \in Whole /\ Repinned(lock[o.i], o.graph) \in Whole
      BY <1>3, <3>1, Rewrites
    <3> QED BY Zenon, <3>2
  <2> HIDE DEF c, o
  <2>3. /\ s \in ProcRec /\ s.op = o.op /\ s.step = "truncate" /\ s.i = o.i /\ s.solo = o.solo
        /\ s.clean = o.clean /\ s.olds = o.olds
    BY Zenon, <1>2, <2>2 DEF ProcRec, Steps
  <2> HIDE DEF s
  <2>4. ~Holding(s) /\ ProcOK(s, temp, plans) /\ (Unharmed(o) => Unharmed(s))
    BY Zenon, <1>1, <1>3, <2>3 DEF Holding, ProcOK, StepOf, Unharmed
  <2>5. SoloOK(s, lock, temp, plans)
    BY ZenonT(30), <1>1, <1>2, <2>3 DEF SoloOK
  <2>6. s.op # "plan" /\ o.op # "idle"
    BY <1>1, <2>3
  <2> QED BY Zenon, <1>1, <1>2, <1>4, <2>1, <2>3, <2>4, <2>5, <2>6, Moves DEF o
<1> QED BY Z3T(30), <1>5, <1>6 DEF ReadLock

LEMMA StepTruncate ==
    ASSUME Inv, NEW p \in Procs, Truncate(p)
    PROVE  Inv'
<1> DEFINE o == proc[p]
           s == [o EXCEPT !.step = "fill", !.i = o.i]
<1>1. /\ o.step = "truncate" /\ lock' = [lock EXCEPT ![o.i] = Torn] /\ direct' = TRUE
      /\ UNCHANGED <<temp, plans, ops, crashes, overlapped, faults>>
  BY Zenon DEF Truncate
<1>2. o \in ProcRec /\ ProcOK(o, temp, plans) /\ SoloOK(o, lock, temp, plans)
  BY Z3T(30) DEF Inv
<1>3. o.op \in {"build", "lock"} /\ o.i \in Members
  BY Zenon, <1>1, <1>2 DEF ProcOK, StepOf
<1>4. proc' = [proc EXCEPT ![p] = s]
  BY Zenon DEF Truncate, Goto, Inv
<1>5. /\ lock' \in [Members -> Contents] /\ temp' \in [Members -> [Suffixes -> Contents \cup {Absent}]]
      /\ crashes' \in 0..MaxCrashes /\ faults' \in 0..MaxFaults
  BY <1>1, <1>3, Constants DEF Inv
<1>6. s \in ProcRec /\ s.op = o.op /\ s.step = "fill" /\ s.i = o.i /\ s.solo = o.solo /\ s.clean = o.clean
  <2> HIDE DEF o
  <2> QED BY Zenon, <1>2 DEF ProcRec, Steps
<1> HIDE DEF s, o
<1>7. ~Holding(s) /\ ProcOK(s, temp', plans')
  BY Zenon, <1>1, <1>3, <1>6 DEF Holding, ProcOK, StepOf
<1>8. SoloOK(s, lock', temp', plans')
  BY Zenon, <1>1, <1>2, <1>3, <1>6 DEF SoloOK
<1>9. Undisturbed(p, s)
  BY Zenon, <1>1, <1>7 DEF Undisturbed
<1>10. direct' \in BOOLEAN /\ (direct => direct') /\ direct'
  BY Zenon, <1>1
<1>11. s.op # "plan" /\ o.op # "idle"
  BY ZenonT(30), <1>3, <1>6
<1> QED BY ZenonT(30), <1>1, <1>4, <1>5, <1>6, <1>7, <1>8, <1>9, <1>10, <1>11, OneProc DEF o

LEMMA StepFill ==
    ASSUME Inv, NEW p \in Procs, Fill(p)
    PROVE  Inv'
<1> DEFINE o == proc[p]
<1>1. /\ o.step \in {"fill", "lost"} /\ Return(p)
      /\ UNCHANGED <<temp, plans, ops, crashes, overlapped, direct, faults>>
      /\ \/ lock' = lock
         \/ lock' = [lock EXCEPT ![o.i] = o.content]
         \/ lock' = [lock EXCEPT ![o.i] = Torn]
  BY Zenon DEF Fill, Quiet
<1>2. o \in ProcRec /\ ProcOK(o, temp, plans) /\ lock \in [Members -> Contents]
  BY DEF Inv
<1>3. o.op \in {"build", "lock"} /\ o.i \in Members /\ o.content \in Contents
  BY Zenon, <1>1, <1>2, Constants DEF ProcOK, StepOf, ProcRec
<1>4. crashes' \in 0..MaxCrashes
  BY <1>1 DEF Inv
<1>5. lock' \in [Members -> Contents]
  <2> HIDE DEF o
  <2> QED BY ZenonT(30), <1>1, <1>2, <1>3, Constants
<1>6. direct
  BY <1>1 DEF Inv, Intact, Unharmed
<1> QED BY ZenonT(30), <1>1, <1>3, <1>4, <1>5, <1>6, Returns

LEMMA StepCrash ==
    ASSUME Inv, NEW p \in Procs, Crash(p)
    PROVE  Inv'
<1>1. /\ proc[p].op # "idle" /\ Return(p) /\ crashes < MaxCrashes /\ crashes' = crashes + 1
      /\ UNCHANGED <<lock, temp, plans, ops, overlapped, direct, faults>>
  BY ZenonT(30) DEF Crash
<1>2. lock' \in [Members -> Contents] /\ crashes' \in 0..MaxCrashes
  BY <1>1, Constants DEF Inv
<1>3. ~direct => /\ lock' \in [Members -> Whole]
                 /\ \A k \in 1..Len(plans') : plans'[k].old \in [Members -> Whole]
  BY ZenonT(30), <1>1 DEF Inv, Intact
<1> QED BY Zenon, <1>1, <1>2, <1>3, Returns

-----------------------------------------------------------------------------
(* The theorems.                                                            *)

LEMMA Initially ==
    ASSUME Init
    PROVE  Inv
<1>1. Initial \in Whole /\ Initial \in Contents
  BY Z3T(30), Constants DEF Initial, Whole, Graphs, Contents
<1>2. /\ lock \in [Members -> Contents] /\ lock \in [Members -> Whole]
      /\ temp \in [Members -> [Suffixes -> Contents \cup {Absent}]]
      /\ plans \in Seq(PlanRec) /\ Len(plans) = 0
      /\ ops \in 0..MaxOps /\ faults \in 0..MaxFaults /\ crashes \in 0..MaxCrashes
  BY <1>1, Constants DEF Init
<1>3. direct \in BOOLEAN /\ overlapped \in BOOLEAN
  BY ZenonT(30) DEF Init
<1>4. proc \in [Procs -> ProcRec] /\ \A p \in Procs : proc[p] = Idle
  BY IdleRec DEF Init
<1>5. \A p \in Procs : ProcOK(proc[p], temp, plans) /\ SoloOK(proc[p], lock, temp, plans)
  BY Zenon, <1>4, IdleOK
<1>6. Exclusive /\ Alone
  BY Zenon, <1>4, IdleRec DEF Exclusive, Alone, Holding
<1>7. Intact
  <2>1. <<>> \in Seq(Whole)
    OBVIOUS
  <2>2. \A p \in Procs : Unharmed(proc[p])
    BY Zenon, <1>4, <2>1, IdleRec DEF Unharmed
  <2>3. 1..Len(plans) = {}
    BY <1>2
  <2> QED BY <1>2, <2>2, <2>3 DEF Intact
<1>8. Len(plans) <= MaxPlans
  BY Z3T(30), <1>2, Constants
<1> QED BY ZenonT(30), <1>2, <1>3, <1>4, <1>5, <1>6, <1>7, <1>8 DEF Inv

LEMMA Stutters ==
    ASSUME Inv, UNCHANGED vars
    PROVE  Inv'
<1>1. UNCHANGED <<lock, temp, plans, proc, ops, faults, crashes, overlapped, direct>>
  BY DEF vars
<1>2. Exclusive' /\ Alone' /\ Intact'
  BY ZenonT(30), <1>1 DEF Inv, Exclusive, Alone, Intact
<1> QED BY <1>1, <1>2 DEF Inv

LEMMA EveryStep ==
    ASSUME Inv, Next
    PROVE  Inv'
<1>1. PICK p \in Procs : Planning(p) \/ Applying(p) \/ Writing(p) \/ Crash(p)
  BY Z3T(30) DEF Next
<1>2. CASE Planning(p)
  BY Zenon, <1>2, Starts, StepPlanReads, StepPlanParses DEF Planning
<1>3. CASE Applying(p)
  BY ZenonT(30), <1>3, Starts, StepPreflight, StepCreateTemp, StepWriteTemp, StepRenameTemp, StepFinish DEF Applying
<1>4. CASE Writing(p)
  BY Z3T(30), <1>4, Starts, StepBuildCompiles, StepReadLock, StepTruncate, StepFill DEF Writing
<1> QED BY Z3T(30), <1>1, <1>2, <1>3, <1>4, StepCrash

\* Inv holds of every reachable state: it is inductive.
THEOREM Invariant == Spec => []Inv
<1>1. Inv /\ [Next]_vars => Inv'
  BY Z3T(30), EveryStep, Stutters
<1> QED BY Initially, <1>1, PTL DEF Spec

LEMMA PlansLeft ==
    ASSUME Inv
    PROVE  Len(plans) \in Nat /\ Len(plans) <= MaxPlans
  BY DEF Inv

\* The files hold locks or fragments of them, and every counter its range.
THEOREM LockTypes == Spec => []TypeOK
<1>1. Inv => TypeOK
  <2> SUFFICES ASSUME Inv PROVE TypeOK
    BY Z3T(30)
  <2>1. /\ lock \in [Members -> Contents] /\ temp \in [Members -> [Suffixes -> Contents \cup {Absent}]]
        /\ ops \in 0..MaxOps /\ faults \in 0..MaxFaults /\ crashes \in 0..MaxCrashes
    BY Z3T(30) DEF Inv
  <2>2. /\ Len(plans) \in 0..MaxPlans
        /\ \A k \in 1..Len(plans) : plans[k].old \in [Members -> Contents] /\ plans[k].new \in [Members -> Whole]
    <3>1. \A k \in 1..Len(plans) : plans[k] \in PlanRec
      BY Z3T(30) DEF Inv
    <3> QED BY Z3T(30), <3>1, PlansLeft, Constants DEF PlanRec
  <2>3. \A p \in Procs : /\ proc[p].op \in Ops /\ proc[p].step \in Steps
                         /\ proc[p].i \in 0..N /\ proc[p].plan \in 0..MaxPlans
                         /\ proc[p].content \in Whole /\ proc[p].start \in [Members -> Contents]
    BY ZenonT(30) DEF Inv, ProcRec
  <2> QED BY Zenon, <2>1, <2>2, <2>3 DEF TypeOK
<1> QED BY <1>1, Invariant, PTL

\* Plans and applies alone never expose a lock that is not whole, however many
\* of them run, fail or are killed (atomic_replace).
THEOREM AppliesNeverTearAlways == Spec => []AppliesNeverTear
<1>1. Inv => AppliesNeverTear
  BY Z3T(30), Constants DEF Inv, Intact, AppliesNeverTear
<1> QED BY <1>1, Invariant, PTL

\* An apply that ran alone returns with every lock replaced or every lock as
\* it found them (apply_upgrade_plan).
THEOREM AppliedOrRestoredAlways == Spec => []AppliedOrRestored
<1>1. Inv => AppliedOrRestored
  <2> SUFFICES ASSUME Inv, NEW p \in Procs, proc[p].solo
               PROVE  /\ Step(p, "apply", "ok") => lock = Committed(p)
                      /\ Step(p, "undo", "err") /\ proc[p].clean /\ ~proc[p].unrestored => lock = proc[p].start
    BY Zenon DEF AppliedOrRestored
  <2>1. SoloOK(proc[p], lock, temp, plans) /\ lock \in [Members -> Contents] /\ proc[p].start \in [Members -> Contents]
    BY Zenon DEF Inv, ProcRec
  <2>2. ASSUME Step(p, "apply", "ok") PROVE lock = Committed(p)
    <3>1. \A m \in Members : lock[m] = plans[proc[p].plan].new[m]
      BY ZenonT(30), <2>1, <2>2 DEF SoloOK, Step
    <3> QED BY <2>1, <3>1 DEF Committed, Plan
  <2>3. ASSUME Step(p, "undo", "err"), proc[p].clean, ~proc[p].unrestored PROVE lock = proc[p].start
    <3>1. \A m \in Members : lock[m] = proc[p].start[m]
      BY Zenon, <2>1, <2>3 DEF SoloOK, Step
    <3> QED BY <2>1, <3>1
  <2> QED BY Zenon, <2>2, <2>3
<1> QED BY <1>1, Invariant, PTL

\* Whenever an apply that ran alone is killed, the new locks are in the first
\* members and the old ones in the rest (apply_upgrade_plan).
THEOREM CrashLeavesAPrefixAlways == Spec => []CrashLeavesAPrefix
<1>1. Inv => CrashLeavesAPrefix
  <2> SUFFICES ASSUME Inv, NEW p \in Procs, Past(p), proc[p].solo, proc[p].clean, ~proc[p].unrestored
               PROVE  \E k \in 0..N : \A m \in Members :
                          lock[m] = IF m <= k THEN Plan(p).new[m] ELSE Plan(p).old[m]
    BY Zenon DEF CrashLeavesAPrefix
  <2> DEFINE o == proc[p]
             Cut(k) == \A m \in Members : lock[m] = IF m <= k THEN Plan(p).new[m] ELSE Plan(p).old[m]
  <2>1. /\ SoloOK(o, lock, temp, plans) /\ ProcOK(o, temp, plans) /\ o.op \in {"apply", "undo"} /\ o.step # "check"
    BY DEF Inv, Past
  <2>2. o.i \in Members /\ Plan(p) = plans[o.plan]
    BY Zenon, <2>1 DEF ProcOK, Plan
  <2>3. o.solo /\ o.clean /\ ~o.unrestored
    BY Zenon
  <2>0. o.i \in 0..N /\ o.i - 1 \in 0..N /\ 0 \in 0..N /\ N \in 0..N
    BY Zenon, <2>2, Positions
  <2> HIDE DEF o
  <2>4. CASE o.op = "apply" /\ o.step = "ok"
    <3>1. \A m \in Members : m <= N
      BY Constants DEF Members
    <3>2. \A m \in Members : lock[m] = plans[o.plan].new[m]
      BY Zenon, <2>1, <2>3, <2>4 DEF SoloOK
    <3>3. \A m \in Members : lock[m] = Plan(p).new[m]
      BY Zenon, <2>2, <3>2
    <3>4. Cut(N)
      BY Zenon, <3>1, <3>3
    <3> QED BY ZenonT(30), <2>0, <3>4
  <2>5. CASE o.op = "apply" /\ o.step # "ok"
    <3>1. ApplyAlone(o)
      BY Zenon, <2>1, <2>3, <2>5 DEF ProcOK, StepOf, ApplyAlone
    <3>2. ApplyView(lock, o.start, plans[o.plan], o.i)
      BY Zenon, <2>1, <3>1, ApplyKnows
    <3>3. ApplyView(lock, o.start, Plan(p), o.i)
      BY ZenonT(30), <2>2, <3>2
    <3>4. \A m \in Members : (m < o.i) <=> (m <= o.i - 1)
      BY <2>2, Constants DEF Members
    <3>5. Cut(o.i - 1)
      BY Zenon, <3>3, <3>4 DEF ApplyView
    <3> QED BY Zenon, <2>0, <3>5
  <2>6. CASE o.op = "undo" /\ o.step = "err"
    <3>1. \A m \in Members : ~(m <= 0)
      BY Constants DEF Members
    <3>2. \A m \in Members : lock[m] = plans[o.plan].old[m]
      BY Zenon, <2>1, <2>3, <2>6 DEF SoloOK
    <3>3. \A m \in Members : lock[m] = Plan(p).old[m]
      BY Zenon, <2>2, <3>2
    <3>4. Cut(0)
      BY Zenon, <3>1, <3>3
    <3> QED BY Zenon, <2>0, <3>4
  <2>7. CASE o.op = "undo" /\ o.step # "err"
    <3>1. UndoAlone(o)
      BY Zenon, <2>3, <2>7 DEF UndoAlone
    <3>2. UndoView(lock, o.start, plans[o.plan], o.i)
      BY Zenon, <2>1, <3>1, UndoKnows
    <3>3. UndoView(lock, o.start, Plan(p), o.i)
      BY Zenon, <2>2, <3>2
    <3>4. Cut(o.i)
      BY Zenon, <3>3 DEF UndoView
    <3> QED BY Zenon, <2>0, <3>4
  <2> QED BY Zenon, <2>1, <2>4, <2>5, <2>6, <2>7
<1> QED BY <1>1, Invariant, PTL

-----------------------------------------------------------------------------
(* Commands that run one at a time.                                         *)

GoodFiles(lk, pl) ==
    /\ \A m \in Members : Good(lk[m])
    /\ \A k \in 1..Len(pl), m \in Members : Good(pl[k].old[m]) /\ Good(pl[k].new[m])

LEMMA NothingHeld == \A lk : GoodProc(Idle, lk)
<1>1. 1..Len(<<>>) = {}
  OBVIOUS
<1> QED BY Zenon, <1>1, IdleRec DEF GoodProc

\* A process that does not run holds nothing.
LEMMA IdleGood ==
    ASSUME NEW a, NEW b, NEW lk, NEW lk2, NEW tp, NEW pl, ProcOK(a, tp, pl), a.op = "idle", GoodProc(a, lk),
           b.op = "idle", b.step = a.step, b.olds = a.olds
    PROVE  GoodProc(b, lk2)
<1>1. a.step = "none"
  BY Zenon DEF ProcOK, StepOf
<1> QED BY Zenon, <1>1 DEF GoodProc

\* The step of the only command that runs.
LEMMA SerialStep ==
    ASSUME Inv, Serial, NEW p \in Procs, proc[p].op # "idle", NEW s, s \in ProcRec, proc' = [proc EXCEPT ![p] = s],
           overlapped' = overlapped, ~overlapped => GoodProc(s, lock') /\ GoodFiles(lock', plans')
    PROVE  Serial'
<1> SUFFICES ASSUME ~overlapped
             PROVE  GoodFiles(lock', plans') /\ \A q \in Procs : GoodProc(proc'[q], lock')
  BY Zenon DEF Serial, GoodFiles
<1>1. \A q \in Procs : GoodProc(proc[q], lock) /\ ProcOK(proc[q], temp, plans)
  BY Zenon DEF Serial, Inv
<1>2. \A q \in Procs : q # p => proc[q].op = "idle"
  BY ZenonT(30), <1>1 DEF GoodProc, Inv, Alone
<1>3. proc'[p] = s /\ \A q \in Procs : q # p => proc'[q] = proc[q]
  BY Z3T(30) DEF Inv
<1>4. ASSUME NEW q \in Procs PROVE GoodProc(proc'[q], lock')
  <2>1. CASE q = p
    BY Zenon, <1>3, <2>1
  <2>2. CASE q # p
    BY <1>1, <1>2, <1>3, <2>2, IdleGood
  <2> QED BY Zenon, <2>1, <2>2
<1> QED BY <1>4

LEMMA SerialReturn ==
    ASSUME Inv, Serial, NEW p \in Procs, proc[p].op # "idle", Return(p), overlapped' = overlapped,
           ~overlapped => GoodFiles(lock', plans')
    PROVE  Serial'
<1>1. proc' = [proc EXCEPT ![p] = Idle] /\ Idle \in ProcRec
  BY IdleRec DEF Return
<1>2. GoodProc(Idle, lock')
  BY Zenon, NothingHeld
<1> QED BY ZenonT(30), <1>1, <1>2, SerialStep

LEMMA SerialStart ==
    ASSUME Inv, Serial, NEW p \in Procs, NEW op, NEW step \in {"bytes", "check", "compile", "read"}, NEW i, NEW k,
           op = "build" => step # "read", Start(p, op, step, i, k)
    PROVE  Serial'
<1> DEFINE alone == Busy = {}
           tidy == \A m \in Members : temp[m][Rollback] = Absent
           s == [Idle EXCEPT !.op = op, !.step = step, !.i = i, !.plan = k, !.graph = ops + 1, !.start = lock,
                             !.solo = alone, !.clean = tidy]
<1>1. /\ overlapped' = (overlapped \/ Busy # {}) /\ UNCHANGED <<lock, plans>>
  BY Zenon DEF Start
<1> SUFFICES ASSUME ~overlapped, Busy = {}
             PROVE  GoodFiles(lock', plans') /\ \A q \in Procs : GoodProc(proc'[q], lock')
  BY ZenonT(30), <1>1 DEF Serial, GoodFiles
<1>2. GoodFiles(lock', plans')
  BY <1>1 DEF Serial, GoodFiles
<1>3. \A q \in Procs : GoodProc(proc[q], lock) /\ ProcOK(proc[q], temp, plans) /\ proc[q].op = "idle"
  BY Zenon DEF Serial, Inv, Busy
<1>4. alone
  OBVIOUS
<1>5. /\ proc'[p] = s
      /\ \A q \in Procs : q # p => proc'[q] = [proc[q] EXCEPT !.solo = proc[q].solo /\ proc[q].op = "idle"]
  BY Zenon DEF Start
<1>6. s.step = step /\ s.op = op /\ s.olds = <<>> /\ s.solo = alone
  <2> HIDE DEF alone, tidy
  <2> QED BY Zenon, IdleRec DEF Idle
<1> HIDE DEF s, alone, tidy
<1>7. GoodProc(s, lock')
  BY Z3T(30), <1>4, <1>6 DEF GoodProc
<1>8. ASSUME NEW q \in Procs, q # p PROVE GoodProc(proc'[q], lock')
  <2>1. proc[q] \in ProcRec
    BY DEF Inv
  <2>2. proc'[q].op = proc[q].op /\ proc'[q].step = proc[q].step /\ proc'[q].olds = proc[q].olds
    BY ZenonT(30), <1>5, <1>8, <2>1 DEF ProcRec
  <2>3. proc'[q].op = "idle" /\ proc[q].op = "idle" /\ GoodProc(proc[q], lock) /\ ProcOK(proc[q], temp, plans)
    BY Z3T(30), <1>3, <2>2
  <2> QED BY Zenon, <2>2, <2>3, IdleGood
<1> QED BY <1>2, <1>5, <1>7, <1>8

LEMMA SerialStarts ==
    ASSUME Inv, Serial, NEW p \in Procs, StartPlan(p) \/ StartApply(p) \/ StartBuild(p) \/ StartLock(p)
    PROVE  Serial'
<1>1. CASE StartPlan(p)
  BY <1>1, SerialStart DEF StartPlan
<1>2. CASE StartApply(p)
  BY Zenon, <1>2, SerialStart DEF StartApply
<1>3. CASE StartBuild(p)
  BY Z3T(30), <1>3, SerialStart DEF StartBuild
<1>4. CASE StartLock(p)
  BY <1>4, SerialStart DEF StartLock
<1> QED BY Z3T(30), <1>1, <1>2, <1>3, <1>4

\* What the command running alone may rely on.
LEMMA SerialFacts ==
    ASSUME Inv, Serial, NEW p \in Procs
    PROVE  /\ proc[p] \in ProcRec /\ ProcOK(proc[p], temp, plans) /\ lock \in [Members -> Contents]
           /\ plans \in Seq(PlanRec)
           /\ ~overlapped => GoodProc(proc[p], lock) /\ GoodFiles(lock, plans)
<1>1. /\ proc[p] \in ProcRec /\ ProcOK(proc[p], temp, plans) /\ lock \in [Members -> Contents]
      /\ plans \in Seq(PlanRec)
  BY ZenonT(30) DEF Inv
<1>2. ~overlapped => GoodProc(proc[p], lock) /\ GoodFiles(lock, plans)
  BY DEF Serial, GoodFiles
<1> QED BY Zenon, <1>1, <1>2

LEMMA SerialPlans ==
    ASSUME Inv, Serial, NEW p \in Procs, PlanReads(p) \/ PlanParses(p)
    PROVE  Serial'
<1> DEFINE o == proc[p]
<1>1. o.op = "plan" /\ UNCHANGED <<lock, overlapped>>
  BY DEF PlanReads, PlanParses, Step, Quiet
<1>2. /\ o \in ProcRec /\ ProcOK(o, temp, plans) /\ lock \in [Members -> Contents] /\ plans \in Seq(PlanRec)
      /\ ~overlapped => GoodProc(o, lock) /\ GoodFiles(lock, plans)
  BY SerialFacts
<1>3. o.i \in Members /\ o.olds \in Seq(Contents)
  BY Zenon, <1>1, <1>2 DEF ProcOK, ProcRec
<1>4. CASE PlanReads(p)
  <2> DEFINE c == lock[o.i]
             s == [o EXCEPT !.olds = Append(o.olds, c), !.step = "parse"]
  <2>1. proc' = [proc EXCEPT ![p] = s] /\ plans' = plans
    BY Zenon, <1>4 DEF PlanReads, Inv
  <2>2. Append(o.olds, c) \in Seq(Contents)
    BY <1>2, <1>3
  <2>3. ~overlapped => Good(c)
    BY Zenon, <1>2, <1>3 DEF GoodFiles
  <2> HIDE DEF c, o
  <2>4. /\ s \in ProcRec /\ s.op = "plan" /\ s.step = "parse" /\ s.olds = Append(o.olds, c) /\ s.solo = o.solo
    BY Zenon, <1>1, <1>2, <2>2 DEF ProcRec, Steps
  <2> HIDE DEF s
  <2>5. ~overlapped => GoodProc(s, lock')
    <3> SUFFICES ASSUME ~overlapped PROVE GoodProc(s, lock')
      OBVIOUS
    <3>1. Good(c) /\ o.solo /\ \A j \in 1..Len(o.olds) : Good(o.olds[j])
      BY ZenonT(30), <1>1, <1>2, <2>3 DEF GoodProc
    <3>2. \A j \in 1..Len(s.olds) : s.olds[j] = IF j = Len(o.olds) + 1 THEN c ELSE o.olds[j]
      BY Z3T(30), <1>3, <2>4
    <3>3. Len(s.olds) = Len(o.olds) + 1 /\ Len(o.olds) \in Nat
      BY Z3T(30), <1>3, <2>4
    <3>4. \A j \in 1..Len(s.olds) : Good(s.olds[j])
      BY <3>1, <3>2, <3>3
    <3> QED BY Zenon, <2>4, <3>1, <3>4 DEF GoodProc
  <2> QED BY Zenon, <1>1, <1>2, <2>1, <2>4, <2>5, SerialStep DEF o
<1>5. CASE PlanParses(p) /\ Return(p) /\ plans' = plans
  BY Zenon, <1>1, <1>2, <1>5, SerialReturn
<1>6. CASE /\ PlanParses(p) /\ o.i = N /\ Return(p)
           /\ plans' = Append(plans, [old |-> o.olds, new |-> [m \in Members |-> Candidate(p)]])
  <2> DEFINE r == [old |-> o.olds, new |-> [m \in Members |-> Candidate(p)]]
  <2>1. Good(Candidate(p))
    BY DEF Good, Candidate
  <2>2. o.step = "parse"
    BY Zenon, <1>6 DEF PlanParses, Step
  <2>3. Len(o.olds) = N
    BY Zenon, <1>2, <1>6, <2>2 DEF ProcOK
  <2>4. ~overlapped => \A m \in Members : Good(r.old[m]) /\ Good(r.new[m])
    BY ZenonT(30), <1>2, <2>1, <2>3 DEF GoodProc, Members
  <2>5. r \in PlanRec
    <3>1. o.olds \in [Members -> Contents]
      BY <1>3, <2>3 DEF Members
    <3>2. Candidate(p) \in Whole
      BY Zenon, <1>2 DEF Candidate, Whole, ProcRec
    <3> QED BY Z3T(30), <3>1, <3>2 DEF PlanRec
  <2> HIDE DEF r
  <2>6. plans' = Append(plans, r)
    BY ZenonT(30), <1>6 DEF r
  <2>7. \A k \in 1..Len(plans') : (k \in 1..Len(plans) /\ plans'[k] = plans[k]) \/ plans'[k] = r
    BY <1>2, <2>5, <2>6
  <2>8. ~overlapped => GoodFiles(lock', plans')
    BY Zenon, <1>1, <1>2, <2>4, <2>7 DEF GoodFiles
  <2> QED BY ZenonT(30), <1>1, <1>6, <2>8, SerialReturn
<1>7. CASE PlanParses(p) /\ Goto(p, "bytes", o.i + 1) /\ o.i < N /\ plans' = plans
  <2> DEFINE j == o.i + 1
             s == [o EXCEPT !.step = "bytes", !.i = j]
  <2>1. proc' = [proc EXCEPT ![p] = s]
    BY ZenonT(30), <1>7 DEF Goto, Inv
  <2>2. j \in 0..N
    BY Z3T(30), <1>3, <1>7, Constants DEF Members
  <2> HIDE DEF j, o
  <2>3. s \in ProcRec /\ s.op = o.op /\ s.step = "bytes" /\ s.olds = o.olds /\ s.solo = o.solo
    BY Zenon, <1>2, <2>2 DEF ProcRec, Steps
  <2> HIDE DEF s
  <2>4. ~overlapped => GoodProc(s, lock')
    BY Zenon, <1>1, <1>2, <2>3 DEF GoodProc
  <2> QED BY Zenon, <1>1, <1>2, <1>7, <2>1, <2>3, <2>4, SerialStep DEF o
<1> QED BY Zenon, <1>4, <1>5, <1>6, <1>7 DEF PlanParses

\* Within an apply.
LEMMA SerialApplies ==
    ASSUME Inv, Serial, NEW p \in Procs, proc[p].op \in {"apply", "undo"}, NEW s, proc' = [proc EXCEPT ![p] = s],
           Same(proc[p], s), s.op \in {"apply", "undo"}, s.step \in {"check", "create", "write", "rename", "ok", "err"},
           overlapped' = overlapped, plans' = plans, ~overlapped => \A m \in Members : Good(lock'[m])
    PROVE  Serial'
<1>1. s \in ProcRec /\ proc[p].op # "idle"
  BY DEF Same
<1>2. ~overlapped => GoodProc(s, lock')
  BY Zenon, <1>1, SerialFacts DEF GoodProc, Same
<1>3. ~overlapped => GoodFiles(lock', plans')
  BY Zenon, SerialFacts DEF GoodFiles
<1> QED BY Zenon, <1>1, <1>2, <1>3, SerialStep

LEMMA SerialPreflight ==
    ASSUME Inv, Serial, NEW p \in Procs, Preflight(p)
    PROVE  Serial'
<1> DEFINE o == proc[p]
<1>1. o.op = "apply" /\ UNCHANGED <<lock, plans, overlapped>>
  BY Z3T(30) DEF Preflight, Step, Quiet
<1>2. o \in ProcRec /\ ProcOK(o, temp, plans) /\ (~overlapped => GoodFiles(lock, plans))
  BY SerialFacts
<1>3. o.i \in Members
  BY Zenon, <1>1, <1>2 DEF ProcOK
<1>4. ~overlapped => GoodFiles(lock', plans') /\ \A m \in Members : Good(lock'[m])
  BY Zenon, <1>1, <1>2 DEF GoodFiles
<1>5. CASE Return(p)
  BY Zenon, <1>1, <1>4, <1>5, SerialReturn
<1>6. ASSUME NEW step \in {"check", "create"}, NEW j \in Members, Goto(p, step, j)
      PROVE  Serial'
  <2> DEFINE s == [o EXCEPT !.step = step, !.i = j]
  <2>1. proc' = [proc EXCEPT ![p] = s]
    BY Zenon, <1>6 DEF Goto, Inv
  <2>2. j \in 0..N
    BY Constants DEF Members
  <2> HIDE DEF o
  <2>3. Same(o, s) /\ s.op = o.op /\ s.step = step
    BY Zenon, <1>2, <2>2 DEF ProcRec, Same, Steps
  <2> HIDE DEF s
  <2> QED BY Zenon, <1>1, <1>4, <2>1, <2>3, SerialApplies DEF o
<1>7. (o.i < N => o.i + 1 \in Members) /\ 1 \in Members
  BY <1>3, Constants DEF Members
<1> QED BY ZenonT(30), <1>5, <1>6, <1>7 DEF Preflight

LEMMA SerialFault ==
    ASSUME Inv, Serial, NEW p \in Procs, Replaces(proc[p]), Fault(p), UNCHANGED <<lock, plans, overlapped>>
    PROVE  Serial'
<1>1. PICK s : proc' = [proc EXCEPT ![p] = s] /\ Retreated(proc[p], s)
  BY ZenonT(30), FaultOK
<1>2. /\ Same(proc[p], s) /\ s.op \in {"apply", "undo"} /\ s.step \in {"check", "create", "write", "rename", "ok", "err"}
      /\ proc[p].op \in {"apply", "undo"}
  BY <1>1 DEF Retreated, Replaces
<1>3. ~overlapped => \A m \in Members : Good(lock'[m])
  BY Zenon, SerialFacts DEF GoodFiles
<1> QED BY Zenon, <1>1, <1>2, <1>3, SerialApplies

LEMMA SerialGoto ==
    ASSUME Inv, Serial, NEW p \in Procs, Replaces(proc[p]), NEW step \in {"write", "rename"},
           Goto(p, step, proc[p].i), UNCHANGED <<lock, plans, overlapped>>
    PROVE  Serial'
<1> DEFINE o == proc[p]
           s == [o EXCEPT !.step = step, !.i = o.i]
<1>1. proc' = [proc EXCEPT ![p] = s]
  BY Zenon DEF Goto, Inv
<1>2. o \in ProcRec /\ o.op \in {"apply", "undo"}
  BY Zenon, SerialFacts DEF Replaces
<1>3. ~overlapped => \A m \in Members : Good(lock'[m])
  BY Zenon, SerialFacts DEF GoodFiles
<1> HIDE DEF o
<1>4. Same(o, s) /\ s.op = o.op /\ s.step = step
  BY Zenon, <1>2 DEF ProcRec, Same, Steps
<1> HIDE DEF s
<1> QED BY Zenon, <1>1, <1>2, <1>3, <1>4, SerialApplies DEF o

LEMMA SerialReplaces ==
    ASSUME Inv, Serial, NEW p \in Procs, CreateTemp(p) \/ WriteTemp(p)
    PROVE  Serial'
<1>1. Replaces(proc[p]) /\ UNCHANGED <<lock, plans, overlapped>>
  BY Zenon DEF CreateTemp, WriteTemp, Replacing, Replaces, Quiet
<1>2. CASE proc' = [proc EXCEPT ![p] = Continue(p, FALSE)]
  <2> DEFINE s == Continue(p, FALSE)
  <2>1. Retreated(proc[p], s)
    BY Zenon, <1>1, ContinueOK
  <2> HIDE DEF s
  <2>2. /\ Same(proc[p], s) /\ s.op \in {"apply", "undo"} /\ s.step \in {"check", "create", "write", "rename", "ok", "err"}
        /\ proc[p].op \in {"apply", "undo"}
    BY Zenon, <1>1, <2>1 DEF Retreated, Replaces
  <2>3. ~overlapped => \A m \in Members : Good(lock'[m])
    BY Zenon, <1>1, SerialFacts DEF GoodFiles
  <2>4. proc' = [proc EXCEPT ![p] = s]
    BY Z3T(30), <1>2 DEF s
  <2> QED BY Zenon, <1>1, <2>2, <2>3, <2>4, SerialApplies
<1>3. CASE Fault(p)
  BY Z3T(30), <1>1, <1>3, SerialFault
<1>4. ASSUME NEW step \in {"write", "rename"}, Goto(p, step, proc[p].i) PROVE Serial'
  BY <1>1, <1>4, SerialGoto
<1> QED BY Zenon, <1>2, <1>3, <1>4 DEF CreateTemp, WriteTemp

LEMMA SerialRename ==
    ASSUME Inv, Serial, NEW p \in Procs, RenameTemp(p)
    PROVE  Serial'
<1> DEFINE o == proc[p]
           s == Continue(p, TRUE)
           c == Wanted(p)
<1>1. Replaces(o) /\ o.step = "rename" /\ UNCHANGED <<plans, overlapped>> /\ o.op \in {"apply", "undo"}
  BY ZenonT(30) DEF RenameTemp, Replacing, Replaces, Quiet
<1>2. CASE Fault(p) /\ UNCHANGED lock
  BY Z3T(30), <1>1, <1>2, SerialFault
<1>3. CASE /\ lock' = [lock EXCEPT ![o.i] = temp[o.i][Suffix(p)]]
           /\ proc' = [q \in Procs |-> IF q = p THEN s ELSE Detach(q, o.i)]
  <2>1. /\ o \in ProcRec /\ ProcOK(o, temp, plans) /\ lock \in [Members -> Contents] /\ plans \in Seq(PlanRec)
        /\ ~overlapped => GoodProc(o, lock) /\ GoodFiles(lock, plans)
    BY SerialFacts
  <2>2. o.i \in Members /\ o.plan \in 1..Len(plans)
    BY ZenonT(30), <1>1, <2>1 DEF ProcOK
  <2>3. c = WantedOf(o, plans)
    BY <1>1, WantedFacts
  <2>4. temp[o.i][Suffix(p)] = c
    BY Zenon, <1>1, <2>1, <2>3 DEF ProcOK, SuffixOf, Suffix
  <2>5. ~overlapped => Good(c)
    BY Zenon, <1>1, <2>1, <2>2, <2>3 DEF GoodFiles, WantedOf
  <2>6. Advanced(o, s) \/ Retreated(o, s)
    BY ZenonT(30), <1>1, ContinueOK
  <2> HIDE DEF c, s
  <2>7. Same(o, s) /\ s.op \in {"apply", "undo"} /\ s.step \in {"check", "create", "write", "rename", "ok", "err"}
    BY <2>6 DEF Advanced, Retreated
  <2>8. ~overlapped => \A m \in Members : Good(lock'[m])
    BY Zenon, <1>3, <2>1, <2>2, <2>4, <2>5 DEF GoodFiles
  <2>9. ~overlapped => proc' = [proc EXCEPT ![p] = s]
    <3> SUFFICES ASSUME ~overlapped PROVE proc' = [proc EXCEPT ![p] = s]
      OBVIOUS
    <3>1. \A q \in Procs : q # p => proc[q].op = "idle" /\ proc[q].step = "none"
      BY Zenon, <1>1 DEF Serial, GoodProc, Inv, Alone, ProcOK, StepOf
    <3>2. \A q \in Procs : q # p => Detach(q, o.i) = proc[q]
      BY Z3T(30), <3>1 DEF Detach
    <3>3. proc \in [Procs -> ProcRec]
      BY Z3T(30) DEF Inv
    <3> QED BY Zenon, <1>3, <3>2, <3>3
  <2>10. CASE ~overlapped
    BY Zenon, <1>1, <2>7, <2>8, <2>9, <2>10, SerialApplies
  <2>11. CASE overlapped
    BY Zenon, <1>1, <2>11 DEF Serial
  <2> QED BY Z3T(30), <2>10, <2>11
<1> QED BY ZenonT(30), <1>2, <1>3 DEF RenameTemp

LEMMA SerialStops ==
    ASSUME Inv, Serial, NEW p \in Procs, Finish(p) \/ Crash(p)
    PROVE  Serial'
<1>1. Return(p) /\ UNCHANGED <<lock, plans, overlapped>>
  BY DEF Finish, Crash, Quiet
<1>2. proc[p].op # "idle"
  BY Zenon, SerialFacts DEF Finish, Crash, ProcOK, StepOf
<1>3. ~overlapped => GoodFiles(lock', plans')
  BY ZenonT(30), <1>1, SerialFacts
<1> QED BY Zenon, <1>1, <1>2, <1>3, SerialReturn

\* A build is stamped with the graph it read, a new pin is unstamped.
LEMMA RewritesGood ==
    ASSUME NEW c \in Whole
    PROVE  Good(Stamped(c, c.graph)) /\ \A g \in Graphs : Good(Repinned(c, g))
<1>1. Stamped(c, c.graph).built = c.graph /\ Stamped(c, c.graph).graph = c.graph
  BY DEF Stamped, Whole
<1>2. \A g \in Graphs : ~Repinned(c, g).stamped
  BY ZenonT(30) DEF Repinned, Whole
<1> QED BY <1>1, <1>2 DEF Good

LEMMA SerialReads ==
    ASSUME Inv, Serial, NEW p \in Procs, BuildCompiles(p) \/ ReadLock(p)
    PROVE  Serial'
<1> DEFINE o == proc[p]
           l == lock[o.i]
<1>1. o.op \in {"build", "lock"} /\ o.op # "idle" /\ UNCHANGED <<lock, plans, overlapped>>
  BY Z3T(30) DEF BuildCompiles, ReadLock, Step, Quiet
<1>2. /\ o \in ProcRec /\ ProcOK(o, temp, plans) /\ lock \in [Members -> Contents]
      /\ ~overlapped => GoodProc(o, lock) /\ GoodFiles(lock, plans)
  BY SerialFacts
<1>3. o.i \in Members /\ l \in Contents /\ o.graph \in Graphs
  BY ZenonT(30), <1>1, <1>2 DEF ProcOK, ProcRec
<1>4. ~overlapped => GoodFiles(lock', plans')
  BY ZenonT(30), <1>1, <1>2
<1>5. CASE Return(p)
  BY <1>1, <1>4, <1>5, SerialReturn
<1>6. CASE /\ o.op = "build" /\ l # Torn
           /\ proc' = [proc EXCEPT ![p].graph = lock[o.i].graph, ![p].step = "read"]
  <2> DEFINE g == l.graph
             s == [o EXCEPT !.graph = g, !.step = "read"]
  <2>1. proc' = [proc EXCEPT ![p] = s]
    BY Zenon, <1>6 DEF Inv
  <2>2. g \in Graphs
    BY <1>3, <1>6 DEF Contents, Whole
  <2> HIDE DEF g, o
  <2>3. s \in ProcRec /\ s.op = o.op /\ s.step = "read" /\ s.i = o.i /\ s.graph = g /\ s.olds = o.olds /\ s.solo = o.solo
    BY Zenon, <1>2, <2>2 DEF ProcRec, Steps
  <2> HIDE DEF s
  <2>4. lock'[s.i].graph = s.graph
    BY <1>1, <2>3 DEF g
  <2>5. ~overlapped => GoodProc(s, lock')
    BY Zenon, <1>1, <1>2, <2>3, <2>4 DEF GoodProc
  <2> QED BY Zenon, <1>1, <1>4, <2>1, <2>3, <2>5, SerialStep DEF o
<1>7. CASE /\ o.step = "read" /\ l # Torn
           /\ proc' = [proc EXCEPT ![p].step = "truncate",
                          ![p].content = IF o.op = "build" THEN Stamped(lock[o.i], o.graph)
                                                           ELSE Repinned(lock[o.i], o.graph)]
  <2> DEFINE c == IF o.op = "build" THEN Stamped(l, o.graph) ELSE Repinned(l, o.graph)
             s == [o EXCEPT !.step = "truncate", !.content = c]
  <2>1. proc' = [proc EXCEPT ![p] = s]
    BY Zenon, <1>7 DEF Inv
  <2>2. l \in Whole
    BY <1>3, <1>7 DEF Contents
  <2>3. c \in Whole
    BY Zenon, <1>3, <2>2, Rewrites
  <2>4. ~overlapped => Good(c)
    <3> SUFFICES ASSUME ~overlapped PROVE Good(c)
      BY Zenon
    <3>1. o.op = "build" => o.graph = l.graph
      BY Z3T(30), <1>2, <1>7 DEF GoodProc
    <3> HIDE DEF l, o
    <3>2. Good(Stamped(l, l.graph)) /\ Good(Repinned(l, o.graph))
      BY Z3T(30), <1>3, <2>2, RewritesGood
    <3> QED BY Zenon, <3>1, <3>2
  <2> HIDE DEF c, o
  <2>5. s \in ProcRec /\ s.op = o.op /\ s.step = "truncate" /\ s.content = c /\ s.olds = o.olds /\ s.solo = o.solo
    BY Zenon, <1>2, <2>3 DEF ProcRec, Steps
  <2> HIDE DEF s
  <2>6. ~overlapped => GoodProc(s, lock')
    BY Zenon, <1>1, <1>2, <2>4, <2>5 DEF GoodProc
  <2> QED BY Zenon, <1>1, <1>4, <2>1, <2>5, <2>6, SerialStep DEF o
<1> QED BY Z3T(30), <1>5, <1>6, <1>7 DEF BuildCompiles, ReadLock, Step

LEMMA SerialWrites ==
    ASSUME Inv, Serial, NEW p \in Procs, Truncate(p) \/ Fill(p)
    PROVE  Serial'
<1> DEFINE o == proc[p]
<1>1. o.step \in {"truncate", "fill", "lost"} /\ UNCHANGED <<plans, overlapped>>
  BY Zenon DEF Truncate, Fill, Quiet
<1>2. /\ o \in ProcRec /\ ProcOK(o, temp, plans) /\ lock \in [Members -> Contents]
      /\ ~overlapped => GoodProc(o, lock) /\ GoodFiles(lock, plans)
  BY SerialFacts
<1>3. o.op # "idle" /\ o.i \in Members
  BY Zenon, <1>1, <1>2 DEF ProcOK, StepOf
<1>4. Good(Torn) /\ (~overlapped /\ o.step \in {"truncate", "fill"} => Good(o.content))
  BY Zenon, <1>2 DEF Good, GoodProc
<1>5. \A c : Good(c) /\ lock' = [lock EXCEPT ![o.i] = c] => (~overlapped => GoodFiles(lock', plans'))
  BY Zenon, <1>1, <1>2 DEF GoodFiles
<1>6. CASE Truncate(p)
  <2> DEFINE s == [o EXCEPT !.step = "fill", !.i = o.i]
  <2>1. proc' = [proc EXCEPT ![p] = s]
    BY Zenon, <1>6 DEF Truncate, Goto, Inv
  <2>2. ~overlapped => GoodFiles(lock', plans')
    BY ZenonT(30), <1>4, <1>5, <1>6 DEF Truncate
  <2>3. o.step = "truncate"
    BY <1>6 DEF Truncate
  <2> HIDE DEF o
  <2>4. s \in ProcRec /\ s.op = o.op /\ s.step = "fill" /\ s.content = o.content /\ s.olds = o.olds /\ s.solo = o.solo
    BY Zenon, <1>2 DEF ProcRec, Steps
  <2> HIDE DEF s
  <2>5. ~overlapped => GoodProc(s, lock')
    BY Zenon, <1>2, <1>3, <1>4, <2>3, <2>4 DEF GoodProc
  <2> QED BY Zenon, <1>1, <1>3, <2>1, <2>2, <2>4, <2>5, SerialStep DEF o
<1>7. CASE Fill(p)
  <2>1. ~overlapped => GoodFiles(lock', plans')
    <3>1. \/ lock' = lock
          \/ o.step = "fill" /\ lock' = [lock EXCEPT ![o.i] = o.content]
          \/ lock' = [lock EXCEPT ![o.i] = Torn]
      BY Zenon, <1>7 DEF Fill
    <3>2. CASE lock' = lock
      BY Zenon, <1>1, <1>2, <3>2
    <3>3. CASE o.step = "fill" /\ lock' = [lock EXCEPT ![o.i] = o.content]
      BY Zenon, <1>4, <1>5, <3>3
    <3>4. CASE lock' = [lock EXCEPT ![o.i] = Torn]
      BY Zenon, <1>4, <1>5, <3>4
    <3> QED BY Zenon, <3>1, <3>2, <3>3, <3>4
  <2> QED BY Zenon, <1>1, <1>3, <1>7, <2>1, SerialReturn DEF Fill
<1> QED BY <1>6, <1>7

\* While commands run one at a time, a stamped build is one of the graph its
\* lock pins (refresh_lockfile_from_build,
\* refresh_lockfile_from_manifest, locked_build_info).
THEOREM StampedBuildIsOfThisGraphAlways == Spec => []StampedBuildIsOfThisGraph
<1>1. Init => Serial
  <2> SUFFICES ASSUME Init PROVE Serial
    BY Z3T(30)
  <2>1. \A m \in Members : Good(lock[m])
    BY DEF Init, Initial, Good
  <2>2. 1..Len(plans) = {}
    BY DEF Init
  <2>3. \A p \in Procs : GoodProc(proc[p], lock)
    BY Zenon, NothingHeld DEF Init
  <2> QED BY Zenon, <2>1, <2>2, <2>3 DEF Serial
<1>2. Inv /\ Serial /\ [Next]_vars => Serial'
  <2> SUFFICES ASSUME Inv, Serial, [Next]_vars PROVE Serial'
    BY ZenonT(30)
  <2>1. CASE UNCHANGED vars
    BY <2>1 DEF vars, Serial
  <2>2. CASE Next
    <3>1. PICK p \in Procs : Planning(p) \/ Applying(p) \/ Writing(p) \/ Crash(p)
      BY Zenon, <2>2 DEF Next
    <3>2. CASE Planning(p)
      BY Zenon, <3>2, SerialStarts, SerialPlans DEF Planning
    <3>3. CASE Applying(p)
      BY Zenon, <3>3, SerialStarts, SerialPreflight, SerialReplaces, SerialRename, SerialStops DEF Applying
    <3>4. CASE Writing(p)
      BY Z3T(30), <3>4, SerialStarts, SerialReads, SerialWrites DEF Writing
    <3> QED BY Zenon, <3>1, <3>2, <3>3, <3>4, SerialStops
  <2> QED BY <2>1, <2>2
<1>3. Serial => StampedBuildIsOfThisGraph
  BY Zenon DEF Serial, Good, StampedBuildIsOfThisGraph
<1> QED BY Invariant, <1>1, <1>2, <1>3, PTL DEF Spec
=============================================================================
