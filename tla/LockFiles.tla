------------------------------ MODULE LockFiles ------------------------------
(***************************************************************************)
(* The Cell.lock files of a workspace and the commands that rewrite them.  *)
(* src/package/upgrade.rs plans a dependency upgrade and applies it: every *)
(* member's lock is compared with the bytes the plan was made from, then   *)
(* replaced through a temporary file and a rename; a failed replacement    *)
(* restores the locks already replaced.  `cellc build` and `cellc lock`    *)
(* (src/cli/commands.rs) write the same files in place and know nothing of *)
(* a running apply.                                                        *)
(*                                                                         *)
(* A lock's content is abstracted to the dependency graph it pins, the     *)
(* graph its recorded build was made from, and whether that build is       *)
(* stamped with the compiler's source hash.  Torn is a file that is        *)
(* truncated, part written, or a mixture of two writers.                   *)
(***************************************************************************)
EXTENDS Integers, Sequences

CONSTANTS
    N,            \* the locks of the plan, in lock_path order
    Procs,        \* cellc processes
    Kinds,        \* the commands they run: "plan", "apply", "build", "lock"
    Torn,         \* the content of a file that is not a whole lock
    Absent,       \* no temporary file of that name
    Rollback,     \* the suffix "rollback-<index>" of a restoring replacement
    MaxOps,       \* bound: commands started
    MaxPlans,     \* bound: plans kept
    MaxFaults,    \* bound: file operations that fail
    MaxCrashes    \* bound: processes killed

ASSUME LockFilesAssumption ==
    /\ N \in Nat \ {0}
    /\ MaxOps \in Nat /\ MaxPlans \in Nat /\ MaxFaults \in Nat /\ MaxCrashes \in Nat
    /\ Rollback \notin 1..MaxPlans

Members == 1..N
Suffixes == 1..MaxPlans \cup {Rollback}
Graphs == 0..(MaxOps + 1)
Whole == [graph : Graphs, built : Graphs, stamped : BOOLEAN]

ASSUME ContentAssumption == Torn \notin Whole /\ Absent \notin Whole \cup {Torn}

VARIABLES
    lock,       \* Cell.lock of each member
    temp,       \* .Cell.lock.cellscript-update-<suffix>.tmp beside each lock
    plans,      \* the plan files: old and new content of every lock
    proc,       \* what each process is doing
    ops, faults, crashes,
    overlapped, \* history: two commands have run at the same time
    direct      \* history: a command has written a lock in place

vars == <<lock, temp, plans, proc, ops, faults, crashes, overlapped, direct>>

Initial == [graph |-> 0, built |-> 0, stamped |-> FALSE]

(* op and step are the command and the place in it, i the member it is at,   *)
(* olds and content what it has read and will write.  start, solo, clean and *)
(* unrestored are history: the locks it found, whether no other command has  *)
(* run beside it, whether no rollback file was lying about when it started,  *)
(* and whether a fault hit the restoration.                                  *)
Idle == [op |-> "idle", step |-> "none", i |-> 0, plan |-> 0, olds |-> <<>>,
         content |-> Initial, graph |-> 0, start |-> [m \in Members |-> Initial],
         solo |-> TRUE, clean |-> TRUE, unrestored |-> FALSE]

Init ==
    /\ lock = [m \in Members |-> Initial]
    /\ temp = [m \in Members |-> [s \in Suffixes |-> Absent]]
    /\ plans = <<>>
    /\ proc = [p \in Procs |-> Idle]
    /\ ops = 0 /\ faults = 0 /\ crashes = 0
    /\ overlapped = FALSE /\ direct = FALSE

Busy == {p \in Procs : proc[p].op # "idle"}
Step(p, op, step) == proc[p].op = op /\ proc[p].step = step

(***************************************************************************)
(* A command starts.  The record remembers the locks it found, whether it  *)
(* runs alone, and whether the workspace holds no abandoned rollback file; *)
(* the graph it may resolve is one no earlier command has written.         *)
(***************************************************************************)
Start(p, op, step, i, k) ==
    /\ proc[p].op = "idle"
    /\ op \in Kinds
    /\ ops < MaxOps
    /\ ops' = ops + 1
    /\ overlapped' = (overlapped \/ Busy # {})
    /\ proc' = [q \in Procs |->
                  IF q = p
                  THEN [Idle EXCEPT !.op = op, !.step = step, !.i = i, !.plan = k,
                          !.graph = ops + 1, !.start = lock, !.solo = (Busy = {}),
                          !.clean = \A m \in Members : temp[m][Rollback] = Absent]
                  ELSE [proc[q] EXCEPT !.solo = @ /\ proc[q].op = "idle"]]
    /\ UNCHANGED <<lock, temp, plans, faults, crashes, direct>>

Goto(p, step, i) == proc' = [proc EXCEPT ![p].step = step, ![p].i = i]
Return(p) == proc' = [proc EXCEPT ![p] = Idle]

Quiet == UNCHANGED <<ops, crashes, overlapped, direct>>

-----------------------------------------------------------------------------
(* create_upgrade_plan: each member's lock is read as bytes and read again   *)
(* to be parsed; the candidate is computed from the second reading.          *)

StartPlan(p) == Len(plans) < MaxPlans /\ Start(p, "plan", "bytes", 1, 0)

PlanReads(p) ==
    /\ Step(p, "plan", "bytes")
    /\ proc' = [proc EXCEPT ![p].olds = Append(@, lock[proc[p].i]), ![p].step = "parse"]
    /\ Quiet /\ UNCHANGED <<lock, temp, plans, faults>>

Candidate(p) == [graph |-> proc[p].graph, built |-> proc[p].graph, stamped |-> TRUE]

\* A plan beyond MaxPlans is made and never applied.
PlanParses(p) ==
    /\ Step(p, "plan", "parse")
    /\ \/ /\ lock[proc[p].i] = Torn
          /\ Return(p) /\ UNCHANGED plans
       \/ /\ lock[proc[p].i] # Torn /\ proc[p].i < N
          /\ Goto(p, "bytes", proc[p].i + 1) /\ UNCHANGED plans
       \/ /\ lock[proc[p].i] # Torn /\ proc[p].i = N
          /\ plans' = IF Len(plans) = MaxPlans THEN plans
                      ELSE Append(plans, [old |-> proc[p].olds, new |-> [m \in Members |-> Candidate(p)]])
          /\ Return(p)
    /\ Quiet /\ UNCHANGED <<lock, temp, faults>>

-----------------------------------------------------------------------------
(* apply_upgrade_plan *)

Plan(p) == plans[proc[p].plan]

StartApply(p) == \E k \in 1..Len(plans) : Start(p, "apply", "check", 1, k)

\* The lock still has the bytes the plan was made from.
Fresh(p, m) == lock[m] = Plan(p).old[m]

Preflight(p) ==
    /\ Step(p, "apply", "check")
    /\ LET m == proc[p].i IN
         \/ ~Fresh(p, m) /\ Return(p)
         \/ Fresh(p, m) /\ m < N /\ Goto(p, "check", m + 1)
         \/ Fresh(p, m) /\ m = N /\ Goto(p, "create", 1)
    /\ Quiet /\ UNCHANGED <<lock, temp, plans, faults>>

\* Forward, the replacement carries the plan's hash and index; restoring, it
\* carries "rollback-<index>" only.
Suffix(p) == IF proc[p].op = "apply" THEN proc[p].plan ELSE Rollback
Wanted(p) == IF proc[p].op = "apply" THEN Plan(p).new[proc[p].i] ELSE Plan(p).old[proc[p].i]

Continue_NoRestore(p, ok) ==
    IF ok /\ proc[p].i < N THEN [proc[p] EXCEPT !.step = "create", !.i = @ + 1]
    ELSE IF ok THEN [proc[p] EXCEPT !.step = "ok"]
    ELSE [proc[p] EXCEPT !.op = "undo", !.step = "err"]
Continue_FirstToLast(p, ok) ==
    LET i == proc[p].i
        next == IF proc[p].op = "apply" THEN 1 ELSE i + 1 IN
    IF proc[p].op = "apply" /\ ok
    THEN IF i < N THEN [proc[p] EXCEPT !.step = "create", !.i = i + 1]
                  ELSE [proc[p] EXCEPT !.step = "ok"]
    ELSE IF next <= N /\ lock[next] = Plan(p).new[next]
         THEN [proc[p] EXCEPT !.op = "undo", !.step = "create", !.i = next]
         ELSE [proc[p] EXCEPT !.op = "undo", !.step = "err"]

(* What follows atomic_replace: the next lock, or, when it failed, the       *)
(* restoration of the locks already replaced, last first, errors ignored.    *)
Continue(p, ok) ==
    LET i == proc[p].i IN
    IF proc[p].op = "apply" /\ ok
    THEN IF i < N THEN [proc[p] EXCEPT !.step = "create", !.i = i + 1]
                  ELSE [proc[p] EXCEPT !.step = "ok"]
    ELSE IF i > 1
         THEN [proc[p] EXCEPT !.op = "undo", !.step = "create", !.i = i - 1]
         ELSE [proc[p] EXCEPT !.op = "undo", !.step = "err"]

\* A file operation fails.
Fault(p) ==
    /\ faults < MaxFaults /\ faults' = faults + 1
    /\ proc' = [proc EXCEPT ![p] = [Continue(p, FALSE) EXCEPT !.unrestored = @ \/ proc[p].op = "undo"]]

Replacing(p, step) == proc[p].op \in {"apply", "undo"} /\ proc[p].step = step

\* Mutant of Creatable: the temporary is opened whoever has it.
Creatable_Any(p) == TRUE

\* OpenOptions::create_new: refused when the name is taken.
Creatable(p) == temp[proc[p].i][Suffix(p)] = Absent

CreateTemp(p) ==
    /\ Replacing(p, "create")
    /\ \/ /\ Creatable(p)
          /\ temp' = [temp EXCEPT ![proc[p].i][Suffix(p)] = Torn]
          /\ Goto(p, "write", proc[p].i)
          /\ UNCHANGED faults
       \/ /\ ~Creatable(p)
          /\ proc' = [proc EXCEPT ![p] = Continue(p, FALSE)]
          /\ UNCHANGED <<temp, faults>>
       \/ Fault(p) /\ UNCHANGED temp
    /\ Quiet /\ UNCHANGED <<lock, plans>>

\* write_all and sync_all; a failure removes the temporary.
WriteTemp(p) ==
    /\ Replacing(p, "write")
    /\ \/ /\ temp' = [temp EXCEPT ![proc[p].i][Suffix(p)] = Wanted(p)]
          /\ Goto(p, "rename", proc[p].i)
          /\ UNCHANGED faults
       \/ /\ Fault(p)
          /\ temp' = [temp EXCEPT ![proc[p].i][Suffix(p)] = Absent]
    /\ Quiet /\ UNCHANGED <<lock, plans>>

\* A rename moves the temporary over the lock.  A process that has the old
\* file open goes on writing to a file nobody can see.
Detach(q, m) ==
    IF proc[q].step = "fill" /\ proc[q].i = m THEN [proc[q] EXCEPT !.step = "lost"] ELSE proc[q]

RenameTemp(p) ==
    /\ Replacing(p, "rename")
    /\ LET m == proc[p].i IN
       \/ /\ lock' = [lock EXCEPT ![m] = temp[m][Suffix(p)]]
          /\ proc' = [q \in Procs |-> IF q = p THEN Continue(p, TRUE) ELSE Detach(q, m)]
          /\ UNCHANGED faults
       \/ Fault(p) /\ UNCHANGED lock
    /\ temp' = [temp EXCEPT ![proc[p].i][Suffix(p)] = Absent]
    /\ Quiet /\ UNCHANGED plans

Finish(p) ==
    /\ proc[p].step \in {"ok", "err"}
    /\ Return(p)
    /\ Quiet /\ UNCHANGED <<lock, temp, plans, faults>>

-----------------------------------------------------------------------------
(* `cellc build` compiles against the lock, then reads the lock, stamps the  *)
(* build into it and writes it; `cellc lock` replaces the graph and keeps    *)
(* the recorded build, unstamped.  Both end in std::fs::write.               *)

StartBuild(p) == \E m \in Members : Start(p, "build", "compile", m, 0)

BuildCompiles(p) ==
    /\ Step(p, "build", "compile")
    /\ \/ lock[proc[p].i] = Torn /\ Return(p)
       \/ /\ lock[proc[p].i] # Torn
          /\ proc' = [proc EXCEPT ![p].graph = lock[proc[p].i].graph, ![p].step = "read"]
    /\ Quiet /\ UNCHANGED <<lock, temp, plans, faults>>

StartLock(p) == \E m \in Members : Start(p, "lock", "read", m, 0)

\* Mutant of Repinned: the stamp of the build before is kept.
Repinned_KeepsStamp(c, g) == [c EXCEPT !.graph = g]

\* The content a command writes from the lock it read.
Stamped(c, g) == [c EXCEPT !.built = g, !.stamped = TRUE]
Repinned(c, g) == [c EXCEPT !.graph = g, !.stamped = FALSE]

ReadLock(p) ==
    /\ Step(p, "build", "read") \/ Step(p, "lock", "read")
    /\ LET c == lock[proc[p].i] IN
         \/ c = Torn /\ Return(p)
         \/ /\ c # Torn
            /\ proc' = [proc EXCEPT ![p].step = "truncate",
                          ![p].content = IF proc[p].op = "build" THEN Stamped(c, proc[p].graph)
                                                              ELSE Repinned(c, proc[p].graph)]
    /\ Quiet /\ UNCHANGED <<lock, temp, plans, faults>>

Truncate(p) ==
    /\ proc[p].step = "truncate"
    /\ lock' = [lock EXCEPT ![proc[p].i] = Torn]
    /\ Goto(p, "fill", proc[p].i)
    /\ direct' = TRUE
    /\ UNCHANGED <<temp, plans, ops, faults, crashes, overlapped>>

\* Writing over what another writer put there since leaves either content or
\* a mixture.
Fill(p) ==
    /\ proc[p].step \in {"fill", "lost"}
    /\ LET m == proc[p].i IN
         \/ proc[p].step = "lost" /\ UNCHANGED lock
         \/ proc[p].step = "fill" /\ lock' = [lock EXCEPT ![m] = proc[p].content]
         \/ /\ proc[p].step = "fill" /\ lock[m] # Torn
            /\ lock' = [lock EXCEPT ![m] = Torn]
    /\ Return(p)
    /\ Quiet /\ UNCHANGED <<temp, plans, faults>>

-----------------------------------------------------------------------------
\* The process is killed: what it wrote stays, its temporary included.
Crash(p) ==
    /\ proc[p].op # "idle"
    /\ crashes < MaxCrashes
    /\ crashes' = crashes + 1
    /\ Return(p)
    /\ UNCHANGED <<lock, temp, plans, ops, faults, overlapped, direct>>

Planning(p) == StartPlan(p) \/ PlanReads(p) \/ PlanParses(p)
Applying(p) == StartApply(p) \/ Preflight(p) \/ CreateTemp(p) \/ WriteTemp(p) \/ RenameTemp(p) \/ Finish(p)
Writing(p) == StartBuild(p) \/ BuildCompiles(p) \/ StartLock(p) \/ ReadLock(p) \/ Truncate(p) \/ Fill(p)

Next == \E p \in Procs : Planning(p) \/ Applying(p) \/ Writing(p) \/ Crash(p)

Spec == Init /\ [][Next]_vars

-----------------------------------------------------------------------------
Contents == Whole \cup {Torn}
Ops == {"idle", "plan", "apply", "undo", "build", "lock"}
Steps == {"none", "bytes", "parse", "check", "create", "write", "rename", "ok", "err",
          "compile", "read", "truncate", "fill", "lost"}

\* The files hold locks or fragments of them, and every counter its range.
TypeOK ==
    /\ lock \in [Members -> Contents]
    /\ temp \in [Members -> [Suffixes -> Contents \cup {Absent}]]
    /\ Len(plans) \in 0..MaxPlans
    /\ \A k \in 1..Len(plans) : plans[k].old \in [Members -> Contents] /\ plans[k].new \in [Members -> Whole]
    /\ \A p \in Procs :
         /\ proc[p].op \in Ops /\ proc[p].step \in Steps
         /\ proc[p].i \in 0..N /\ proc[p].plan \in 0..MaxPlans
         /\ proc[p].content \in Whole /\ proc[p].start \in [Members -> Contents]
    /\ ops \in 0..MaxOps /\ faults \in 0..MaxFaults /\ crashes \in 0..MaxCrashes

\* Plans and applies alone never expose a lock that is not whole, whatever
\* fails, is killed or runs at the same time: a temporary has one writer, and
\* only a finished one is renamed.
AppliesNeverTear == ~direct => \A m \in Members : lock[m] # Torn

Committed(p) == [m \in Members |-> Plan(p).new[m]]

\* An apply nothing ran beside returns with every lock replaced, or with every
\* lock as it was found -- unless a fault hit the restoration, or an earlier
\* one was killed in the middle and its rollback file is still there.
AppliedOrRestored ==
    \A p \in Procs : proc[p].solo =>
        /\ Step(p, "apply", "ok") => lock = Committed(p)
        /\ Step(p, "undo", "err") /\ proc[p].clean /\ ~proc[p].unrestored => lock = proc[p].start

Past(p) == proc[p].op \in {"apply", "undo"} /\ proc[p].step # "check"

\* Replacing first to last and restoring last to first, such an apply leaves at
\* every moment it may be killed the new lock in the first members and the old
\* one in the rest.
CrashLeavesAPrefix ==
    \A p \in Procs : Past(p) /\ proc[p].solo /\ proc[p].clean /\ ~proc[p].unrestored =>
        \E k \in 0..N : \A m \in Members :
            lock[m] = IF m <= k THEN Plan(p).new[m] ELSE Plan(p).old[m]

\* While commands run one at a time, a build stamped into a lock is a build of
\* the graph that lock pins: planning, repinning and building keep the two
\* together although each rewrites only its part of the file.
StampedBuildIsOfThisGraph ==
    ~overlapped =>
        \A m \in Members : lock[m] # Torn /\ lock[m].stamped => lock[m].built = lock[m].graph

\* "If a later replacement fails during the operation, already replaced locks
\* are restored from the exact old bytes": with no fault in the restoration
\* itself, an apply that fails has put every lock back.  A temporary left by
\* an earlier crash makes the restoration itself fail: it does not hold.
FailureRestores ==
    \A p \in Procs : Step(p, "undo", "err") /\ proc[p].solo /\ ~proc[p].unrestored => lock = proc[p].start
=============================================================================
