--------------------------- MODULE LinearOwnership ---------------------------
(***************************************************************************)
(* The linear-ownership part of the type checker (src/types/mod.rs): how a *)
(* TypeEnv follows cell-backed values through the statements of an action  *)
(* or function, and which bodies it accepts.                               *)
(*                                                                         *)
(* One step is one statement: the checker's recursion over nested blocks   *)
(* is a stack with a frame for every block it is inside of, and the body   *)
(* is whatever sequence of statements the steps choose.  A statement that  *)
(* the checker refuses has no step.  Conditions, types, fields and every   *)
(* check that is not about ownership are left out.                         *)
(*                                                                         *)
(* Beside the checker's state each frame has the executions that reach it, *)
(* so that what the checker believes can be compared with what happens on  *)
(* every path.                                                             *)
(***************************************************************************)
EXTENDS Integers, Sequences, FiniteSets, Functions

CONSTANTS
    Names,        \* names of cell-backed values
    Affine,       \* those bound to collection owners, which may be dropped
    Callables,    \* [rt, params]: the kind of return type and the parameters;
                  \* bounds on the body: [names, blocks, stmts], the names, the
                  \* kinds of blocks and the number of statements in it
    None          \* no value

Kinds == {"body", "then", "else", "while", "borrow", "block", "arm"}

ASSUME LinearAssumption ==
    /\ Affine \subseteq Names
    /\ \A c \in Callables :
         /\ c.rt \in {"none", "plain", "linear"}
         /\ c.params \subseteq c.names /\ c.names \subseteq Names
         /\ c.blocks \subseteq Kinds /\ c.stmts \in Nat
    /\ None \notin Names

States == {"Available", "Consumed", "Destroyed"}

VARIABLES
    callable,   \* the action or function whose body is checked
    stack,      \* the blocks that are open, the body first
    size,       \* statements so far
    accepted    \* was the body accepted?

vars == <<callable, stack, size, accepted>>

(* A frame has                                                               *)
(*   kind     the statement it is a block of                                 *)
(*   st       the TypeEnv chain: the states of the names in scope            *)
(*   own      the names of this scope                                        *)
(*   marked   st, as mark_stmt_as_returned leaves it                         *)
(*   returns  stmts_always_return of the statements so far                   *)
(*   stops    does one of them always terminate the sequence?                *)
(*   value    is the last one a value of the return type?                    *)
(*   after    may, must or cannot another statement follow?                  *)
(*   tail     how an if-else that ends the block is treated: as a value, as  *)
(*            a returned statement too, or like any other statement          *)
(*   strict   is the block looked at by check_no_unreachable_stmts?          *)
(*   inLoop   is loop_labels nonempty?                                       *)
(*   held     the roots of active_borrows                                    *)
(*   done     the finished blocks of the same statement                      *)
(* and, of the executions,                                                   *)
(*   entry    st at the start of the innermost loop, or of the body          *)
(*   runs     the paths from there to here, from whatever states.            *)
(*                                                                           *)
(* A path has the states of the names before and now (from, st); end tells   *)
(* whether it goes on, jumped, or returned, and if so where the checker      *)
(* looks ("tail") or not; bad, whether an operation met a value that was     *)
(* gone or borrowed; strayed, whether a jump took it out of a branch that    *)
(* the checker thinks always returns; lost, how values went out of scope     *)
(* while available.                                                          *)

Jumps == {"break", "continue"}

Top == stack[Len(stack)]
Below == stack[Len(stack) - 1]

-----------------------------------------------------------------------------
(* Executions *)

Begin(s) == [from |-> s, st |-> s, end |-> "on", bad |-> FALSE, strayed |-> FALSE, lost |-> {}]

Going(f) == {p \in f.runs : p.end = "on"}
Ended(f) == f.runs \ Going(f)

Live(st) == {n \in DOMAIN st : st[n] = "Available" /\ n \notin Affine}

\* The roots that are borrowed where the execution is.
Lent == {stack[i].root : i \in {j \in DOMAIN stack : stack[j].kind = "borrow"}}

Bind(st, n) == [m \in DOMAIN st \cup {n} |-> IF m = n THEN "Available" ELSE st[m]]

Use(p, r, as) ==
    [p EXCEPT !.st[r] = as, !.bad = @ \/ p.st[r] # "Available" \/ r \in Lent]

\* A path in block c leaves it for f.
Leave(f, c, p) ==
    LET dropped == p.end # "return" /\ p.end # "tail" /\ Live(p.st) \ DOMAIN f.st # {}
        how == IF p.end # "on" THEN "jump" ELSE IF c.kind \in {"then", "else"} THEN "branch" ELSE "end"
    IN  [p EXCEPT !.st = Restrict(@, DOMAIN f.st),
                  !.lost = IF dropped THEN @ \cup {how} ELSE @]

Left(f, c) == {Leave(f, c, p) : p \in c.runs}

\* The jumps out of a branch whose state the merge leaves aside.
Stray(runs, aside) ==
    IF aside THEN {[p EXCEPT !.strayed = @ \/ p.end \in Jumps] : p \in runs} ELSE runs

\* Path o, and then r.
Joined(o, r) ==
    [o EXCEPT !.st = r.st, !.end = r.end, !.bad = @ \/ r.bad,
              !.strayed = @ \/ r.strayed, !.lost = @ \cup r.lost]

\* One round of a loop after each of these paths.
Round(paths, body) ==
    UNION {{Joined(o, r) : r \in {q \in body : q.from = o.st}} : o \in paths}

Again(paths) == {[o EXCEPT !.end = "on"] : o \in {q \in paths : q.end \in {"on", "continue"}}}
Out(o) == [o EXCEPT !.end = IF @ \in Jumps THEN "on" ELSE @]

\* No round, one, or two: a third meets what the second met.
Looped(f, body) ==
    LET once == Round(Going(f), body)
    IN  f.runs \cup {Out(o) : o \in once \cup Round(Again(once), body)}

-----------------------------------------------------------------------------
(* TypeEnv *)

(* set_linear_state and reject_active_borrow_root_lifecycle *)
Usable(f, r) == r \in DOMAIN f.st /\ r \notin f.held /\ f.st[r] = "Available"

(* check_linear_complete looks at the names of the innermost scope only. *)
LinearComplete(own, st) == \A n \in own : st[n] = "Available" => n \in Affine

\* Mutant of MergedState: the returning branch's state is taken.
MergedState_Returning(n, before, then, thenReturns, hasElse, else, elseReturns) ==
    CASE thenReturns /\ ~hasElse /\ n \in Affine -> before
      [] thenReturns /\ elseReturns /\ then = else -> then
      [] thenReturns /\ hasElse /\ ~elseReturns -> then
      [] ~thenReturns /\ hasElse /\ elseReturns -> else
      [] ~thenReturns /\ hasElse /\ ~elseReturns /\ then = else -> then
      [] ~thenReturns /\ ~hasElse /\ then = before -> before
      [] OTHER -> None

(* The state of a name after an if; None where the branches do not agree. *)
MergedState(n, before, then, thenReturns, hasElse, else, elseReturns) ==
    CASE thenReturns /\ ~hasElse /\ n \in Affine -> before
      [] thenReturns /\ elseReturns /\ then = else -> then
      [] thenReturns /\ hasElse /\ ~elseReturns -> else
      [] ~thenReturns /\ hasElse /\ elseReturns -> then
      [] ~thenReturns /\ hasElse /\ ~elseReturns /\ then = else -> then
      [] ~thenReturns /\ ~hasElse /\ then = before -> before
      [] OTHER -> None

(* merge_branch_linear_states; without an else branch e is f itself. *)
MergeBranches(f, t, thenReturns, hasElse, e, elseReturns) ==
    [n \in DOMAIN f.st |-> MergedState(n, f.st[n], t.st[n], thenReturns, hasElse, e.st[n], elseReturns)]

Agreed(st) == \A n \in DOMAIN st : st[n] # None

\* Mutant of SameAfterLoop: a loop may change what lies outside of it.
SameAfterLoop_Any(f, c) == TRUE

(* reject_loop_linear_state_changes *)
SameAfterLoop(f, c) == \A n \in DOMAIN f.st : c.st[n] = f.st[n]

-----------------------------------------------------------------------------
(* Walking the statements *)

\* check_no_unreachable_stmts, and the guess that an if-else was the last.
MayFollow(f) == f.after # "nothing" /\ (f.strict => ~f.returns /\ ~f.stops)
MayEnd(f) == f.after # "something"

\* A statement was checked that leaves the block's names in these states.
Checked(f, st, runs) ==
    [f EXCEPT !.st = st, !.marked = st, !.runs = runs, !.value = FALSE, !.after = "any"]

\* env.child()
Child(f, kind, tail) ==
    [kind |-> kind, root |-> None, st |-> f.st, own |-> {}, marked |-> f.st,
     returns |-> FALSE, stops |-> FALSE, value |-> FALSE, after |-> "any", tail |-> tail,
     strict |-> f.strict, inLoop |-> f.inLoop, held |-> f.held, done |-> <<>>,
     entry |-> f.entry, runs |-> Going(f)]

\* What is kept of a block that another block of the same statement follows.
Finished(c) ==
    [kind |-> c.kind, st |-> c.st, own |-> c.own, marked |-> c.marked, returns |-> c.returns,
     stops |-> c.stops, value |-> c.value, runs |-> c.runs]

\* The statement is one more, in the block on top.
Simple(f) ==
    /\ size < callable.stmts
    /\ size' = size + 1
    /\ stack' = [stack EXCEPT ![Len(stack)] = f]
    /\ UNCHANGED <<callable, accepted>>

\* A statement with blocks begins; the first block is c.
Enter(c) ==
    /\ ~accepted /\ MayFollow(Top)
    /\ size < callable.stmts /\ c.kind \in callable.blocks
    /\ size' = size + 1
    /\ stack' = Append(stack, c)
    /\ UNCHANGED <<callable, accepted>>

\* The next block of the same statement.
Sibling(c) ==
    /\ stack' = [stack EXCEPT ![Len(stack)] = c]
    /\ UNCHANGED <<callable, accepted>>

\* The last block of a statement ends, and the block around it goes on as f.
Exit(f) ==
    /\ stack' = [i \in 1..(Len(stack) - 1) |-> IF i = Len(stack) - 1 THEN f ELSE stack[i]]
    /\ UNCHANGED <<callable, size, accepted>>

In(kind) == Len(stack) > 1 /\ Top.kind = kind /\ MayEnd(Top)

\* bind_callable_params
Init ==
    /\ callable \in Callables
    /\ stack = LET s == [n \in callable.params |-> "Available"]
               IN  << [kind |-> "body", root |-> None, st |-> s, own |-> callable.params, marked |-> s,
                       returns |-> FALSE, stops |-> FALSE, value |-> FALSE, after |-> "any",
                       tail |-> IF callable.rt = "none" THEN "no" ELSE "mark",
                       strict |-> TRUE, inLoop |-> FALSE, held |-> {}, done |-> <<>>,
                       entry |-> s, runs |-> {Begin(s)}] >>
    /\ size = 0
    /\ accepted = FALSE

(* let n = create T {..}, or a collection's constructor: bind_new *)
Create(n) ==
    LET runs == {[p EXCEPT !.st = Bind(@, n)] : p \in Going(Top)}
    IN  /\ ~accepted /\ MayFollow(Top)
        /\ n \notin DOMAIN Top.st
        /\ Simple([Checked(Top, Bind(Top.st, n), Ended(Top) \cup runs) EXCEPT !.own = @ \cup {n}])

(* let n = r: mark_expr_as_moved and bind_pattern *)
Move(r, n) ==
    LET runs == {[Use(p, r, "Consumed") EXCEPT !.st = Bind(@, n)] : p \in Going(Top)}
    IN  /\ ~accepted /\ MayFollow(Top)
        /\ Usable(Top, r) /\ n \notin DOMAIN Top.st
        /\ (r \in Affine) = (n \in Affine)
        /\ Simple([Checked(Top, Bind([Top.st EXCEPT ![r] = "Consumed"], n), Ended(Top) \cup runs)
                     EXCEPT !.own = @ \cup {n}])

(* consume, claim and settle, or handing it to a call (Consumed), destroy    *)
(* and drop: an expression, of a plain type.                                 *)
Op(r, as) ==
    LET runs == {Use(p, r, as) : p \in Going(Top)}
    IN  /\ ~accepted /\ MayFollow(Top)
        /\ Usable(Top, r)
        /\ Simple([Checked(Top, [Top.st EXCEPT ![r] = as], Ended(Top) \cup runs)
                     EXCEPT !.value = callable.rt = "plain"])

\* Does a return here end the body at a place the checker looks at?
AtTail == Len(stack) = 1 \/ Top.tail = "mark"

Returned(p) ==
    LET left == IF AtTail THEN Live(p.st) \ DOMAIN stack[1].st ELSE Live(p.st)
    IN  [p EXCEPT !.end = IF AtTail THEN "tail" ELSE "return",
                  !.lost = IF left = {} THEN @ ELSE @ \cup {IF AtTail THEN "branch" ELSE "jump"}]

(* return, with a cell-backed value where the return type is one. *)
Return(r) ==
    LET runs == {Returned(IF r = None THEN p ELSE Use(p, r, "Consumed")) : p \in Going(Top)}
        st == IF r = None THEN Top.st ELSE [Top.st EXCEPT ![r] = "Consumed"]
    IN  /\ ~accepted /\ MayFollow(Top)
        /\ IF callable.rt = "linear" THEN r \in Names \ Affine /\ Usable(Top, r) ELSE r = None
        /\ Simple([Checked(Top, st, Ended(Top) \cup runs) EXCEPT !.returns = TRUE, !.stops = TRUE])

(* check_loop_control *)
Jump(kind) ==
    LET runs == {[p EXCEPT !.end = kind] : p \in Going(Top)}
    IN  /\ ~accepted /\ MayFollow(Top)
        /\ Top.inLoop
        /\ Simple([Checked(Top, Top.st, Ended(Top) \cup runs) EXCEPT !.stops = TRUE])

-----------------------------------------------------------------------------
(* if.  An if-else that ends a block with a value or, under a return type,   *)
(* the body is treated differently from the others: last is the choice that  *)
(* it does.                                                                  *)

If(last) ==
    /\ last => Top.tail # "no"
    /\ Enter(Child(Top, "then", IF last THEN Top.tail ELSE "no"))

\* Without an else branch it is a statement like any other.
EndIf ==
    LET t == Top  f == Below
        st == MergeBranches(f, t, t.returns, FALSE, f, FALSE)
    IN  /\ In("then") /\ t.tail = "no"
        /\ Agreed(st)
        /\ Exit(Checked(f, st, f.runs \cup Stray(Left(f, t), t.returns)))

Else ==
    /\ In("then")
    /\ Sibling([Child(Below, "else", Top.tail) EXCEPT !.done = <<Finished(Top)>>])
    /\ UNCHANGED size

\* Mutant of MarkedAlike: the branches of a final if are not compared again.
MarkedAlike_Not(f, t, e) == TRUE

(* mark_stmt_as_returned and branch_env_with_tail_return: under a return     *)
(* type the branches of the body's last if are held to the same states once  *)
(* more, whichever of them return.                                           *)
MarkedAlike(f, t, e) == \A n \in DOMAIN f.st : t.marked[n] = e.marked[n]

(* infer_tail_if_stmt_value: the branches are complete and fall through.     *)
(* The plain values they end in are taken to be of one type.                 *)
ValueBranches(t, e) == LinearComplete(t.own, t.st) /\ LinearComplete(e.own, e.st)

EndIfElse ==
    LET t == Top.done[1]  e == Top  f == Below
        fall == e.tail = "value"
        thenReturns == ~fall /\ t.returns
        elseReturns == ~fall /\ e.returns
        st == MergeBranches(f, t, thenReturns, TRUE, e, elseReturns)
        runs == Stray(Left(f, t), thenReturns /\ ~elseReturns)
                \cup Stray(Left(f, e), elseReturns /\ ~thenReturns)
    IN  /\ In("else")
        /\ Agreed(st)
        /\ e.tail = "value" => ValueBranches(t, e)
        /\ e.tail = "mark" => MarkedAlike(f, t, e)
        /\ Exit([Checked(f, st, Ended(f) \cup runs) EXCEPT
                   !.marked = IF e.tail = "mark" THEN Restrict(t.marked, DOMAIN f.st) ELSE st,
                   !.returns = @ \/ (t.returns /\ e.returns),
                   !.stops = @ \/ (t.stops /\ e.stops),
                   !.value = (thenReturns \/ t.value) /\ (elseReturns \/ e.value),
                   !.after = IF e.tail # "no" THEN "nothing" ELSE IF f.tail # "no" THEN "something" ELSE "any"])

-----------------------------------------------------------------------------
(* Loops, borrows, blocks and matches *)

While ==
    Enter([Child(Top, "while", "no") EXCEPT
             !.inLoop = TRUE, !.entry = Top.st, !.runs = {Begin(s) : s \in [DOMAIN Top.st -> States]}])

EndWhile ==
    LET c == Top  f == Below
    IN  /\ In("while")
        /\ LinearComplete(c.own, c.st) /\ SameAfterLoop(f, c)
        /\ Exit(Checked(f, f.st, Looped(f, Left(f, c))))

(* check_borrow_stmt *)
Borrow(r) ==
    /\ r \in DOMAIN Top.st /\ Top.st[r] = "Available"
    /\ Enter([Child(Top, "borrow", "no") EXCEPT !.root = r, !.held = @ \cup {r}])

(* A block with a scope of its own ends: check_linear_complete and           *)
(* merge_existing_linear_states_from.                                        *)
Close(f, c) ==
    /\ LinearComplete(c.own, c.st)
    /\ Exit([Checked(f, Restrict(c.st, DOMAIN f.st), Ended(f) \cup Left(f, c)) EXCEPT
               !.returns = @ \/ c.returns, !.stops = @ \/ c.stops,
               !.value = c.kind = "block" /\ c.value])

EndBorrow == In("borrow") /\ Close(Below, Top)

(* Expr::Block *)
Block == Enter(Child(Top, "block", "value"))
EndBlock == In("block") /\ Close(Below, Top)

(* Expr::Match; check_no_unreachable_nested does not look into its arms.     *)
Match == Enter([Child(Top, "arm", "value") EXCEPT !.strict = FALSE])

NextArm ==
    /\ In("arm") /\ LinearComplete(Top.own, Top.st)
    /\ size < callable.stmts
    /\ size' = size + 1
    /\ Sibling([Child(Below, "arm", "value") EXCEPT !.strict = FALSE, !.done = Append(Top.done, Finished(Top))])

(* merge_match_linear_states *)
EndMatch ==
    LET c == Top  f == Below
        arms == {Finished(c)} \cup Range(c.done)
    IN  /\ In("arm") /\ LinearComplete(c.own, c.st)
        /\ \A a \in arms : \A n \in DOMAIN f.st : a.st[n] = c.st[n]
        /\ Exit([Checked(f, Restrict(c.st, DOMAIN f.st), Ended(f) \cup UNION {Left(f, a) : a \in arms}) EXCEPT
                   !.value = \A a \in arms : a.value])

-----------------------------------------------------------------------------
(* check_action and check_function at the end of the body:                   *)
(* check_body_returns_or_tail_expr, mark_stmt_as_returned and                *)
(* check_linear_complete.                                                    *)
Accept ==
    /\ ~accepted /\ Len(stack) = 1 /\ MayEnd(Top)
    /\ callable.rt # "none" => Top.returns \/ Top.value
    /\ LinearComplete(Top.own, Top.marked)
    /\ accepted' = TRUE
    /\ UNCHANGED <<callable, stack, size>>

Next ==
    \/ \E n \in callable.names : Create(n) \/ \E r \in callable.names : Move(r, n)
    \/ \E r \in callable.names : Borrow(r) \/ \E as \in {"Consumed", "Destroyed"} : Op(r, as)
    \/ \E r \in callable.names \cup {None} : Return(r)
    \/ \E kind \in Jumps : Jump(kind)
    \/ \E last \in BOOLEAN : If(last)
    \/ Else \/ EndIf \/ EndIfElse
    \/ While \/ EndWhile
    \/ EndBorrow
    \/ Block \/ EndBlock
    \/ Match \/ NextArm \/ EndMatch
    \/ Accept

Spec == Init /\ [][Next]_vars

-----------------------------------------------------------------------------
(* Properties *)

(* No path through statements the checker accepted uses a value that is gone *)
(* or moves one that is borrowed (set_linear_state, the merges of branches,  *)
(* arms and loops, reject_active_borrow_root_lifecycle), unless it jumped    *)
(* out of a branch that also returns.                                        *)
NoUseAfterMove == \A p \in stack[1].runs : p.bad => p.strayed

(* Every other path that runs on is in the one ownership state the checker   *)
(* has for that point, whichever branches, arms and rounds it took: nothing  *)
(* depends on the path (merge_branch_linear_states,                          *)
(* merge_match_linear_states, reject_loop_linear_state_changes).             *)
StateIsPathIndependent ==
    \A p \in Going(stack[1]) : ~p.strayed => p.st = stack[1].st

(* No path of an accepted body loses a value at the end of the body, of a    *)
(* block, a loop, a borrow or an arm, nor at a return that ends the body     *)
(* (check_linear_complete, mark_stmt_as_returned).                           *)
ScopesAreComplete ==
    accepted => \A p \in stack[1].runs :
                    "end" \notin p.lost /\ (p.end \in {"on", "tail"} => Live(p.st) = {})

(* "Silent end-of-scope loss is rejected": no path of an accepted body loses *)
(* a value anywhere.  It does not hold: see Leave and Returned.              *)
NothingIsLost ==
    accepted => \A p \in stack[1].runs :
                    p.lost = {} /\ (p.end \in {"on", "tail"} => Live(p.st) = {})
=============================================================================
