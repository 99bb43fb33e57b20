-------------------------- MODULE MCLinearOwnership --------------------------
(* LinearOwnership for TLC: bodies over two resources, or a resource and a   *)
(* collection owner, with every kind of block; and longer ones over a single *)
(* resource with ifs and loops, where jumps, returns and rounds meet.        *)
EXTENDS LinearOwnership

CONSTANTS x, y, w

MCNames == {x, y, w}
MCAffine == {w}

All == {"then", "while", "borrow", "block", "arm"}

MCCallables ==
    {[rt |-> rt, params |-> {x}, names |-> {x, y}, blocks |-> All, stmts |-> 5] : rt \in {"none", "plain", "linear"}}
    \cup {[rt |-> "none", params |-> {}, names |-> {w, y}, blocks |-> All, stmts |-> 5],
          [rt |-> "none", params |-> {x}, names |-> {x}, blocks |-> {"then", "while"}, stmts |-> 7]}
=============================================================================
