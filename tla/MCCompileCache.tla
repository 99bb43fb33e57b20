---------------------------- MODULE MCCompileCache ----------------------------
(***************************************************************************)
(* CompileCache for TLC: two processes and two texts.  A cache of one and  *)
(* of two entries under overlapping builds, an edit and a fault, and a     *)
(* cache of two entries under a longer sequence of builds and edits.       *)
(***************************************************************************)
EXTENDS CompileCache, TLC

Lane(l, o, b, e, f) == [limit |-> l, overlap |-> o, builds |-> b, edits |-> e, faults |-> f]

MCLanes == {Lane(1, TRUE, 3, 0, 1), Lane(2, TRUE, 3, 1, 0), Lane(2, FALSE, 5, 3, 0)}

Symmetry == Permutations(Procs) \cup Permutations(Texts)
=============================================================================
