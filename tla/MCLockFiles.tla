----------------------------- MODULE MCLockFiles -----------------------------
(***************************************************************************)
(* LockFiles for TLC.  Two processes are interchangeable.                  *)
(***************************************************************************)
EXTENDS LockFiles, TLC

Symmetry == Permutations(Procs)
=============================================================================
