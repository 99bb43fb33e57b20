----------------------- MODULE MCVerificationQueue -----------------------
(* Instances of VerificationQueue for model checking.                      *)
EXTENDS VerificationLedger

CONSTANTS r1, r2, s1, w1, w2

(* The keys of writeSnapshot: they name the release, so no two releases    *)
(* can share a snapshot row.                                               *)
ApiKeys == Releases \X Snapshots
ApiObjectKey == [p \in ApiKeys |-> p]

(* The store's own contract allows any key: releases may share one.        *)
SharedObjectKey == [p \in Releases \X Snapshots |-> p[2]]
==========================================================================
