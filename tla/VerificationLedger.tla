------------------------- MODULE VerificationLedger -------------------------
(* The pipeline as an implementation of the ledger: the verdict is the      *)
(* release's verification_status, the source is kept while its snapshot row *)
(* is visible.                                                              *)
EXTENDS VerificationQueue

SourceState ==
  [r \in Releases |-> IF vstatus[r] = "none" THEN "none"
                      ELSE IF snapRow[snapOf[r]] = "visible" THEN "kept" ELSE "gone"]

Ledger == INSTANCE ReleaseLedger WITH verdict <- vstatus, source <- SourceState

(* Every step of the queue, of its workers, of a purge and of an            *)
(* administrator is a step of the ledger or invisible to it: evidence is    *)
(* accepted only for a source that is kept, and a source is given up only   *)
(* when every release it belongs to is rejected.                            *)
ImplementsLedger == Ledger!Spec
=============================================================================
