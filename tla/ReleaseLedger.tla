--------------------------- MODULE ReleaseLedger ---------------------------
(***************************************************************************)
(* What the Registry promises about a release and its source, without      *)
(* queues, leases, tombstones or shared snapshots: a release is admitted   *)
(* with its source, it may be accepted while the source is kept, and the   *)
(* source is given up only for releases that are rejected.                 *)
(***************************************************************************)
CONSTANT Releases

VARIABLES verdict, source

ledger == <<verdict, source>>

Init ==
  /\ verdict = [r \in Releases |-> "none"]
  /\ source = [r \in Releases |-> "none"]

Admit(r) ==
  /\ verdict[r] = "none"
  /\ verdict' = [verdict EXCEPT ![r] = "pending"]
  /\ source' = [source EXCEPT ![r] = "kept"]

Accept(r) ==
  /\ source[r] = "kept"
  /\ verdict' = [verdict EXCEPT ![r] = "accepted"]
  /\ UNCHANGED source

Reject(r) ==
  /\ verdict[r] \in {"pending", "rejected"}
  /\ verdict' = [verdict EXCEPT ![r] = "rejected"]
  /\ UNCHANGED source

(* The rejection of r gives up the source of r and of some releases that   *)
(* were rejected before it.                                                *)
Discard(r) ==
  /\ verdict[r] \in {"pending", "rejected"}
  /\ verdict' = [verdict EXCEPT ![r] = "rejected"]
  /\ \E S \in SUBSET Releases :
       /\ r \in S
       /\ \A o \in S : verdict'[o] = "rejected"
       /\ source' = [o \in Releases |-> IF o \in S THEN "gone" ELSE source[o]]

Next == \E r \in Releases : Admit(r) \/ Accept(r) \/ Reject(r) \/ Discard(r)

Spec == Init /\ [][Next]_ledger
=============================================================================
