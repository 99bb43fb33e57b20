-------------------------- MODULE MCSignedCommand --------------------------
(* Instances of SignedCommand for model checking.                          *)
EXTENDS SignedCommand, TLC

CONSTANTS c1, c2, k1, a1, n1, q1, q2, q3, q4

(* c1 is delivered twice under a client's key and once under its automatic *)
(* key; c2 is another command signed with the same nonce, sent under the   *)
(* same client's key.                                                      *)
UpdateCmdOf == q1 :> c1 @@ q2 :> c1 @@ q3 :> c2 @@ q4 :> c1
UpdateKeyOf == q1 :> k1 @@ q2 :> a1 @@ q3 :> k1 @@ q4 :> k1

(* The publish c1 is delivered without a key and twice under one; c2 is    *)
(* another command, sent under the same key.                               *)
PublishCmdOf == q1 :> c1 @@ q2 :> c1 @@ q3 :> c2 @@ q4 :> c1
PublishKeyOf == q1 :> None @@ q2 :> k1 @@ q3 :> k1 @@ q4 :> k1

OneNonce == [c \in Commands |-> n1]

(* Three of the publish deliveries meet: either the one without a key or   *)
(* the second under the key was turned away when it was received.          *)
TurnedAway(q) ==
  /\ idem = [k \in Keys |-> NoRow]
  /\ nonce = [n \in Nonces |-> None]
  /\ executed = [c \in Commands |-> {}]
  /\ expired = {}
  /\ pc = [p \in Requests |-> IF p = q THEN "done" ELSE "idle"]
  /\ answer = [p \in Requests |-> IF p = q THEN "error" ELSE "none"]
  /\ source = [p \in Requests |-> None]

ThreeMeet == (TurnedAway(q1) \/ TurnedAway(q4)) /\ [][Next]_vars /\ Fairness
============================================================================
