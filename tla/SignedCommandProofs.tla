------------------------ MODULE SignedCommandProofs ------------------------
(***************************************************************************)
(* Proofs about SignedCommand.  Keys tell the truth whatever breaks; a     *)
(* command takes effect once when requests do not outlive their payload    *)
(* and no acknowledgement is lost.                                         *)
(***************************************************************************)
EXTENDS SignedCommand, TLAPS

(* A handler that is about to respond has committed.                        *)
RespondersCommitted ==
  \A q \in Requests : pc[q] = "respond" => q \in executed[CmdOf[q]]

TypeInv == TypeOK /\ \A q \in Requests : pc[q] = "inspect" => KeyOf[q] # None

(* What holds across every fault.                                           *)
KeyInv ==
  TypeInv /\ CompletedMeansDone /\ RespondersCommitted /\ AnswersAreTrue /\ DoneMeansReplayable

(* Requests do not outlive their payload.                                   *)
ActiveUnexpired == \A q \in Requests : Active(q) => CmdOf[q] \notin expired

(* From its consumption to the end of the request the nonce is the          *)
(* handler's own, and after a commit it stays so until the command expires. *)
NonceHeld ==
  /\ \A q \in Requests :
       pc[q] \in {"work", "commit", "respond", "undoNonce"} => nonce[NonceOf[CmdOf[q]]] = q
  /\ \A c \in Commands : \A q \in executed[c] :
       /\ CmdOf[q] = c
       /\ pc[q] \in {"respond", "done"}
       /\ c \notin expired => nonce[NonceOf[c]] = q

OnceInv == TypeInv /\ ActiveUnexpired /\ NonceHeld /\ AtMostOnce

USE CommandAssumption

LEMMA RowTypes ==
  /\ \A c \in Commands : [cmd |-> c, status |-> "processing", resp |-> None] \in Row
  /\ \A c \in Commands, q \in Requests : [cmd |-> c, status |-> "completed", resp |-> q] \in Row
  /\ \A row \in Row \cup {NoRow} : row.status = "completed" => row.resp \in Requests /\ row.cmd \in Commands
BY DEF Row, NoRow

(* Every step keeps the types.                                              *)
LEMMA TypeStep == TypeInv /\ [Next]_vars => TypeInv'
<1> SUFFICES ASSUME TypeInv, [Next]_vars PROVE TypeInv'
  OBVIOUS
<1> USE DEF TypeInv, TypeOK, PC
<1>1. ASSUME NEW q \in Requests, Receive(q) PROVE TypeInv'
  BY Z3T(30), <1>1 DEF Receive, Goto, Answer
<1>2. ASSUME NEW q \in Requests, Lookup(q) PROVE TypeInv'
  BY Z3T(30), <1>2, RowTypes DEF Lookup, Goto, Answer, Replay, SameRequest
<1>2a. ASSUME NEW q \in Requests, FindRelease(q) PROVE TypeInv'
  BY Z3T(30), <1>2a DEF FindRelease, Goto, Answer
<1>3. ASSUME NEW q \in Requests, Reserve(q) PROVE TypeInv'
  <2>1. idem' \in [Keys -> Row \cup {NoRow}]
    BY <1>3, RowTypes DEF Reserve
  <2>2. QED
    BY Z3T(30), <1>3, <2>1 DEF Reserve, Goto, Answer
<1>4. ASSUME NEW q \in Requests, Inspect(q) PROVE TypeInv'
  BY Z3T(30), <1>4, RowTypes DEF Inspect, Answer, Replay, SameRequest
<1>5. ASSUME NEW q \in Requests, ConsumeNonce(q) PROVE TypeInv'
  BY <1>5 DEF ConsumeNonce, Goto
<1>6. ASSUME NEW q \in Requests, Work(q) PROVE TypeInv'
  BY <1>6 DEF Work, Goto
<1>7. ASSUME NEW q \in Requests, Commit(q) PROVE TypeInv'
  <2>1. idem' \in [Keys -> Row \cup {NoRow}]
    BY <1>7, RowTypes DEF Commit, CompleteKey
  <2>2. executed' \in [Commands -> SUBSET Requests]
    BY <1>7 DEF Commit, Execute
  <2>3. QED
    BY <1>7, <2>1, <2>2 DEF Commit, Goto
<1>8. ASSUME NEW q \in Requests, Respond(q) PROVE TypeInv'
  BY <1>8 DEF Respond, Answer
<1>9. ASSUME NEW q \in Requests, ReleaseNonce(q) PROVE TypeInv'
  BY Z3T(30), <1>9 DEF ReleaseNonce, Goto, Answer
<1>10. ASSUME NEW q \in Requests, ReleaseKey(q) PROVE TypeInv'
  BY <1>10, Zenon DEF ReleaseKey, Answer
<1>11. ASSUME NEW q \in Requests, Crash(q) PROVE TypeInv'
  BY <1>11, Zenon DEF Crash, Answer
<1>12. ASSUME NEW c \in Commands, Expire(c) PROVE TypeInv'
  BY <1>12, Zenon DEF Expire
<1>13. CASE CleanupExpiredState
  BY <1>13, Zenon DEF CleanupExpiredState
<1>14. CASE UNCHANGED vars
  BY <1>14, Zenon DEF vars
<1>15. QED
  BY <1>1, <1>2, <1>2a, <1>3, <1>4, <1>5, <1>6, <1>7, <1>8, <1>9, <1>10, <1>11, <1>12, <1>13, <1>14, Zenon
  DEF Next, Step

LEMMA KeyInit == Init => KeyInv
BY DEF Init, KeyInv, TypeInv, TypeOK, PC, NoRow, CompletedMeansDone, RespondersCommitted,
       AnswersAreTrue, DoneMeansReplayable

(* A step that commits nothing and completes or removes no key.             *)
LEMMA KeyQuiet ==
  ASSUME KeyInv, TypeInv', executed' = executed, expired \subseteq expired',
         NEW q \in Requests,
         \A k \in Keys : idem'[k] = idem[k] \/ (idem[k].status # "completed" /\ idem'[k].status # "completed"),
         \A p \in Requests \ {q} : pc'[p] = pc[p] /\ answer'[p] = answer[p] /\ source'[p] = source[p],
         pc'[q] # "respond" \/ pc'[q] = pc[q],
         \/ answer'[q] \notin {"ok", "replayed"}
         \/ answer'[q] = answer[q] /\ source'[q] = source[q]
         \/ source'[q] \in executed[CmdOf[q]]
  PROVE  KeyInv'
<1> USE DEF KeyInv, TypeInv, TypeOK
<1>1. CompletedMeansDone'
  BY Zenon DEF CompletedMeansDone
<1>2. RespondersCommitted'
  BY DEF RespondersCommitted
<1>3. AnswersAreTrue'
  BY Zenon DEF AnswersAreTrue
<1>4. DoneMeansReplayable'
  BY DEF DoneMeansReplayable
<1>5. QED
  BY <1>1, <1>2, <1>3, <1>4, Zenon

(* Only a commit, the replay of a completed key, a response and the cleanup *)
(* touch what the keys promise.                                             *)
LEMMA KeyStep == KeyInv /\ [Next]_vars => KeyInv'
<1> SUFFICES ASSUME KeyInv, [Next]_vars PROVE KeyInv'
  OBVIOUS
<1>0. TypeInv /\ TypeInv'
  BY TypeStep, Zenon DEF KeyInv
<1> USE DEF TypeInv, TypeOK
<1>1. ASSUME NEW q \in Requests, Receive(q) PROVE KeyInv'
  BY Z3T(30), <1>0, <1>1, KeyQuiet DEF Receive, Goto, Answer
<1>2. ASSUME NEW q \in Requests, Lookup(q) PROVE KeyInv'
  BY <1>0, <1>2, KeyQuiet DEF Lookup, Goto, Answer, Replay, SameRequest, KeyInv, CompletedMeansDone
<1>2a. ASSUME NEW q \in Requests, FindRelease(q) PROVE KeyInv'
  BY Z3T(30), <1>0, <1>2a, KeyQuiet DEF FindRelease, Goto, Answer
<1>3. ASSUME NEW q \in Requests, Reserve(q) PROVE KeyInv'
  BY Z3T(30), <1>0, <1>3, KeyQuiet DEF Reserve, Goto, Answer, NoRow
<1>4. ASSUME NEW q \in Requests, Inspect(q) PROVE KeyInv'
  BY Z3T(30), <1>0, <1>4, KeyQuiet DEF Inspect, Answer, Replay, SameRequest, KeyInv, CompletedMeansDone
<1>5. ASSUME NEW q \in Requests, ConsumeNonce(q) PROVE KeyInv'
  BY <1>0, <1>5, KeyQuiet DEF ConsumeNonce, Goto
<1>6. ASSUME NEW q \in Requests, Work(q) PROVE KeyInv'
  BY <1>0, <1>6, KeyQuiet DEF Work, Goto
<1>7. ASSUME NEW q \in Requests, Commit(q) PROVE KeyInv'
  <2>1. CASE ~MayCommit(q)
    BY <1>0, <1>7, <2>1, KeyQuiet DEF Commit, Goto
  <2>2. CASE MayCommit(q)
    <3>1. /\ executed' = [executed EXCEPT ![CmdOf[q]] = @ \cup {q}]
          /\ \A k \in Keys : idem'[k] = IF k = KeyOf[q]
                                        THEN [cmd |-> CmdOf[q], status |-> "completed", resp |-> q]
                                        ELSE idem[k]
          /\ expired' = expired
          /\ answer' = answer /\ source' = source
          /\ pc' = [pc EXCEPT ![q] = "respond"] \/ pc' = [pc EXCEPT ![q] = "undoNonce"]
      BY <1>7, <2>2, Zenon DEF Commit, Goto, CompleteKey, Execute
    <3>2. KeyOf[q] # None => idem[KeyOf[q]].status = "processing"
      BY <2>2 DEF MayCommit
    <3>3. \A c \in Commands : executed[c] \subseteq executed'[c] /\ executed'[c] \subseteq executed[c] \cup {q}
      BY <1>0, <3>1
    <3>4. q \in executed'[CmdOf[q]] /\ \A c \in Commands \ {CmdOf[q]} : executed'[c] = executed[c]
      BY <1>0, <3>1
    <3>5. CompletedMeansDone'
      BY Z3T(30), <1>0, <3>1, <3>3, <3>4, RowTypes DEF KeyInv, CompletedMeansDone
    <3>6. RespondersCommitted'
      BY <1>0, <3>1, <3>3, <3>4 DEF KeyInv, RespondersCommitted
    <3>7. AnswersAreTrue'
      BY <1>0, <3>1, <3>3, Zenon DEF KeyInv, AnswersAreTrue
    <3>8. DoneMeansReplayable'
      <4> SUFFICES ASSUME NEW p \in Requests, p \in executed'[CmdOf[p]], KeyOf[p] # None,
                          CmdOf[p] \notin expired'
                   PROVE  idem'[KeyOf[p]] = [cmd |-> CmdOf[p], status |-> "completed", resp |-> p]
        BY Zenon DEF DoneMeansReplayable
      <4>1. CASE p = q
        BY <3>1, <4>1, Zenon
      <4>2. CASE p # q
        <5>1. idem[KeyOf[p]] = [cmd |-> CmdOf[p], status |-> "completed", resp |-> p]
          BY <3>1, <3>3, <4>2 DEF KeyInv, DoneMeansReplayable
        <5>2. KeyOf[p] # KeyOf[q]
          BY Z3T(30), <3>2, <5>1
        <5>3. QED
          BY <3>1, <5>1, <5>2
      <4>3. QED
        BY <4>1, <4>2, Zenon
    <3>9. QED
      BY <1>0, <3>5, <3>6, <3>7, <3>8, Zenon DEF KeyInv
  <2>3. QED
    BY <2>1, <2>2, Zenon
<1>8. ASSUME NEW q \in Requests, Respond(q) PROVE KeyInv'
  BY Z3T(30), <1>0, <1>8, KeyQuiet DEF Respond, Answer, KeyInv, RespondersCommitted
<1>9. ASSUME NEW q \in Requests, ReleaseNonce(q) PROVE KeyInv'
  BY Z3T(30), <1>0, <1>9, KeyQuiet DEF ReleaseNonce, Goto, Answer
<1>10. ASSUME NEW q \in Requests, ReleaseKey(q) PROVE KeyInv'
  BY Z3T(30), <1>0, <1>10, KeyQuiet DEF ReleaseKey, Releasable, Answer, NoRow
<1>11. ASSUME NEW q \in Requests, Crash(q) PROVE KeyInv'
  BY <1>0, <1>11, KeyQuiet DEF Crash, Answer
<1>12. ASSUME NEW c \in Commands, Expire(c) PROVE KeyInv'
  BY <1>0, <1>12, Zenon DEF Expire, KeyInv, CompletedMeansDone, RespondersCommitted, AnswersAreTrue,
                     DoneMeansReplayable
<1>13. CASE CleanupExpiredState
  <2>1. CompletedMeansDone' /\ RespondersCommitted' /\ AnswersAreTrue'
    BY <1>0, <1>13, Zenon DEF CleanupExpiredState, KeyInv, CompletedMeansDone, RespondersCommitted,
                       AnswersAreTrue, NoRow
  <2>2. DoneMeansReplayable'
    BY <1>0, <1>13 DEF CleanupExpiredState, Stale, KeyInv, DoneMeansReplayable
  <2>3. QED
    BY <1>0, <2>1, <2>2, Zenon DEF KeyInv
<1>14. CASE UNCHANGED vars
  BY <1>0, <1>14, Zenon DEF vars, KeyInv, CompletedMeansDone, RespondersCommitted, AnswersAreTrue,
                     DoneMeansReplayable
<1>15. QED
  BY <1>1, <1>2, <1>2a, <1>3, <1>4, <1>5, <1>6, <1>7, <1>8, <1>9, <1>10, <1>11, <1>12, <1>13, <1>14, Zenon
  DEF Next, Step

(* Every state of every behaviour is well typed.                            *)
THEOREM CommandTypes == Spec => []TypeOK
<1>1. Init => TypeInv
  BY KeyInit, Zenon DEF KeyInv
<1>2. TypeInv => TypeOK
  BY Zenon DEF TypeInv
<1>3. QED
  BY <1>1, <1>2, TypeStep, PTL DEF Spec

(* Whatever crashes, breaks or is retried: a completed key stores the       *)
(* response of a request that took effect.                                  *)
THEOREM CompletedMeansDoneAlways == Spec => []CompletedMeansDone
<1>1. KeyInv => CompletedMeansDone
  BY Zenon DEF KeyInv
<1>2. QED
  BY <1>1, KeyInit, KeyStep, PTL DEF Spec

(* A success or a replayed success that a client sees stands for a          *)
(* committed effect of the command it sent.                                 *)
THEOREM AnswersAreTrueAlways == Spec => []AnswersAreTrue
<1>1. KeyInv => AnswersAreTrue
  BY Zenon DEF KeyInv
<1>2. QED
  BY <1>1, KeyInit, KeyStep, PTL DEF Spec

(* Until it expires, an effect under a key is replayed to whoever asks      *)
(* under that key, even when its own handler saw an error.                  *)
THEOREM DoneMeansReplayableAlways == Spec => []DoneMeansReplayable
<1>1. KeyInv => DoneMeansReplayable
  BY Zenon DEF KeyInv
<1>2. QED
  BY <1>1, KeyInit, KeyStep, PTL DEF Spec

(* Only a commit changes what took effect, and a publish commits only when  *)
(* its release is not there yet.                                            *)
LEMMA PublishStep == TypeInv /\ PublishOnce /\ [Next]_vars => PublishOnce'
<1> SUFFICES ASSUME TypeInv, PublishOnce, [Next]_vars PROVE PublishOnce'
  OBVIOUS
<1>1. ASSUME NEW q \in Requests, Commit(q) PROVE PublishOnce'
  <2> DEFINE c == CmdOf[q]
  <2>1. CASE executed' = executed
    BY <2>1, Zenon DEF PublishOnce
  <2>2. CASE MayCommit(q) /\ Execute(q)
    <3>1. c \in Publishes => executed'[c] = {q}
      BY <2>2, Zenon DEF MayCommit, Execute, TypeInv, TypeOK
    <3>2. \A d \in Commands \ {c} : executed'[d] = executed[d]
      BY <2>2, Zenon DEF Execute, TypeInv, TypeOK
    <3>3. QED
      BY <3>1, <3>2 DEF PublishOnce
  <2>3. QED
    BY <1>1, <2>1, <2>2, Zenon DEF Commit
<1>2. ASSUME executed' = executed PROVE PublishOnce'
  BY <1>2, Zenon DEF PublishOnce
<1>3. (\E q \in Requests : Commit(q)) \/ executed' = executed
  BY Zenon DEF Next, Step, vars, Receive, Lookup, FindRelease, Reserve, Inspect, ConsumeNonce, Work, Respond,
         ReleaseNonce, ReleaseKey, Crash, Expire, CleanupExpiredState
<1>4. QED
  BY <1>1, <1>2, <1>3, Zenon

(* A publish takes effect at most once, for late requests and lost          *)
(* acknowledgements too: admitPackageVersion inserts the release once.      *)
THEOREM PublishOnceAlways == Spec => []PublishOnce
<1>1. Init => TypeInv /\ PublishOnce
  <2>1. Init => TypeInv
    BY KeyInit, Zenon DEF KeyInv
  <2>2. Init => PublishOnce
    BY Zenon DEF Init, PublishOnce
  <2>3. QED
    BY <2>1, <2>2, Zenon
<1>2. QED
  BY <1>1, TypeStep, PublishStep, PTL DEF Spec

-----------------------------------------------------------------------------
(* At most once, when requests do not outlive their payload and every       *)
(* acknowledgement arrives.                                                 *)

Reliable == Prompt /\ ~Unreliable

LEMMA OnceInit == Init => OnceInv
<1>1. Init => TypeInv
  BY KeyInit, Zenon DEF KeyInv
<1>2. QED
  BY <1>1, Zenon DEF Init, OnceInv, ActiveUnexpired, Active, NonceHeld, AtMostOnce

(* A step of one request that keeps the nonces of the others.               *)
LEMMA OnceQuiet ==
  ASSUME OnceInv, TypeInv', executed' = executed, expired' = expired, NEW q \in Requests,
         \A p \in Requests \ {q} : pc'[p] = pc[p],
         pc[q] = "idle" => CmdOf[q] \notin expired,
         pc[q] # "done",
         pc[q] = "respond" => pc'[q] = "done",
         pc'[q] \in {"work", "commit", "respond", "undoNonce"} =>
           nonce'[NonceOf[CmdOf[q]]] = q,
         \A n \in Nonces : nonce'[n] = nonce[n] \/ nonce[n] = None
  PROVE  OnceInv'
<1> USE DEF OnceInv, TypeInv, TypeOK
<1>1. ActiveUnexpired'
  BY Zenon DEF ActiveUnexpired, Active
<1>2. NonceHeld'
  <2>1. ASSUME NEW p \in Requests, pc'[p] \in {"work", "commit", "respond", "undoNonce"}
        PROVE  nonce'[NonceOf[CmdOf[p]]] = p
    BY <2>1 DEF NonceHeld
  <2>2. ASSUME NEW c \in Commands, NEW p \in executed'[c]
        PROVE  CmdOf[p] = c /\ pc'[p] \in {"respond", "done"} /\ (c \notin expired' => nonce'[NonceOf[c]] = p)
    BY <2>2 DEF NonceHeld
  <2>3. QED
    BY <2>1, <2>2 DEF NonceHeld
<1>3. AtMostOnce'
  BY DEF AtMostOnce
<1>4. QED
  BY <1>1, <1>2, <1>3, Zenon

LEMMA OnceStep ==
  ASSUME Reliable
  PROVE  OnceInv /\ [Next]_vars => OnceInv'
<1> SUFFICES ASSUME OnceInv, [Next]_vars PROVE OnceInv'
  OBVIOUS
<1>0. TypeInv /\ TypeInv'
  BY TypeStep, Zenon DEF OnceInv
<1> USE DEF TypeInv, TypeOK, Reliable
<1>1. ASSUME NEW q \in Requests, Receive(q) PROVE OnceInv'
  BY Z3T(30), <1>0, <1>1, OnceQuiet DEF Receive, Goto, Answer
<1>2. ASSUME NEW q \in Requests, Lookup(q) PROVE OnceInv'
  BY Z3T(30), <1>0, <1>2, OnceQuiet DEF Lookup, Goto, Answer, Replay
<1>2a. ASSUME NEW q \in Requests, FindRelease(q) PROVE OnceInv'
  BY Z3T(30), <1>0, <1>2a, OnceQuiet DEF FindRelease, Goto, Answer
<1>3. ASSUME NEW q \in Requests, Reserve(q) PROVE OnceInv'
  BY Z3T(30), <1>0, <1>3, OnceQuiet DEF Reserve, Goto, Answer
<1>4. ASSUME NEW q \in Requests, Inspect(q) PROVE OnceInv'
  BY Z3T(30), <1>0, <1>4, OnceQuiet DEF Inspect, Answer, Replay
<1>5. ASSUME NEW q \in Requests, ConsumeNonce(q) PROVE OnceInv'
  BY Z3T(30), <1>0, <1>5, OnceQuiet DEF ConsumeNonce, Goto
<1>6. ASSUME NEW q \in Requests, Work(q) PROVE OnceInv'
  <2>1. nonce[NonceOf[CmdOf[q]]] = q
    BY <1>6, Zenon DEF Work, OnceInv, NonceHeld
  <2>2. QED
    BY <1>0, <1>6, <2>1, OnceQuiet DEF Work, Goto
<1>7. ASSUME NEW q \in Requests, Commit(q) PROVE OnceInv'
  <2>1. nonce[NonceOf[CmdOf[q]]] = q /\ CmdOf[q] \notin expired
    BY <1>7, Zenon DEF Commit, OnceInv, NonceHeld, ActiveUnexpired, Active
  <2>2. CASE ~MayCommit(q)
    BY <1>0, <1>7, <2>1, <2>2, OnceQuiet DEF Commit, Goto
  <2>3. CASE MayCommit(q)
    <3>1. /\ executed' = [executed EXCEPT ![CmdOf[q]] = @ \cup {q}]
          /\ expired' = expired /\ nonce' = nonce
          /\ pc' = [pc EXCEPT ![q] = "respond"]
      BY <1>7, <2>3, Zenon DEF Commit, Goto, Execute
    <3>2. executed[CmdOf[q]] = {}
      <4> SUFFICES ASSUME NEW p \in executed[CmdOf[q]] PROVE FALSE
        OBVIOUS
      <4>1. p = q /\ pc[p] \in {"respond", "done"}
        BY <2>1 DEF OnceInv, NonceHeld
      <4>2. QED
        BY <1>7, <4>1, Zenon DEF Commit
    <3>3. executed'[CmdOf[q]] = {q} /\ \A c \in Commands \ {CmdOf[q]} : executed'[c] = executed[c]
      BY Z3T(30), <1>0, <3>1, <3>2
    <3>4. ActiveUnexpired'
      BY <1>0, <2>1, <3>1 DEF OnceInv, ActiveUnexpired, Active
    <3>5. AtMostOnce'
      BY <3>3 DEF OnceInv, AtMostOnce
    <3>6. NonceHeld'
      <4>1. ASSUME NEW p \in Requests, pc'[p] \in {"work", "commit", "respond", "undoNonce"}
            PROVE  nonce'[NonceOf[CmdOf[p]]] = p
        BY Z3T(30), <1>0, <2>1, <3>1, <4>1 DEF OnceInv, NonceHeld
      <4>2. ASSUME NEW c \in Commands, NEW p \in executed'[c]
            PROVE  CmdOf[p] = c /\ pc'[p] \in {"respond", "done"}
                   /\ (c \notin expired' => nonce'[NonceOf[c]] = p)
        BY <1>0, <2>1, <3>1, <3>3, <4>2 DEF OnceInv, NonceHeld
      <4>3. QED
        BY <4>1, <4>2, Zenon DEF NonceHeld
    <3>7. QED
      BY <1>0, <3>4, <3>5, <3>6, Zenon DEF OnceInv
  <2>4. QED
    BY <2>2, <2>3, Zenon
<1>8. ASSUME NEW q \in Requests, Respond(q) PROVE OnceInv'
  BY ZenonT(30), <1>0, <1>8, OnceQuiet DEF Respond, Answer
<1>9. ASSUME NEW q \in Requests, ReleaseNonce(q) PROVE OnceInv'
  <2>1. /\ nonce[NonceOf[CmdOf[q]]] = q
        /\ nonce' = [nonce EXCEPT ![NonceOf[CmdOf[q]]] = None]
        /\ pc' = [pc EXCEPT ![q] = "undoKey"]
        /\ executed' = executed /\ expired' = expired
        /\ pc[q] = "undoNonce"
    BY <1>0, <1>9, Zenon DEF ReleaseNonce, Goto, OnceInv, NonceHeld
  <2>2. \A p \in Requests \ {q} : nonce[NonceOf[CmdOf[p]]] = p => nonce'[NonceOf[CmdOf[p]]] = p
    BY <1>0, <2>1, Zenon
  <2>3. ActiveUnexpired' /\ AtMostOnce'
    BY <1>0, <2>1, Zenon DEF OnceInv, ActiveUnexpired, Active, AtMostOnce
  <2>4. NonceHeld'
    <3>1. ASSUME NEW p \in Requests, pc'[p] \in {"work", "commit", "respond", "undoNonce"}
          PROVE  nonce'[NonceOf[CmdOf[p]]] = p
      BY <1>0, <2>1, <2>2, <3>1 DEF OnceInv, NonceHeld
    <3>2. ASSUME NEW c \in Commands, NEW p \in executed'[c]
          PROVE  CmdOf[p] = c /\ pc'[p] \in {"respond", "done"}
                 /\ (c \notin expired' => nonce'[NonceOf[c]] = p)
      <4>1. p \in Requests /\ CmdOf[p] = c /\ pc[p] \in {"respond", "done"}
            /\ (c \notin expired => nonce[NonceOf[c]] = p)
        BY <1>0, <2>1, <3>2 DEF OnceInv, NonceHeld
      <4>2. p # q
        BY <2>1, <4>1, Zenon
      <4>3. QED
        BY <1>0, <2>1, <2>2, <4>1, <4>2
    <3>3. QED
      BY <3>1, <3>2, Zenon DEF NonceHeld
  <2>5. QED
    BY <1>0, <2>3, <2>4, Zenon DEF OnceInv
<1>10. ASSUME NEW q \in Requests, ReleaseKey(q) PROVE OnceInv'
  BY <1>0, <1>10, OnceQuiet, Zenon DEF ReleaseKey, Answer
<1>11. ASSUME NEW q \in Requests, Crash(q) PROVE OnceInv'
  BY <1>0, <1>11, OnceQuiet, Zenon DEF Crash, Active, Answer
<1>12. ASSUME NEW c \in Commands, Expire(c) PROVE OnceInv'
  BY <1>0, <1>12 DEF Expire, OnceInv, ActiveUnexpired, Active, NonceHeld, AtMostOnce
<1>13. CASE CleanupExpiredState
  <2>1. ActiveUnexpired' /\ AtMostOnce'
    BY <1>0, <1>13, Zenon DEF CleanupExpiredState, OnceInv, ActiveUnexpired, Active, AtMostOnce
  <2>2. \A p \in Requests :
          CmdOf[p] \notin expired /\ nonce[NonceOf[CmdOf[p]]] = p => nonce'[NonceOf[CmdOf[p]]] = p
    BY <1>0, <1>13, Zenon DEF CleanupExpiredState
  <2>3. executed' = executed /\ expired' = expired /\ pc' = pc
    BY <1>13, Zenon DEF CleanupExpiredState
  <2>4. NonceHeld'
    BY Z3T(30), <1>0, <2>2, <2>3 DEF OnceInv, ActiveUnexpired, Active, NonceHeld
  <2>5. QED
    BY <1>0, <2>1, <2>4, Zenon DEF OnceInv
<1>14. CASE UNCHANGED vars
  BY <1>0, <1>14, Zenon DEF vars, OnceInv, ActiveUnexpired, Active, NonceHeld, AtMostOnce
<1>15. QED
  BY <1>1, <1>2, <1>2a, <1>3, <1>4, <1>5, <1>6, <1>7, <1>8, <1>9, <1>10, <1>11, <1>12, <1>13, <1>14, Zenon
  DEF Next, Step

(* A signed command takes effect at most once, for any number of requests,  *)
(* keys, commands and shared nonces, across crashed handlers, provided no   *)
(* request outlives its payload and no acknowledgement is lost.             *)
THEOREM AtMostOnceAlways ==
  ASSUME Reliable
  PROVE  Spec => []AtMostOnce
<1>1. OnceInv => AtMostOnce
  BY Zenon DEF OnceInv
<1>2. QED
  BY <1>1, OnceInit, OnceStep, PTL DEF Spec

(* Under the same provisos, two effects under one nonce mean that one of    *)
(* the two commands has expired.                                            *)
THEOREM NonceOneUseAlways ==
  ASSUME Reliable
  PROVE  Spec => []NonceOneUse
<1>1. OnceInv => NonceOneUse
  BY DEF OnceInv, NonceHeld, NonceOneUse
<1>2. QED
  BY <1>1, OnceInit, OnceStep, PTL DEF Spec

-----------------------------------------------------------------------------
(* What a handler holds it gives back, when every acknowledgement arrives.  *)

(* A key that is processing is held by a handler that will complete or      *)
(* release it, or by one that died.                                         *)
KeyHeld ==
  \A k \in Keys : idem[k].status = "processing" =>
    \E q \in Requests :
      /\ KeyOf[q] = k /\ CmdOf[q] = idem[k].cmd
      /\ pc[q] \in {"consume", "work", "commit", "undoNonce", "undoKey"} \/ answer[q] = "lost"

(* A consumed nonce belongs to a request that took effect, will release it, *)
(* or died.                                                                 *)
NonceOwned ==
  \A n \in Nonces : nonce[n] # None =>
    LET q == nonce[n] IN
    /\ NonceOf[CmdOf[q]] = n
    /\ \/ pc[q] \in {"work", "commit", "undoNonce"}
       \/ q \in executed[CmdOf[q]]
       \/ answer[q] = "lost"

(* A request that was answered, or died, takes no further step.             *)
LostIsDone == \A q \in Requests : answer[q] = "lost" => pc[q] = "done"

HeldInv == KeyInv /\ KeyHeld /\ NonceOwned /\ LostIsDone

KeyHolding == {"consume", "work", "commit", "undoNonce", "undoKey"}
NonceHolding == {"work", "commit", "undoNonce"}

(* Others neither move nor are answered, and effects stay.                  *)
Alone(q) ==
  /\ \A p \in Requests : p # q => pc'[p] = pc[p] /\ answer'[p] = answer[p]
  /\ \A c \in Commands : executed[c] \subseteq executed'[c]
  /\ answer'[q] = "lost" => pc'[q] = "done"
  /\ pc[q] # "done"

(* Keys change only as far as q reserves, completes or releases its own.    *)
KeyPassedOn(q) ==
  /\ \A k \in Keys : \/ idem'[k] = idem[k]
                     \/ idem'[k].status # "processing"
                     \/ k = KeyOf[q] /\ idem'[k].cmd = CmdOf[q] /\ pc'[q] \in KeyHolding
  /\ pc[q] \in KeyHolding =>
       \/ pc'[q] \in KeyHolding
       \/ answer'[q] = "lost"
       \/ \A k \in Keys : ~(k = KeyOf[q] /\ idem'[k].status = "processing" /\ idem'[k].cmd = CmdOf[q])

NoncePassedOn(q) ==
  /\ \A n \in Nonces : \/ nonce'[n] = nonce[n]
                       \/ nonce'[n] = None
                       \/ nonce'[n] = q /\ n = NonceOf[CmdOf[q]] /\ pc'[q] \in NonceHolding
  /\ pc[q] \in NonceHolding =>
       \/ pc'[q] \in NonceHolding
       \/ answer'[q] = "lost"
       \/ q \in executed'[CmdOf[q]]
       \/ nonce'[NonceOf[CmdOf[q]]] # q

(* A step of one request: what it held it still holds, gave back, turned    *)
(* into an effect, or takes to its grave.                                   *)
LEMMA HeldStepOfOne ==
  ASSUME HeldInv, NEW q \in Requests, Alone(q), KeyPassedOn(q), NoncePassedOn(q)
  PROVE  KeyHeld' /\ NonceOwned' /\ LostIsDone'
<1>1. answer[q] # "lost"
  BY Zenon DEF HeldInv, LostIsDone, Alone
<1>2. LostIsDone'
  <2> SUFFICES ASSUME NEW p \in Requests, answer'[p] = "lost"
               PROVE  pc'[p] = "done"
    BY Zenon DEF LostIsDone
  <2> QED BY Zenon DEF HeldInv, LostIsDone, Alone
<1>3. KeyHeld'
  <2> SUFFICES ASSUME NEW k \in Keys, idem'[k].status = "processing"
               PROVE  \E p \in Requests :
                        /\ KeyOf[p] = k /\ CmdOf[p] = idem'[k].cmd
                        /\ pc'[p] \in KeyHolding \/ answer'[p] = "lost"
    BY Zenon DEF KeyHeld, KeyHolding
  <2>1. CASE idem'[k] = idem[k]
    <3>0. idem[k].status = "processing"
      BY Zenon, <2>1
    <3>1. PICK p \in Requests : /\ KeyOf[p] = k /\ CmdOf[p] = idem[k].cmd
                                /\ pc[p] \in KeyHolding \/ answer[p] = "lost"
      BY Zenon, <3>0 DEF HeldInv, KeyHeld, KeyHolding
    <3>2. CASE p # q
      <4>1. pc'[p] = pc[p] /\ answer'[p] = answer[p]
        BY Zenon, <3>2 DEF Alone
      <4> QED BY Zenon, <2>1, <3>1, <4>1
    <3>3. CASE p = q
      <4>1. pc[q] \in KeyHolding
        BY Zenon, <1>1, <3>1, <3>3
      <4>2. k = KeyOf[q] /\ idem'[k].cmd = CmdOf[q]
        BY Zenon, <2>1, <3>1, <3>3
      <4>3. pc'[q] \in KeyHolding \/ answer'[q] = "lost"
        BY Zenon, <4>1, <4>2 DEF KeyPassedOn
      <4> QED BY Zenon, <4>2, <4>3
    <3> QED BY Zenon, <3>2, <3>3
  <2>2. CASE idem'[k] # idem[k]
    <3>1. k = KeyOf[q] /\ idem'[k].cmd = CmdOf[q] /\ pc'[q] \in KeyHolding
      BY Zenon, <2>2 DEF KeyPassedOn
    <3> QED BY Zenon, <3>1
  <2> QED BY Zenon, <2>1, <2>2
<1>4. NonceOwned'
  <2> SUFFICES ASSUME NEW n \in Nonces, nonce'[n] # None
               PROVE  /\ NonceOf[CmdOf[nonce'[n]]] = n
                      /\ \/ pc'[nonce'[n]] \in NonceHolding
                         \/ nonce'[n] \in executed'[CmdOf[nonce'[n]]]
                         \/ answer'[nonce'[n]] = "lost"
    BY Zenon DEF NonceOwned, NonceHolding
  <2>1. CASE nonce'[n] = nonce[n]
    <3>1. PICK p \in Requests : p = nonce[n]
      BY Zenon, <2>1 DEF HeldInv, KeyInv, TypeInv, TypeOK
    <3>2. /\ NonceOf[CmdOf[p]] = n /\ CmdOf[p] \in Commands
          /\ pc[p] \in NonceHolding \/ p \in executed[CmdOf[p]] \/ answer[p] = "lost"
      BY Zenon, <2>1, <3>1 DEF HeldInv, NonceOwned, NonceHolding
    <3>3. pc'[p] \in NonceHolding \/ p \in executed'[CmdOf[p]] \/ answer'[p] = "lost"
      <4>1. CASE p # q
        <5>1. pc'[p] = pc[p] /\ answer'[p] = answer[p] /\ executed[CmdOf[p]] \subseteq executed'[CmdOf[p]]
          BY Zenon, <3>2, <4>1 DEF Alone
        <5> QED BY Zenon, <3>2, <5>1
      <4>2. CASE p = q /\ pc[q] \in NonceHolding
        BY Zenon, <2>1, <3>1, <3>2, <4>2 DEF NoncePassedOn
      <4>3. CASE p = q /\ q \in executed[CmdOf[q]]
        BY Zenon, <3>2, <4>3 DEF Alone
      <4> QED BY Zenon, <1>1, <3>2, <4>1, <4>2, <4>3
    <3> QED BY Zenon, <2>1, <3>1, <3>2, <3>3
  <2>2. CASE nonce'[n] # nonce[n]
    <3>1. nonce'[n] = q /\ n = NonceOf[CmdOf[q]] /\ pc'[q] \in NonceHolding
      BY Zenon, <2>2 DEF NoncePassedOn
    <3> QED BY Zenon, <3>1
  <2> QED BY Zenon, <2>1, <2>2
<1> QED BY Zenon, <1>2, <1>3, <1>4

(* A step that touches neither keys, nonces nor effects.                    *)
LEMMA HeldByStanding ==
  ASSUME TypeInv, NEW q \in Requests, NEW x \in PC, NEW y \in PC, NEW a, pc[q] = x, x # "done",
         pc' = [pc EXCEPT ![q] = y], answer' = [answer EXCEPT ![q] = a],
         a = "lost" => y = "done",
         a = "lost" \/ (x \in KeyHolding => y \in KeyHolding),
         a = "lost" \/ (x \in NonceHolding => y \in NonceHolding),
         UNCHANGED <<idem, nonce, executed>>
  PROVE  Alone(q) /\ KeyPassedOn(q) /\ NoncePassedOn(q)
<1>1. pc'[q] = y /\ answer'[q] = a /\ \A p \in Requests : p # q => pc'[p] = pc[p] /\ answer'[p] = answer[p]
  BY DEF TypeInv, TypeOK
<1> QED BY Zenon, <1>1 DEF Alone, KeyPassedOn, NoncePassedOn

(* What a handler's move and its answer are.                                *)
LEMMA MovesAndAnswers ==
  ASSUME TypeInv, NEW q \in Requests
  PROVE  /\ answer = [answer EXCEPT ![q] = answer[q]]
         /\ HeldInv /\ pc[q] # "done" => answer[q] # "lost"
<1>1. answer = [answer EXCEPT ![q] = answer[q]]
  BY DEF TypeInv, TypeOK
<1> QED BY Zenon, <1>1 DEF HeldInv, LostIsDone

LEMMA HeldStep ==
  ASSUME ~Unreliable
  PROVE  HeldInv /\ [Next]_vars => HeldInv'
<1> SUFFICES ASSUME HeldInv, [Next]_vars PROVE KeyHeld' /\ NonceOwned' /\ LostIsDone'
  BY Zenon, KeyStep DEF HeldInv
<1>0. TypeInv /\ TypeInv'
  BY Zenon, TypeStep DEF HeldInv, KeyInv
<1>1. ASSUME NEW q \in Requests,
             Receive(q) \/ Lookup(q) \/ FindRelease(q) \/ Inspect(q) \/ Work(q) \/ Respond(q) \/ Crash(q)
      PROVE  KeyHeld' /\ NonceOwned' /\ LostIsDone'
  <2>1. UNCHANGED <<idem, nonce, executed>>
    BY <1>1 DEF Receive, Lookup, FindRelease, Inspect, Work, Respond, Crash
  <2>2. PICK x \in PC, y \in PC, a \in {answer[q], "ok", "replayed", "error", "lost"} :
          /\ pc[q] = x /\ pc' = [pc EXCEPT ![q] = y] /\ answer' = [answer EXCEPT ![q] = a]
          /\ x # "done" /\ (a = "lost" => y = "done" \/ a = answer[q])
          /\ a = "lost" \/ (x \in KeyHolding => y \in KeyHolding)
          /\ a = "lost" \/ (x \in NonceHolding => y \in NonceHolding)
    <3>0. pc[q] \in PC /\ answer = [answer EXCEPT ![q] = answer[q]]
      BY Z3T(30), <1>0, MovesAndAnswers DEF TypeInv, TypeOK
    <3>1. CASE Receive(q)
      BY Z3T(30), <3>0, <3>1 DEF Receive, Goto, Answer, PC, KeyHolding, NonceHolding
    <3>2. CASE Lookup(q) \/ Inspect(q)
      BY ZenonT(30), <3>0, <3>2 DEF Lookup, Inspect, Replay, Goto, Answer, PC, KeyHolding, NonceHolding
    <3>2a. CASE FindRelease(q)
      BY Z3T(30), <3>0, <3>2a DEF FindRelease, Goto, Answer, PC, KeyHolding, NonceHolding
    <3>3. CASE Work(q)
      BY Z3T(30), <3>0, <3>3 DEF Work, Goto, PC, KeyHolding, NonceHolding
    <3>4. CASE Respond(q)
      BY Z3T(30), <3>0, <3>4 DEF Respond, Answer, PC, KeyHolding, NonceHolding
    <3>5. CASE Crash(q)
      BY ZenonT(30), <3>0, <3>5 DEF Crash, Answer, Active, PC
    <3> QED BY Zenon, <1>1, <3>1, <3>2, <3>2a, <3>3, <3>4, <3>5
  <2>3. a = "lost" => y = "done"
    BY Zenon, <1>0, <2>2, MovesAndAnswers
  <2>4. Alone(q) /\ KeyPassedOn(q) /\ NoncePassedOn(q)
    BY Zenon, <1>0, <2>1, <2>2, <2>3, HeldByStanding
  <2> QED BY Zenon, <2>4, HeldStepOfOne
<1>2. ASSUME NEW q \in Requests, Reserve(q) PROVE KeyHeld' /\ NonceOwned' /\ LostIsDone'
  <2>1. UNCHANGED <<nonce, executed>> /\ pc[q] = "reserve"
    BY Z3T(30), <1>2 DEF Reserve
  <2>2. /\ \A p \in Requests : p # q => pc'[p] = pc[p] /\ answer'[p] = answer[p]
        /\ answer'[q] # "lost"
    BY Z3T(30), <1>0, <1>2, <2>1, MovesAndAnswers DEF Reserve, Goto, Answer, TypeInv, TypeOK
  <2>3. \A k \in Keys : \/ idem'[k] = idem[k]
                        \/ k = KeyOf[q] /\ idem'[k].cmd = CmdOf[q] /\ pc'[q] = "consume"
    BY <1>0, <1>2 DEF Reserve, Goto, TypeInv, TypeOK
  <2>4. Alone(q) /\ KeyPassedOn(q) /\ NoncePassedOn(q)
    <3>1. Alone(q)
      BY Z3T(30), <2>1, <2>2 DEF Alone
    <3>2. KeyPassedOn(q)
      BY <2>1, <2>3 DEF KeyPassedOn, KeyHolding
    <3>3. NoncePassedOn(q)
      BY <2>1 DEF NoncePassedOn, NonceHolding
    <3> QED BY Zenon, <3>1, <3>2, <3>3
  <2> QED BY Zenon, <2>4, HeldStepOfOne
<1>3. ASSUME NEW q \in Requests, ConsumeNonce(q) PROVE KeyHeld' /\ NonceOwned' /\ LostIsDone'
  <2>1. UNCHANGED <<idem, executed, answer>> /\ pc[q] = "consume"
    BY <1>3 DEF ConsumeNonce, Goto
  <2>2. PICK y \in {"work", "undoKey"} :
          /\ pc' = [pc EXCEPT ![q] = y]
          /\ nonce' = nonce \/ (y = "work" /\ nonce' = [nonce EXCEPT ![NonceOf[CmdOf[q]]] = q])
    BY Zenon, <1>3 DEF ConsumeNonce, Goto
  <2>3. pc'[q] = y /\ \A p \in Requests : p # q => pc'[p] = pc[p]
    BY Z3T(30), <1>0, <2>2 DEF TypeInv, TypeOK
  <2>4. \A n \in Nonces : nonce'[n] = nonce[n] \/ (nonce'[n] = q /\ n = NonceOf[CmdOf[q]] /\ y = "work")
    BY <1>0, <2>2 DEF TypeInv, TypeOK
  <2>5. Alone(q)
    BY Z3T(30), <2>1, <2>3, MovesAndAnswers, <1>0 DEF Alone
  <2>6. KeyPassedOn(q)
    BY Z3T(30), <2>1, <2>3 DEF KeyPassedOn, KeyHolding
  <2>7. NoncePassedOn(q)
    BY <2>1, <2>3, <2>4 DEF NoncePassedOn, NonceHolding
  <2> QED BY Zenon, <2>5, <2>6, <2>7, HeldStepOfOne
<1>4. ASSUME NEW q \in Requests, Commit(q) PROVE KeyHeld' /\ NonceOwned' /\ LostIsDone'
  <2>1. UNCHANGED <<nonce, answer>> /\ pc[q] = "commit"
    BY <1>4 DEF Commit, Goto
  <2>2. CASE ~MayCommit(q)
    <3>1. pc' = [pc EXCEPT ![q] = "undoNonce"] /\ UNCHANGED <<idem, executed>>
      BY Zenon, <1>4, <2>2 DEF Commit, Goto
    <3>2. pc'[q] = "undoNonce" /\ \A p \in Requests : p # q => pc'[p] = pc[p]
      BY <1>0, <3>1 DEF TypeInv, TypeOK
    <3>3. Alone(q)
      BY <1>0, <2>1, <3>1, <3>2, MovesAndAnswers DEF Alone
    <3>4. KeyPassedOn(q)
      BY <2>1, <3>1, <3>2 DEF KeyPassedOn, KeyHolding
    <3>5. NoncePassedOn(q)
      BY <2>1, <3>2 DEF NoncePassedOn, NonceHolding
    <3> QED BY Zenon, <3>3, <3>4, <3>5, HeldStepOfOne
  <2>3. CASE MayCommit(q)
    <3>1. pc' = [pc EXCEPT ![q] = "respond"] /\ CompleteKey(q) /\ Execute(q)
      BY Zenon, <1>4, <2>3 DEF Commit, Goto
    <3>2. pc'[q] = "respond" /\ \A p \in Requests : p # q => pc'[p] = pc[p]
      BY Z3T(30), <1>0, <3>1 DEF TypeInv, TypeOK
    <3>3. q \in executed'[CmdOf[q]] /\ \A c \in Commands : executed[c] \subseteq executed'[c]
      BY Z3T(30), <1>0, <3>1 DEF Execute, TypeInv, TypeOK
    <3>4. \A k \in Keys : IF k = KeyOf[q] THEN idem'[k].status = "completed" ELSE idem'[k] = idem[k]
      BY <3>1 DEF CompleteKey
    <3>5. Alone(q)
      BY Z3T(30), <1>0, <2>1, <3>2, <3>3, MovesAndAnswers DEF Alone
    <3>6. KeyPassedOn(q)
      BY <3>4 DEF KeyPassedOn, KeyHolding
    <3>7. NoncePassedOn(q)
      BY <2>1, <3>3 DEF NoncePassedOn, NonceHolding
    <3> QED BY Zenon, <3>5, <3>6, <3>7, HeldStepOfOne
  <2> QED BY Zenon, <2>2, <2>3
<1>5. ASSUME NEW q \in Requests, ReleaseNonce(q) PROVE KeyHeld' /\ NonceOwned' /\ LostIsDone'
  <2> DEFINE m == NonceOf[CmdOf[q]]
  <2>1. /\ UNCHANGED <<idem, executed, answer>> /\ pc[q] = "undoNonce" /\ pc' = [pc EXCEPT ![q] = "undoKey"]
        /\ nonce' = [nonce EXCEPT ![m] = IF @ = q THEN None ELSE @]
    BY Zenon, <1>5 DEF ReleaseNonce, Goto
  <2>2. pc'[q] = "undoKey" /\ \A p \in Requests : p # q => pc'[p] = pc[p]
    BY Z3T(30), <1>0, <2>1 DEF TypeInv, TypeOK
  <2>3. nonce'[m] # q /\ \A n \in Nonces : nonce'[n] = nonce[n] \/ nonce'[n] = None
    BY <1>0, <2>1 DEF TypeInv, TypeOK
  <2>4. Alone(q)
    BY Z3T(30), <1>0, <2>1, <2>2, MovesAndAnswers DEF Alone
  <2>5. KeyPassedOn(q)
    BY <2>1, <2>2 DEF KeyPassedOn, KeyHolding
  <2>6. NoncePassedOn(q)
    BY Zenon, <2>3 DEF NoncePassedOn, NonceHolding
  <2> QED BY Zenon, <2>4, <2>5, <2>6, HeldStepOfOne
<1>6. ASSUME NEW q \in Requests, ReleaseKey(q) PROVE KeyHeld' /\ NonceOwned' /\ LostIsDone'
  <2>1. /\ UNCHANGED <<nonce, executed>> /\ pc[q] = "undoKey" /\ pc' = [pc EXCEPT ![q] = "done"]
        /\ answer' = [answer EXCEPT ![q] = "error"]
        /\ idem' = [k \in Keys |-> IF Releasable(q, k) THEN NoRow ELSE idem[k]]
    BY Zenon, <1>6 DEF ReleaseKey, Answer
  <2>2. pc'[q] = "done" /\ answer'[q] = "error"
        /\ \A p \in Requests : p # q => pc'[p] = pc[p] /\ answer'[p] = answer[p]
    BY <1>0, <2>1 DEF TypeInv, TypeOK
  <2>3. \A k \in Keys : \/ idem'[k].status # "processing"
                        \/ idem'[k] = idem[k] /\ ~(k = KeyOf[q] /\ idem'[k].cmd = CmdOf[q])
    BY <2>1 DEF Releasable, NoRow
  <2>4. Alone(q)
    BY <2>1, <2>2 DEF Alone
  <2>5. KeyPassedOn(q)
    BY Zenon, <2>3 DEF KeyPassedOn, KeyHolding
  <2>6. NoncePassedOn(q)
    BY Zenon, <2>1 DEF NoncePassedOn, NonceHolding
  <2> QED BY Zenon, <2>4, <2>5, <2>6, HeldStepOfOne
<1>7. ASSUME NEW c \in Commands, Expire(c) PROVE KeyHeld' /\ NonceOwned' /\ LostIsDone'
  <2>1. UNCHANGED <<idem, nonce, executed, pc, answer>>
    BY Zenon, <1>7 DEF Expire
  <2> QED BY <2>1 DEF HeldInv, KeyHeld, NonceOwned, LostIsDone
<1>8. CASE CleanupExpiredState
  <2>1. pc' = pc /\ answer' = answer /\ executed' = executed
    BY ZenonT(30), <1>8 DEF CleanupExpiredState
  <2>2. \A k \in Keys : idem'[k] = idem[k] \/ idem'[k].status # "processing"
    BY <1>0, <1>8 DEF CleanupExpiredState, NoRow
  <2>3. \A n \in Nonces : nonce'[n] = nonce[n] \/ nonce'[n] = None
    BY Zenon, <1>0, <1>8 DEF CleanupExpiredState
  <2>4. KeyHeld' /\ LostIsDone'
    BY <2>1, <2>2 DEF HeldInv, KeyHeld, LostIsDone
  <2>5. NonceOwned'
    <3> SUFFICES ASSUME NEW n \in Nonces, nonce'[n] # None
                 PROVE  /\ NonceOf[CmdOf[nonce'[n]]] = n
                        /\ \/ pc'[nonce'[n]] \in {"work", "commit", "undoNonce"}
                           \/ nonce'[n] \in executed'[CmdOf[nonce'[n]]]
                           \/ answer'[nonce'[n]] = "lost"
      BY Zenon DEF NonceOwned
    <3> QED BY Zenon, <2>1, <2>3 DEF HeldInv, NonceOwned
  <2> QED BY Zenon, <2>4, <2>5
<1>9. CASE UNCHANGED vars
  BY <1>9 DEF vars, HeldInv, KeyHeld, NonceOwned, LostIsDone
<1>10. QED
  BY Zenon, <1>1, <1>2, <1>3, <1>4, <1>5, <1>6, <1>7, <1>8, <1>9 DEF Next, Step

(* A command whose requests were all answered, and which took no effect,    *)
(* holds neither a key nor its nonce: it can be sent again.  Requests may   *)
(* outlive their payload; only acknowledgements must not be lost.           *)
THEOREM FailureReleasesAlways ==
  ASSUME ~Unreliable
  PROVE  Spec => []FailureReleases
<1>1. Init => HeldInv
  <2>1. Init => KeyHeld /\ NonceOwned /\ LostIsDone
    BY DEF Init, KeyHeld, NonceOwned, LostIsDone, NoRow
  <2> QED BY Zenon, <2>1, KeyInit DEF HeldInv
<1>2. HeldInv => FailureReleases
  <2> SUFFICES ASSUME HeldInv, NEW c \in Commands, executed[c] = {},
                      \A q \in Requests : CmdOf[q] = c => ~Active(q) /\ answer[q] # "lost"
               PROVE  /\ \A k \in Keys : idem[k].cmd # c
                      /\ \A n \in Nonces : nonce[n] # None => CmdOf[nonce[n]] # c
    BY Zenon DEF FailureReleases
  <2>1. TypeOK /\ KeyHeld /\ NonceOwned /\ CompletedMeansDone
    BY Zenon DEF HeldInv, KeyInv, TypeInv
  <2>2. ASSUME NEW k \in Keys, idem[k].cmd = c
        PROVE  FALSE
    <3>1. idem[k].status = "processing" \/ idem[k].status = "completed"
      BY <2>1, <2>2 DEF TypeOK, Row, NoRow
    <3>2. CASE idem[k].status = "processing"
      <4>1. PICK q \in Requests : CmdOf[q] = c /\ (Active(q) \/ answer[q] = "lost")
        BY <2>1, <2>2, <3>2 DEF KeyHeld, Active
      <4> QED BY Zenon, <4>1
    <3>3. CASE idem[k].status = "completed"
      BY Zenon, <2>1, <2>2, <3>3 DEF CompletedMeansDone
    <3> QED BY Zenon, <3>1, <3>2, <3>3
  <2>3. ASSUME NEW n \in Nonces, nonce[n] # None, CmdOf[nonce[n]] = c
        PROVE  FALSE
    <3>1. nonce[n] \in Requests
      BY Zenon, <2>1, <2>3 DEF TypeOK
    <3>2. Active(nonce[n]) \/ nonce[n] \in executed[c] \/ answer[nonce[n]] = "lost"
      BY <2>1, <2>3 DEF NonceOwned, Active
    <3> QED BY Zenon, <2>3, <3>1, <3>2
  <2> QED BY Zenon, <2>2, <2>3
<1>3. HeldInv /\ [Next]_vars => HeldInv'
  BY Zenon, HeldStep
<1> QED BY <1>1, <1>2, <1>3, PTL DEF Spec
=============================================================================
