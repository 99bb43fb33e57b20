--------------------------- MODULE SignedCommand ---------------------------
(***************************************************************************)
(* Signed publisher commands of the Registry API: publishing a release,    *)
(* recording a deployment and changing availability                        *)
(* (handlePublishVersion, handleRecordDeployment and                       *)
(* handlePublisherAvailability of services/registry-api/src/index.ts).     *)
(* A command is a signed payload; a client may deliver it in several HTTP  *)
(* requests, under several Idempotency-Keys.  The handlers look the key    *)
(* up, reserve it, consume the nonce, work, commit their effect together   *)
(* with the completed key, and release what they hold when they fail.      *)
(* Every await is a step boundary; a statement outside a transaction is a  *)
(* transaction of its own.                                                 *)
(***************************************************************************)
CONSTANTS
  Requests,     \* deliveries of a command (request_id values)
  Commands,     \* signed payloads, identified by their request hash
  Publishes,    \* the commands that publish a release
  Keys,         \* idempotency keys, automatic ones included
  Nonces,       \* nonce_key values
  CmdOf,        \* the command a request delivers
  KeyOf,        \* the key it is delivered under; None: publish without a header
  NonceOf,      \* the nonce a command was signed with
  Prompt,       \* is a request never older than its payload's expiry?
  Unreliable,   \* may the database connection break at a statement?
  None

ASSUME CommandAssumption ==
  /\ Publishes \subseteq Commands
  /\ CmdOf \in [Requests -> Commands]
  /\ KeyOf \in [Requests -> Keys \cup {None}]
  /\ NonceOf \in [Commands -> Nonces]
  /\ \A q \in Requests : KeyOf[q] = None => CmdOf[q] \in Publishes
  /\ Prompt \in BOOLEAN /\ Unreliable \in BOOLEAN
  /\ None \notin Requests \cup Commands \cup Keys

VARIABLES
  idem,       \* idempotency_keys: command, status and whose response is stored
  nonce,      \* used_nonces: the request that consumed each nonce
  executed,   \* the requests whose effect was committed, per command
  expired,    \* commands whose expires_at has passed
  pc, answer, \* handler position, and what the client was told
  source      \* whose response body the client was given

vars == <<idem, nonce, executed, expired, pc, answer, source>>

NoRow == [cmd |-> None, status |-> "absent", resp |-> None]
Row == [cmd : Commands, status : {"processing"}, resp : {None}]
       \cup [cmd : Commands, status : {"completed"}, resp : Requests]
PC == {"idle", "lookup", "find", "reserve", "inspect", "consume", "work", "commit", "respond",
       "undoNonce", "undoKey", "done"}

TypeOK ==
  /\ idem \in [Keys -> Row \cup {NoRow}]
  /\ nonce \in [Nonces -> Requests \cup {None}]
  /\ executed \in [Commands -> SUBSET Requests]
  /\ expired \subseteq Commands
  /\ pc \in [Requests -> PC]
  /\ answer \in [Requests -> {"none", "ok", "replayed", "error", "lost"}]
  /\ source \in [Requests -> Requests \cup {None}]

Init ==
  /\ idem = [k \in Keys |-> NoRow]
  /\ nonce = [n \in Nonces |-> None]
  /\ executed = [c \in Commands |-> {}]
  /\ expired = {}
  /\ pc = [q \in Requests |-> "idle"]
  /\ answer = [q \in Requests |-> "none"]
  /\ source = [q \in Requests |-> None]

Active(q) == pc[q] \notin {"idle", "done"}

Goto(q, step) == pc' = [pc EXCEPT ![q] = step] /\ UNCHANGED <<answer, source>>

Answer(q, what, from) ==
  /\ pc' = [pc EXCEPT ![q] = "done"]
  /\ answer' = [answer EXCEPT ![q] = what]
  /\ source' = [source EXCEPT ![q] = from]

(* Mutant: a key is replayed for whatever request carries it.               *)
SameRequest_KeyOnly(q, row) == row.status # "absent"

(* The stored request hash is the hash of this request.                     *)
SameRequest(q, row) == row.cmd = CmdOf[q]

(* What a handler does with the row under its key: the stored response, or  *)
(* an error when the hash differs or the request is unfinished.             *)
Replay(q, row) ==
  IF SameRequest(q, row) /\ row.status = "completed"
  THEN Answer(q, "replayed", row.resp)
  ELSE Answer(q, "error", None)

-----------------------------------------------------------------------------
(* Payload, signature, capability and quota checks: expires_at is compared  *)
(* with the clock here and never again.                                     *)
Receive(q) ==
  /\ pc[q] = "idle"
  /\ CmdOf[q] \notin expired
  /\ Goto(q, "lookup") \/ Answer(q, "error", None)
  /\ UNCHANGED <<idem, nonce, executed, expired>>

(* idempotencyReplayResponse.                                               *)
Lookup(q) ==
  /\ pc[q] = "lookup"
  /\ IF KeyOf[q] = None \/ idem[KeyOf[q]] = NoRow
     THEN Goto(q, IF CmdOf[q] \in Publishes THEN "find" ELSE "reserve")
     ELSE Replay(q, idem[KeyOf[q]])
  /\ UNCHANGED <<idem, nonce, executed, expired>>

(* A publish looks for its release and for the predecessor whose interface  *)
(* it has to extend (which may refuse it), long before it reserves the key. *)
FindRelease(q) ==
  /\ pc[q] = "find"
  /\ \/ executed[CmdOf[q]] = {} /\ Goto(q, "reserve")
     \/ Answer(q, "error", None)
  /\ UNCHANGED <<idem, nonce, executed, expired>>

(* reserveIdempotencyKey's insert ... on conflict do nothing; a publish     *)
(* without a key has nothing to reserve.                                    *)
Reserve(q) ==
  LET k == KeyOf[q]
      insert == idem' = [idem EXCEPT ![k] = [cmd |-> CmdOf[q], status |-> "processing", resp |-> None]]
  IN
  /\ pc[q] = "reserve"
  /\ \/ k = None /\ Goto(q, "consume") /\ UNCHANGED idem
     \/ k # None /\ idem[k] # NoRow /\ Goto(q, "inspect") /\ UNCHANGED idem
     \/ /\ k # None /\ idem[k] = NoRow
        /\ \/ Goto(q, "consume") /\ insert
           \/ Unreliable /\ Answer(q, "error", None) /\ (insert \/ UNCHANGED idem)
  /\ UNCHANGED <<nonce, executed, expired>>

(* The select that follows a conflicting insert is a statement of its own:  *)
(* the row may be gone by then, and reading it throws.                      *)
Inspect(q) ==
  /\ pc[q] = "inspect"
  /\ Replay(q, idem[KeyOf[q]])
  /\ UNCHANGED <<idem, nonce, executed, expired>>

(* Mutant: the outcome of the insert is not looked at.                      *)
ConsumeNonce_Ignored(q) ==
  /\ pc[q] = "consume"
  /\ nonce' = [nonce EXCEPT ![NonceOf[CmdOf[q]]] = q]
  /\ Goto(q, "work")
  /\ UNCHANGED <<idem, executed, expired>>
(* consumeSignedNonce, the first statement of the try block.  A handler     *)
(* that did not learn that it has the nonce will not release it.            *)
ConsumeNonce(q) ==
  LET n == NonceOf[CmdOf[q]]
      insert == nonce' = [nonce EXCEPT ![n] = q]
  IN
  /\ pc[q] = "consume"
  /\ IF nonce[n] # None
     THEN Goto(q, "undoKey") /\ UNCHANGED nonce
     ELSE \/ Goto(q, "work") /\ insert
          \/ Unreliable /\ Goto(q, "undoKey") /\ (insert \/ UNCHANGED nonce)
  /\ UNCHANGED <<idem, executed, expired>>

(* Chain verification, snapshot upload, evidence lookup: it succeeds, or it *)
(* throws before anything is committed.                                     *)
Work(q) ==
  /\ pc[q] = "work"
  /\ Goto(q, "commit") \/ Goto(q, "undoNonce")
  /\ UNCHANGED <<idem, nonce, executed, expired>>

(* Mutant: an existing release is overwritten.                              *)
MayCommit_NotUnique(q) ==
  KeyOf[q] # None =>
    idem[KeyOf[q]] = [cmd |-> CmdOf[q], status |-> "processing", resp |-> None]

(* The transaction's own conditions: completeIdempotencyInTransaction must  *)
(* find its processing row, and a release is inserted once.                 *)
MayCommit(q) ==
  LET c == CmdOf[q] IN
  /\ c \in Publishes => executed[c] = {}
  /\ KeyOf[q] # None => idem[KeyOf[q]] = [cmd |-> c, status |-> "processing", resp |-> None]

CompleteKey(q) ==
  idem' = [k \in Keys |-> IF k = KeyOf[q]
                          THEN [cmd |-> CmdOf[q], status |-> "completed", resp |-> q]
                          ELSE idem[k]]

Execute(q) == executed' = [executed EXCEPT ![CmdOf[q]] = @ \cup {q}]

(* The effect and the completed key commit together.  When the connection   *)
(* breaks at the commit the handler sees an error, whatever was committed.  *)
Commit(q) ==
  /\ pc[q] = "commit"
  /\ \/ MayCommit(q) /\ Goto(q, "respond") /\ CompleteKey(q) /\ Execute(q)
     \/ ~MayCommit(q) /\ Goto(q, "undoNonce") /\ UNCHANGED <<idem, executed>>
     \/ Unreliable /\ MayCommit(q) /\ Goto(q, "undoNonce") /\ CompleteKey(q) /\ Execute(q)
  /\ UNCHANGED <<nonce, expired>>

(* The static write and the response.  A deployment reads its evidence      *)
(* again first, and may fail there without taking anything back.            *)
Respond(q) ==
  /\ pc[q] = "respond"
  /\ \/ Answer(q, "ok", q)
     \/ Unreliable /\ CmdOf[q] \notin Publishes /\ Answer(q, "error", None)
  /\ UNCHANGED <<idem, nonce, executed, expired>>

-----------------------------------------------------------------------------
(* The catch block of a command that did not see its commit.                *)

(* Mutant: only the nonce is released.                                      *)
ReleaseNonce_KeyKept(q) ==
  LET n == NonceOf[CmdOf[q]] IN
  /\ pc[q] = "undoNonce"
  /\ nonce' = [nonce EXCEPT ![n] = IF @ = q THEN None ELSE @]
  /\ Answer(q, "error", None)
  /\ UNCHANGED <<idem, executed, expired>>

(* releaseNonce deletes by nonce and request; when it throws, the key is    *)
(* not released.                                                            *)
ReleaseNonce(q) ==
  LET n == NonceOf[CmdOf[q]]
      delete == nonce' = [nonce EXCEPT ![n] = IF @ = q THEN None ELSE @]
  IN
  /\ pc[q] = "undoNonce"
  /\ \/ delete /\ Goto(q, "undoKey")
     \/ Unreliable /\ (delete \/ UNCHANGED nonce) /\ Answer(q, "error", None)
  /\ UNCHANGED <<idem, executed, expired>>

(* Mutant: the row is deleted whatever its status.                          *)
Releasable_AnyStatus(q, k) == k = KeyOf[q] /\ idem[k].cmd = CmdOf[q]

(* releaseProcessingIdempotencyKey matches key, hash and status only.       *)
Releasable(q, k) == k = KeyOf[q] /\ idem[k].cmd = CmdOf[q] /\ idem[k].status = "processing"

ReleaseKey(q) ==
  /\ pc[q] = "undoKey"
  /\ \/ idem' = [k \in Keys |-> IF Releasable(q, k) THEN NoRow ELSE idem[k]]
     \/ Unreliable /\ UNCHANGED idem
  /\ Answer(q, "error", None)
  /\ UNCHANGED <<nonce, executed, expired>>

(* The API process dies with the request.                                   *)
Crash(q) ==
  /\ Active(q)
  /\ Answer(q, "lost", None)
  /\ UNCHANGED <<idem, nonce, executed, expired>>

-----------------------------------------------------------------------------
(* The clock passes expires_at.                                             *)
Expire(c) ==
  /\ c \notin expired
  /\ Prompt => \A q \in Requests : CmdOf[q] = c => ~Active(q)
  /\ expired' = expired \cup {c}
  /\ UNCHANGED <<idem, nonce, executed, pc, answer, source>>

(* Mutant: maintenance keeps the keys that are still processing.            *)
Stale_CompletedOnly(k) == idem[k].status = "completed" /\ idem[k].cmd \in expired

Stale(k) == idem[k].cmd \in expired

(* cleanupExpiredState: expired nonces and keys go in one transaction.      *)
CleanupExpiredState ==
  /\ idem' = [k \in Keys |-> IF Stale(k) THEN NoRow ELSE idem[k]]
  /\ nonce' = [n \in Nonces |-> IF nonce[n] # None /\ CmdOf[nonce[n]] \in expired
                                THEN None ELSE nonce[n]]
  /\ UNCHANGED <<executed, expired, pc, answer, source>>

Step(q) ==
  \/ Lookup(q) \/ FindRelease(q) \/ Reserve(q) \/ Inspect(q) \/ ConsumeNonce(q) \/ Work(q)
  \/ Commit(q) \/ Respond(q) \/ ReleaseNonce(q) \/ ReleaseKey(q)

Next ==
  \/ \E q \in Requests : Receive(q) \/ Step(q) \/ Crash(q)
  \/ \E c \in Commands : Expire(c)
  \/ CleanupExpiredState

Spec == Init /\ [][Next]_vars

(* Handlers run on, time passes, and maintenance is scheduled.              *)
Fairness ==
  /\ \A q \in Requests : WF_vars(Step(q))
  /\ \A c \in Commands : WF_vars(Expire(c))
  /\ WF_vars(CleanupExpiredState)

FairSpec == Spec /\ Fairness

-----------------------------------------------------------------------------
(* A signed command takes effect at most once, however often, concurrently  *)
(* and under whatever keys it is delivered, across crashes of its handlers. *)
AtMostOnce == \A c \in Commands : \A p, q \in executed[c] : p = q

(* A publish takes effect at most once even when its request outlives its   *)
(* payload or the acknowledgement of its commit is lost: admission inserts  *)
(* the release once, whatever became of the nonce and the keys.             *)
PublishOnce == \A c \in Publishes : \A p, q \in executed[c] : p = q

(* A nonce is used once among live commands: two effects under one nonce    *)
(* mean that one of the two commands has expired.                           *)
NonceOneUse ==
  \A p, q \in Requests :
    (/\ p # q
     /\ NonceOf[CmdOf[p]] = NonceOf[CmdOf[q]]
     /\ p \in executed[CmdOf[p]] /\ q \in executed[CmdOf[q]])
    => CmdOf[p] \in expired \/ CmdOf[q] \in expired

(* A completed key stores the response of a request that took effect: the   *)
(* effect and the completion are one transaction.                           *)
CompletedMeansDone ==
  \A k \in Keys : idem[k].status = "completed" => idem[k].resp \in executed[idem[k].cmd]

(* A client is told the truth: a success or a replayed success stands for a *)
(* committed effect of the very command it sent.                            *)
AnswersAreTrue ==
  \A q \in Requests : answer[q] \in {"ok", "replayed"} => source[q] \in executed[CmdOf[q]]

(* An effect can be asked about again: until it expires, a command that     *)
(* took effect under a key is completed under it, even when its handler saw *)
(* an error and released what it held.                                      *)
DoneMeansReplayable ==
  \A q \in Requests :
    LET c == CmdOf[q] IN
    q \in executed[c] /\ KeyOf[q] # None /\ c \notin expired =>
      idem[KeyOf[q]] = [cmd |-> c, status |-> "completed", resp |-> q]

(* A failed command can be sent again: when all its requests were answered  *)
(* and none took effect, neither its nonce nor its keys are held.           *)
FailureReleases ==
  \A c \in Commands :
    (/\ executed[c] = {}
     /\ \A q \in Requests : CmdOf[q] = c => ~Active(q) /\ answer[q] # "lost")
    => /\ \A k \in Keys : idem[k].cmd # c
       /\ \A n \in Nonces : nonce[n] # None => CmdOf[nonce[n]] # c

(* A reservation whose handler died does not block its key for ever.        *)
ReservationsEnd ==
  \A k \in Keys : idem[k].status = "processing" ~> idem[k].status # "processing"

=============================================================================
