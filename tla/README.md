# CellScript: TLA+ models, checks and proofs

CellScript is a language and compiler for CKB Cell contracts, with a package
manager, editor tooling, on-chain contracts, and a Registry service that
publishes releases and follows their deployments. Most of the repository is
sequential and pure: parsing, type checking, code generation. This project
models the parts where processes, crashes, files and other systems meet (the
Registry, the lockfiles, the compile cache, the language server) and two
algorithms whose results depend on long histories or on all paths (dependency
resolution and the linear-ownership checker).

All paths below are relative to the repository root.

## 1. Inventory

### The Registry

| part | state | operations | talks to |
|---|---|---|---|
| release admission | `package_versions`, `source_snapshots`, object store | `handlePublishVersion`: check, upload bytes, admit, write mirror | job queue, signed commands |
| verification queue | `verification_jobs` (status, attempts, lease, evidence checkpoint) | claim, promote, complete, fail, retry, `requestStaticSync` | workers, releases |
| workers | process memory | `runLoop`, `processJob`, build, sync, purge | verifier programs, object store |
| rejected-source purge | snapshot tombstones, `source_purged_at` | two-transaction `purgeRejectedSnapshot`, sweep | queue, object store |
| signed commands | `idempotency_keys`, `used_nonces` | look up, reserve, consume, commit, release, clean up | publish, deployment and availability handlers |
| release lifecycle | `verification_status`, `deployment_status`, `availability_status`, current commitment, derived `status`, evidence | availability change, deployment, build and commitment promotion | CKB chain, static mirror |
| static mirror | one object per release | unconditional put by every handler | object store |
| scheduled maintenance | maintenance lease | expiry cleanup, chain reconciliation, sandbox purge | chain, all tables |
| authorisation sessions, namespaces, capabilities, quotas | their tables | create, replace, finalise, claim, issue, revoke, consume | wallets, CLI |

What is hard there: every handler reads, awaits and writes again, and between
any two awaits another request, worker or maintenance pass may run; workers die
between transactions and come back; leases lapse under a slow worker, and
clocks disagree; object-store writes and database transactions cannot be made
atomic together; a commit may succeed while its acknowledgement is lost; the
chain changes by itself.

### The compiler's processes

| part | state | operations | shared with |
|---|---|---|---|
| lockfiles | `Cell.lock` of every workspace member, `.tmp` files, plan files | plan, apply and roll back an upgrade (`src/package/upgrade.rs`), `cellc build`, `cellc lock` | other `cellc` processes |
| resolution | the graph a lock pins | full resolution, locked resolution, targeted and precise update | the package registry |
| compile cache | `.cell/build/cache` | look up, store, touch, prune (`src/compile_cache.rs`) | other `cellc` processes |
| language server | open buffers, versions, diagnostics, epoch (`src/lsp/session.rs`) | open, change, close, watch, diagnose, publish, query | client, files on disk |
| linear ownership | one `TypeEnv` per scope (`src/types/mod.rs`) | check a body | none |

There is no lock file around any of the on-disk state: what protects a reader is
the order of file operations. The language server protects its session with a
mutex that it does not hold while it reads files or analyses.

### The rest

Compiler front end (`src/lexer`, `src/parser`, `src/resolve`, the other analyses
of `src/types`, `src/flow`), middle and back end (`src/ir`, `src/optimize`,
`src/codegen`), artifact checker, canonical JSON, protocol bundles: pure
functions of one input. Contracts: the Registry's type script and the private
counter. Adapters (CKB, Fiber), certification and repository tools: sequential
clients and reports. `PROJECT.json` lists each with its status and, where it is
not modelled, the reason; its `hazards` list what can go wrong, at the line
where.

## 2. Modules

Conventions. A database transaction, or a statement outside one, is one action;
so are one object-store call and one file operation, and one critical section of
the language server's mutex. What a process carries in memory between two of
them is a variable, so processes interleave exactly where the code awaits,
unlocks or returns from a system call. Time is not a number: a lease lapses, a
payload expires, each as a step. Variables marked `history` record what happened
for the properties' sake; no guard of an operation reads one. A `lane` is a
setting of the bounds, chosen in the initial state and kept; what the lanes leave
out is said with the run.

### `VerificationQueue`

`verification_jobs`, `package_versions` and `source_snapshots` are functions of
releases and snapshots; `objects` is the object store; `w...` is a worker's
memory (`processJob`'s locals); `publishing` and `staticDue` are the handlers
in flight.

| actions | code |
|---|---|
| `BeginPublish`, `WriteSnapshot`, `AdmitPackageVersion`, `AbortPublish` | `handlePublishVersion`, `writeSnapshot`, `admitPackageVersion` |
| `ClaimVerificationJob`, `ClaimUnderSkew`, `LeaseLapses` | `claimVerificationJob` |
| `BuildPasses`, `BuildRejected`, `BuildBreaks` | `runBuildVerification` |
| `PromoteVerifiedBuildForJob`, `ResumePublication`, `SyncStatic`, `SyncStaticFails`, `CompleteVerificationJob`, `FailVerificationJob` | `processJob` and the store's methods |
| `SweepPendingPurge`, `TombstoneSnapshot`, `PurgeDeclined`, `DeleteObject` | `purgeRejectedSnapshot`, first and second transaction |
| `RequestStaticSync`, `BeginStaticWrite`, `StaticWritten` | handlers that write the mirror, and the deferral when the put fails |
| `RetryVerificationJob`, `PromotePackageVersion` | administration |
| `WorkerCrash` | the worker process dies (external) |

`ClaimUnderSkew` exists because the claim compares the lease with the worker's
clock and every other operation with the database's. The verdict of a build is
the environment's choice within `MayPass` and `MayReject`. A release in both may
pass and may be rejected for good: its verifier is not deterministic, or a
coded fault of the environment (`verifier_internal_error`, a snapshot that could
not be read), which `processJob` makes permanent like a finding about the
sources, struck one attempt and not the other. Of the tables only what the
transactions read is kept; the three accepting verification statuses are one.

`ObjectKey` says which object a release's upload goes to. The API's keys name
the release (`ApiObjectKey`); the store's contract, and the purge's own
protection of shared references, allow releases to share a snapshot, and
`SharedObjectKey` exercises that.

### `ReleaseLedger` and `VerificationLedger`

The abstract promise: a release is admitted with its source, evidence is
accepted only while the source is kept, and sources are given up only for
rejected releases. `VerificationLedger` maps the pipeline onto it.

### `SignedCommand`

One signed command delivered in several requests, under several keys. `idem` and
`nonce` are the two tables, `executed` records which requests' effects were
committed (it is what the release, evidence and audit rows amount to), `answer`
and `source` what the client was told. Actions follow a handler statement by
statement: `Receive`, `Lookup`, `FindRelease`, `Reserve`, `Inspect`,
`ConsumeNonce`, `Work`, `Commit`, `Respond`, and the catch block `ReleaseNonce`,
`ReleaseKey`; the three handlers differ in that a publish may come without a key
and looks for its release before it reserves anything (`FindRelease`), so that
another publish may be admitted in between. `CleanupExpiredState` is the maintenance transaction. Two
constants name the environment: `Unreliable`, the connection may break at any
statement, with or without the statement's effect; `Prompt`, no request outlives
its payload's `expires_at`.

### `ReleaseLifecycle`

One `ckb_executable` release: its row, its evidence, its mirror, the live Cells
it refers to, and what each process holds in hand (`proc`). `Available`,
`Deployed`, `Reconciled`, `Verified` and `Committed` are the update statements;
`Projection` is `package_versions_status_projection_check`, which aborts a
transaction whose row breaks it. Handlers read, work and store
(`RequestAvailability`, `Suppress`, `UpdateStatus`, `VerifyDeployment`,
`RecordDeployment`, `AcceptBuild`, `VerifyCommitment`, `PromoteCommitment`,
`SyncStatic`, `Mirror`); the indexer scans, lists, checks and settles (`Scan`,
`List`, `CheckDeployment`, `Reconcile`, `DemoteCommitments`). Reading the
evidence and asking the chain about it are one step: a deployment recorded in
between commutes with what happens to the older one's Cell. `yanked` stands for
`deprecated` too, since nothing tells them apart. A deployment evidence record
stands for one Cell and has at most one commitment Cell. The indexer runs only
where the four Script values of the chain are configured; with none of them set
maintenance merely clears the current commitment, and nothing here is about that.

### `LspSession`

One client, the session behind the mutex, the diagnostic workers and the
navigation queries. `documents`, `diagnostics`, `versions`, `epoch` and
`workerRunning` are the fields of `Session`; `task` is what a worker or a query
has taken out of the lock. An analysis is a function of its inputs, so a
diagnostic set is represented by its `Revision`: text, overlays and the observed
contents of the files.

| actions | code |
|---|---|
| `DidOpen`, `DidChange`, `DidClose`, `DidChangeWatchedFiles` | the notification handlers with their size limit and version check |
| `Schedule`, `CloseNotify` | the rest of a handler after it released the lock |
| `WorkerSnapshot`, `ReadFile`, `AnalyseAgain`, `InstallAnalysis` | the worker's loop: snapshot, two passes over the files, compare, install |
| `CheckPublication`, `SendPublication` | publication after the lock is released |
| `QueryStart`, `QueryChecks`, `QueryRevisits` | a request: snapshot, answer, check that nothing moved |
| `WorkerPanics`, `QueryPanics` | a panic of the analysis, caught at the task boundary |
| `WriteFile` | something writes a workspace file (external) |

The two passes over the files are modelled read by read, since that the second
equals the first is what makes an analysis whole. Every write gives a file
contents it never had: a file that is changed and restored between two readings
would look unchanged to the comparison. A client that checks versions is part of
the model (`shown`, external).

### `LockFiles`

The `Cell.lock` of every workspace member, the temporaries beside them and the
plan files. An apply checks every lock against the plan's bytes (`Preflight`),
then replaces them one by one: `CreateTemp` (exclusive), `WriteTemp`,
`RenameTemp`; `Continue` is what follows each replacement, forward or restoring.
Planning reads every lock twice (`PlanReads`, `PlanParses`), as the code does.
`cellc build` and `cellc lock` write in place: `Truncate`, `Fill`. Every file
operation of a replacement may fail (`Fault`) and a process may be killed between
any two (`Crash`). A lock is abstracted to the graph it pins, the graph of its
recorded build and whether that build is stamped; `Torn` is a file that is no
whole lock.

### `PackageResolver` and `PackageLock`

`PackageResolver` holds the algorithms: `ResolveDependencies` walks the manifests
depth first and keeps the first instance of every package;
`ResolveLocked` walks a lock and accepts it only as the graph the manifests
describe. `Blocked` is `resolver_block_reason`: what is yanked or quarantined is
passed over, a yanked version not for an exact pin. `PackageLock` is the life of
one lock: versions are published, yanked and quarantined, the manifest is edited, `cellc lock` and the three forms of `cellc
update` (everything, `--package`, `--precise`) rewrite it. `TargetedLock` grafts
the selected part of a fresh resolution onto the old lock; `Apply` refuses what
is not acknowledged or does not build. The codes that a comparison of the two
compilations adds (`UPG3001`, `UPG31xx`, `UPG400x`) can only refuse an apply, and
are not told apart from not applying. Versions and requirements are small sets;
digests always match, since published sources do not change.

### `CompileCache`

Processes that compile, each for itself: hash the sources (`Start`), look an
entry up and read it file by file (`Lookup`, `ReadFile`, `Touch`), or compile
(`Load`) and store it (`Make`, `Open`, `Write`), prune (`List`, `RemoveEntry`,
`Unlink`, `Rmdir`), stamp `Cell.lock` and store again under the key the stamp
makes (`End`, `Stamp`, `Refresh`). `Load` reads the sources again, after they were
hashed; the compilation may then fail, which ends the build (`End`). An entry is a directory visible from its creation; files are created exclusively
and filled later, and a file not yet filled holds its writer's name. `Edit` and
`Crash` are the environment.

### `LinearOwnership`

The checker takes a body statement by statement: a step is a statement or the
begin or end of one that has blocks, and its recursion is the `stack`, with a
frame per open block (`st` is the chain of `TypeEnv`s, `own` the innermost
scope). Which body it is follows from the steps taken; a statement that the
checker refuses has no step, and `Accept` is the end of `check_action` and
`check_function`. `check_stmt` has an action per kind of statement, with
`MergeBranches` for the end of an if, `SameAfterLoop` for a loop, `Close` for a
borrow or a block. What the code learns by walking the same statements again
(`stmts_always_return`, `stmt_always_terminates_sequence`,
`mark_stmt_as_returned`, `body_returns_or_tail_expr`) is carried along in the
frame, and where the treatment of an if-else depends on being the last of its
block, `If(last)` guesses and `MayFollow` and `MayEnd` hold the rest to it.

Beside it, `runs` are the paths through the statements so far, with the life of
each value: the reference the checker is compared with. A loop body is entered
in every state (`While`), and `Looped` joins its paths to those that reach the
loop, for no round, one, or two.

## 3. Runs

| run | instance | shows |
|---|---|---|
| `queue_shared` | two releases sharing a snapshot, one accepted, one rejected; two workers; two attempts; two faults; clock skew | sources are kept exactly while needed, leases fence attempts, the checkpoint is consistent, and the pipeline implements `ReleaseLedger` |
| `queue_liveness` | the same with the API's keys, under fairness; a release that may pass one attempt and be rejected in another | every job ends; every tombstone whose rejection stands is closed |
| `command_once` | four requests, two commands with one nonce, two keys, one command twice under one key; crashes | at most once; failures hold nothing |
| `command_broken` | a publish without a key and twice under one, another command under the same key, three of the four at a time; breaking connection, late requests, fairness | a publish is admitted once, answers tell the truth, effects stay replayable, reservations end |
| `lifecycle` | seven lanes: two deployments or any request beside the indexer while the chain changes two or three times, two requests (a worker's sync may be one) beside the indexer, failing passes, one process at a time failing anywhere | reconciliation fits every row, commitments are of claimed deployments, the mirror is never ahead and fails closed, only an administrator lifts a quarantine, claims about spent Cells are withdrawn |
| `lsp_session` | two documents, one importing the other; two texts and an oversized one; two files; two workers; a query; a panic | no edit is lost to an installed analysis, one analysis at a time, analyses and answers come from one state of the files, what is shown under a version is of that version's text, diagnostics settle |
| `lock_files` | three members, two processes, four commands, two plans, two faults, one kill | plans and applies never expose a torn lock; alone, an apply is all or nothing and a kill leaves a prefix; without overlap a stamp is of the pinned graph |
| `package_lock` | three packages of two versions, every choice of a shared, pinned, featured, optional, cyclic or path dependency; yanks and quarantines; one manifest edit | a lock of the present manifest builds, its graph is sound, an update moves only what was selected and acknowledged, a yanked version needs a pin and a quarantined one stays out |
| `compile_cache` | two processes, two texts; a limit of one under overlap and a fault, of two under overlap and an edit, of two in sequence with more builds | a result is of the sources that were hashed, the limit holds at rest, builds in sequence keep the most recently used entries, nothing written is overwritten |
| `linear_ownership` | every body of up to five statements over two resources or a resource and a collection owner, and of up to seven over one resource with ifs and loops | no use after a move, one ownership state at every point, no loss at a scope the checker closes |
| `command_lost_commit`, `linear_loss` | | expected violations: section 5 |

**Bounds.** Two workers and two releases are what a stale worker, a take-over and
a shared snapshot need; `MaxAttempts` 2 reaches both the retry and the dead
letter; two faults allow a crash to meet a failed deletion. Four requests let
deliveries of one command, without a key, under one and again under it, meet
another command under the same key and nonce; where connections also break, one
of the four is refused on arrival, so that three of them meet.
Two deployments and two or three chain events reach a newer deployment, a
commitment to the older one and the loss of either; the third event comes only to
a release that stays active or has a single deployment. For the language server three
session changes are an edit or a closing and reopening while a snapshot is out;
two files are what a torn observation needs. The lanes separate workers from queries,
which meet only in the session and never in each other's state. Three members are
the least with a first, a middle and a last lock; two faults let a failed
replacement meet a failed restoration. Two versions give an upgrade, and three
packages a diamond and a cycle. Five statements are a move and a use around or
inside two nested branches, loops or borrows; seven let a jump, a return and a use
meet in a branch inside a loop. Symmetry is used over processes (and texts) only where
no liveness is checked. The bounds stand in guards and are named `Max...` or are
fields of a lane; nothing else is cut off. The theorems lift them.

Deadlock is not checked where the system may come to rest: when every job is
done, when the client stops, when the bounds on commands are used up.

**Fairness.** Queue: a worker that holds a job goes on with it, because every
await in `processJob` is bounded by the job timeout or the driver (weak
fairness of `Proceed`); the loop sweeps and claims in every turn, jobs in the
order they fell due and tombstones by paging, so neither is passed over for ever
(strong fairness per job and per tombstone); a lease without a worker lapses.
Commands: handlers run on, time passes, maintenance is scheduled. Lifecycle:
maintenance takes its next step; requests need neither come nor end. Language
server: spawned tasks and handlers are polled to completion, and the client
delivers the watch notifications it registered for; nothing makes it edit.
Faults are finitely many where a property says that something eventually happens,
as no code promises progress against a fault that never stops.

## 4. Proofs

TLAPS proves the following for every value of the constants the `ASSUME`s allow:
any number of releases, workers, requests, documents, files, locks and processes,
any bounds. The type invariant of every module treated here is among them.

### Verification queue

The safety properties of `queue_shared` rest on an inductive invariant in four
layers, each proved on top of the one before: three in `VerificationQueueProofs`,
the last in `VerificationLedgerProofs`.

`Rows`: release, job and snapshot rows exist together,
a pending tombstone names a release of its own snapshot, and a busy worker works
on an admitted release. `Queue`: a live lease has an owner, with
`CheckpointConsistent` and `LeaseFencesAttempt`. Types, checkpoint and fencing
follow.

`Retention`: a snapshot's key is one that an upload
of that very snapshot was written to, its bytes stay until it is hidden (for a
handler that has written them and not yet admitted its release too), and only
judged releases hang on a hidden snapshot, all of them marked. `StoreSteps` says
once which actions write releases, snapshots or bytes; the others are frame
steps here and for the last layer. `PendingSourceRetained` and
`PurgeMarksAgree` follow. Neither is inductive by itself: the first says nothing
about a publish handler between its upload and its admission, which is where a
purge of the same bytes would have to strike. The action properties
`TombstoneIrreversible` (which needs that two snapshots never share an object
key) and `AcceptanceIsFinal` follow step by step from the invariant.

Under `DeterministicVerifier` (a release that can be rejected for good, for
whatever reason, cannot pass: the verifier gives one verdict per source, and no
coded fault of the environment strikes a release that would pass) the last layer, `Verdicts`: what was rejected cannot pass,
so no accepted release hangs on a hidden snapshot. Without the assumption a
promotion may meet a purge that an earlier rejection began. From it follow
`AcceptedSourceRetained` and `LedgerRefined`: initial states map to initial
states, and every step to a step of `ReleaseLedger` or to a stutter.

### Signed commands

`SignedCommandProofs`. `CompletedMeansDone`, `AnswersAreTrue`,
`DoneMeansReplayable` and `PublishOnce` with no assumption on connections or
time; `AtMostOnce` and `NonceOneUse` under `Reliable` (requests end before their
payload expires, connections do not break). The invariant behind the last two is
that from its consumption to the end of the request the nonce row is the
handler's own, and that after a commit it stays so until the command expires;
without it `AtMostOnce` says nothing about a handler that is about to commit.
`FailureReleases` is proved for connections that do not break, whether or not
requests outlive their payload. Its invariant, `HeldInv`, names an owner for
whatever is held: a processing key belongs to a handler that will still complete
or release it, a consumed nonce to one that will release it or took effect, or
the owner died. `HeldStepOfOne` states once what one request's step has to pass
on; each action is then a check of that.

### Release lifecycle

`ReleaseLifecycleProofs`. What a process carries across its awaits may be stale,
but never claims more than the stored evidence admits: deployment evidence,
accepted commitments and verification only grow (`BackedGrows`), so a record that
was `Backed` when read stays so. `Inv` says this of the row, the mirror and every
process's hand. `ReconciliationAccepted`, `CommitmentIsDeployed` and
`MirrorNeverAhead` follow, and `QuarantineSticks` step by step. None of them is
inductive alone, for each is silent about a put or an update that is in a
process's hand and not yet done. `FailsClosed` needs more: that the mirror is
never laxer than the row, for which nothing may be written between a handler's
read and its put. A second layer proves it for the serial setting.

### Language server

`LspSessionProofs`. A task compares its snapshot's epoch with the session's
before it uses a result; `Snapshot` says what an equal epoch implies (the buffers
are the same) and, for publications, what an equal version of a document that was
not reopened implies (its text is the same). `Observed` and `Between` say that
between two passes over the files there was a moment at which no file was behind
the first observation or ahead of the second; two equal passes are then one state
of the disk, which is `NoTornWorkspace`. `OneAnalysis` counts the tasks between
start and install. `AnswersAreCurrent` is the same argument for queries, with the
last watch notification as the bound on how old a file may be.

### Lockfiles

`LockFilesProofs`. A replacement owns the temporary it created: `ProcOK` ties
each step of an apply to what its temporary holds, `Exclusive` says that no two
processes are past the creation of one name. Hence only whole files are renamed
(`AppliesNeverTear`), for any number of overlapping plans, applies and kills. For
a command that nothing ran beside, `SoloOK` says which locks are new and which
are as found at each step, forward and restoring; `AppliedOrRestored` and
`CrashLeavesAPrefix` are its consequences. `StampedBuildIsOfThisGraph` holds while
commands do not overlap, from a layer that says that of the file and of what the
one running command has read.

### Compile cache

`CompileCacheProofs`. The processes share nothing but files, and a file is read
while it is made, filled, removed and made again. `CacheInv` says what each file
can hold: its writer's name until it is written, then only what belongs to the
entry's key; and of each process that its key is that of the sources, that the
artifact in its hand is one of its key, and that a lookup half way through has
read such an artifact or an unfinished file. `ResultIsOfTheseSources` follows when
no source is edited during a compilation (`Steady`); without that condition
`NoHalfWrittenResult` remains, that no artifact comes out of an unfinished file.
The action property `NeverOverwritten` follows step by step: creation is
exclusive, a late `Write` fills only a file that still bears its own mark, and a
refreshed recency marker holds what it held. Neither needs to know how many
entries there are or which are evicted.

`KeepsMostRecent` does, and has two invariants on top of `CacheInv`. `LimitInv`,
for processes that overlap at will: a running process claims the entries it may
still evict or is itself responsible for, and the entries that nobody claims are
within the limit until a process is killed or a write fails; when all is quiet
nobody claims anything. Every process prunes for itself and spares its own entry,
so the number of entries alone is not invariant. `SeqInv`, for builds in
sequence: at most one process is underway, and `Phase` says for each of its steps
how the cache differs from the last keys used, which may be by one entry that is
being filled (`Filling`), by one too many (`Pruning`), or by one half removed
(`Removing`, `Unlinking`). Sizes are bounded by listing a set (`AtMost`), because
counting by induction is not available; the standard facts about `Cardinality`
are used once, at the end. For the same reason the recency order loses an entry
through `Drop`, defined by places, and not through `SelectSeq`.

### Linear ownership

`LinearOwnershipProofs`, for bodies of any length and depth and any names. What
the checker has at a point says nothing of a loop body entered a second time, or
of a branch that was left; the invariant `OwnershipInv` therefore relates every
path of every open block to two states, the one its innermost loop (or the body)
began with and the one the checker has now. From exactly the first, a path has
used nothing it may not, and either runs on in exactly the second or has jumped
in a state between the two (`Grows`). From any state in which at least as much is
gone, at least as much stays gone (`Covers`), so nothing is lost where the checker
found a scope complete. `SameAfterLoop` closes the interval: what is between two
equal states is that state, so a `break` or `continue` leaves a round as it was
entered. `RoundPass` shows that a round after such paths gives such paths again,
so more than two rounds add nothing. The merges are treated by what they need of
a block (`Merges`, `Leaves`), the statements by what they do to a frame
(`Statement`, `IsChild`, `IsChecked`); each action is then a check of that.
`NoUseAfterMove`, `StateIsPathIndependent` and `ScopesAreComplete` follow for the
body's frame. The exception in the first two, a path that `strayed`, is real:
section 5.

### Only model-checked

Liveness (`QueueDrains`, `TombstonesClose`, `ReservationsEnd`, `ClaimsExpire`,
`WorkerSettles`): fairness and `ENABLED` are outside the prover's reach.
`PackageResolver` and `PackageLock`: resolution is a recursive search, and what a
recursive definition computes cannot be proved there.

## 5. Disagreements met while modelling

Two runs show, with a trace, that the code does something else than a document
says:

- `command_lost_commit`: a commit succeeds and its acknowledgement is lost; the
  handler then releases the nonce of a command that took effect
  (`index.ts`, catch blocks), and a delivery under another key takes effect again.
  A publish is not affected (`PublishOnce`).
- `linear_loss`: a `return` in a branch, an arm or a loop checks nothing about the
  values in scope, and the merge takes the state of the branch that goes on; the
  returning path drops an available value. `docs/CELLSCRIPT_LINEAR_OWNERSHIP.md`
  says "Silent end-of-scope loss is rejected."

The following are stated in the modules, or plain from the code, and have no run
of their own.

Registry:

- `RejectedSourcePurged`: `requestStaticSync` reopens the job of a release whose
  purge is pending; the tombstone names an attempt and error the job no longer
  has, and no sweep closes it. Such a release can end as an exhausted
  infrastructure failure without a source.
- `OnlyStaleUndeployed`: the indexer undeploys a release because of an older
  deployment although a newer one was recorded while it verified; an undeployed
  release is not listed for reconciliation again.
- `RedeploymentAccepted`: `recordChainVerifiedDeployment` sets `status = 'deployed'`
  and keeps the current commitment of an active, on-chain-committed release; the
  projection check refuses that row. The in-memory store clears the commitment.
- `syncStaticRegistryVersionObject` re-reads the release and puts it in separate
  awaits, so a quarantine in between is overwritten in the mirror: `FailsClosed`
  holds only for the serial setting.
- The claim does not compare `attempt_count` with `max_attempts`, so a job whose
  workers die is attempted more often. Cleanup deletes the nonce of a payload that
  expires while its request is in flight (hence `Prompt`). An exception for one
  release ends a whole reconciliation pass, and the pass over current commitments
  stops at offset 10,000 where others page further.

Language server:

- `ShownSettles`: a worker publishes after it released the lock, so an older
  publication for the same version can arrive after a newer one, and stays.
- After an oversized change was rejected, a full replacement within the limit is
  ignored until the document is reopened.

Lockfiles and resolution:

- A kill while a lock is restored leaves its `rollback-<index>` temporary behind,
  and the next failing apply cannot restore that lock (`clean` in
  `AppliedOrRestored`); a kill in a forward replacement leaves a temporary that
  makes the same plan fail when it is retried.
  `docs/CELLSCRIPT_TRANSACTIONAL_UPGRADES.md` promises restoration without
  exception.
- Two applies of one plan at once can leave a mixture of old and new locks although
  one of them reported success. A build beside an apply can write back the old
  graph, or stamp a build of another. A plan's bytes and its candidate come from
  two separate readings.
- Every change of a registry version is reported as `UPG2002`, a downgrade never as
  `UPG2001` as the documentation has it.
- A path dependency whose version requirement is not met is locked, and refused by
  every locked build. A targeted update may bring in a yanked version without a pin,
  keeps a root alias that the manifest dropped, and may move a package that only the
  candidate's selection needs. The first instance met serves all later requests, so
  what resolves depends on the order of aliases.

Compile cache:

- `HitIsOfTheseSources` fails when sources are edited while they compile
  (`Steady = FALSE`): the result is filed under a key it was not made from.
- An eviction beside a store, or a kill, leaves an incomplete entry that is never
  completed and blocks its key.

Linear ownership:

- `strayed`: a branch that always returns is left out of the merge, also when a
  `continue` or `break` inside it leaves it another way.
  `while a { if b { consume x; if c { continue } return } else {} }` is accepted,
  and each round that continues consumes `x`.
  `docs/CELLSCRIPT_LINEAR_OWNERSHIP.md` says that loops cannot hide such changes.
- `if c { return }` without an else is refused whenever any linear name is in
  scope; reading a field of a consumed cell value is refused only for collection
  owners.

## 6. Not modelled

Registry: payload validation, signatures and quotas (one nondeterministic
refusal); what a build or a chain check computes (its outcome);
`reproduced_build` evidence and LS-IDL interfaces; sandbox expiry; the
maintenance lease; the sweep's paging cursor (a fair choice); many releases in
one reconciliation pass; chain reorganisations beyond a Cell that ceases to be
live. Authorisation sessions, namespaces and capabilities run in single
transactions under one row lock, so that no interleaving is left in them to check.

Tools: manifest and lock syntax, git sources, environments and digests; what an
analysis or a compilation computes from its inputs; the text ranges of
incremental edits; mtime ties in the cache, and the `source_units.json` beside
an entry; compiler requirements and the permissions for unverified or
quarantined packages in resolution. In linear ownership: cell values that leave a
body or a block as its tail expression, and labelled jumps; a `for` loop
differs from `While` only in the item it binds; the plain values in which branches or arms end are taken
to be of one type (`types_equal` refuses others, so that the model accepts more
bodies and what holds of them holds of the checker's).

Everything else is listed in `PROJECT.json` with its reason. By lines this is
most of the repository: the definitions of `map` stand for about 3,300 of its
287,000 lines of Rust, little over one per cent, and about 2,600 lines of
TypeScript. The lexer, parser, type rules, IR, optimiser, code generation,
simulator, artifact checker and certification tools are functions from one input
to one output. A state machine of them would have a single step, its reference
definition would be the code again, and TLC's instances would be far smaller than
the repository's own tests; what they would have to satisfy relates programs to
their compilations. Widening the mapped lines to such code would claim what is not
there.

## 7. Running

    tlc -config MCQueueShared.cfg MCVerificationQueue
    tlc -config MCLockFiles.cfg MCLockFiles
    tlapm LockFilesProofs.tla

`PROJECT.json` lists every run with its module and configuration, the source
lines behind every definition, a mutation of the code that breaks each property,
and the theorems. `CompileCacheProofs`, `LockFilesProofs`, `LspSessionProofs`
and `LinearOwnershipProofs` take ten to fifteen minutes each, the others at most a
few.
