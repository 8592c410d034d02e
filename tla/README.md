# A TLA+ model of AUTO-MAS Runtime

AUTO-MAS Runtime prepares and supervises a Python backend on Windows: every
invocation is a process of its own that performs one top-level operation
(`bootstrap`, `workspace sync`, `workspace stage`, `dependencies ...`, `cleanup`,
`doctor`, `backend supervise`, ...) on one application root and exits.  What these
processes share is the disk and two named mutexes.  The interesting behaviour is
in what happens when they overlap, when one of them dies in the middle, and when
the next one has to make sense of what it finds.  This directory models that, from
the core outwards.

## 1. Inventory

| Component (source below `src/`) | State | Operations | Interacts with | What makes it correct |
|---|---|---|---|---|
| `internal/lock` | two named Windows mutexes; per `Set` a pinned worker thread with `maybeOwned`, `activeKind`, `poison` | `AcquireBackend`, `AcquireMutation`, `AcquireStaging`, `Probe`, `Lease.Close`, `Set.Close` | every command | leases exclude each other; no mutex is leaked or released twice; no request hangs |
| `internal/gitrepo` | `repo`, `repo.update-<op>`, `repo.previous-<op>`, the records below | `Check`, `Sync`, `Stage`, `Swap`, `Recover`, `Restore` | lock, state, filesystem, mirror | one active revision, switched atomically; every interruption recoverable; no orphaned directory |
| `internal/state` | `update.json`, `mutation.json`, `backend.json`, `environment.json` | read, write, remove if unchanged, inspect (mutex and PID) | filesystem, everything above it | a record is published or not, never half; only its owner removes it |
| `internal/filesystem` | state files with guard and intent, pinned directory identities | `WriteAtomic`, `RemoveTransactionIfUnchanged`, `AtomicRename`, `RemoveTree` | state, gitrepo, cleanup | a crash between two steps leaves a set of files the next opener can classify |
| `internal/cli` | the records of a preparation, `environment.json` | `bootstrap`, `dependencies`, `repair`, `environment` | gitrepo, uv, state, protocol | `ready_to_start` only for what was prepared; a dead preparation leaves the environment broken |
| `internal/backend` | backend lease and transaction, process, control mailbox | supervise: preflight, spawn, health, control, one restart, shutdown | lock, state, process, health, protocol | starts only on a ready revision; process, transaction and lease end in order; the first terminal command wins |
| `internal/protocol` | sequence number, result flag, lifecycle machine, stdin reader with its ledger of ids | emit, dispatch, transition | every command | numbered events, one result that is last and true, legal state transitions |
| `internal/uv` | managed uv and its archive, Python, venv, installation marker | bootstrap, check, sync, rebuild | mirror, relay, process | a partial installation is never taken for a complete one |
| `internal/mirror` | measurements of the sources, the attempt under way, the `.part` file | plan, run, download | uv | no source is passed over; what is published is whole |
| `internal/relay` | chunk plan and workers of a fetch; shared fetches, slots, cache, staging lease | serve, fetch, close | uv | the pieces partition the file; a promised file is there; every request ends |
| `internal/health`, `internal/process` | counters of a check; Job, pipes, readers, waiter, watcher | check; start, wait, wait for an empty Job, terminate, close | backend | readiness is earned; no member of the tree outlives its Job; a result without an error is true |
| `internal/cleanup` | none of its own | delete caches and dead update directories | lock, state, filesystem | deletes nothing that a recovery needs |
| `internal/logging` | segments of the operation log on disk, the open segment of each process | open, record, rotate, retain, close | every command | the policy of retention is exact; a failure is recorded |
| `internal/doctor`, `telemetry`, `config`, `version` | read-only checks; events | | | no influence on the state above, except the mutex probe of `doctor` |

Hard behaviours, each listed with its line in `PROJECT.json` under `hazards`:
the order in which two mutexes are taken and probed; ownership that is uncertain
after a failed release; a crash between any two file-system calls of a swap, of a
recovery, or of the recovery of that recovery; recursive deletions that stop
halfway; records that outlive their directories and directories that outlive their
records; facts that are checked and used later (environment and revision before a
spawn, a staged update before its activation); staging next to a running backend;
a control command that is latched when it is queued and executed later, against
exits, health answers, interrupts and a stdout that breaks; goroutines that join
each other around a bounded queue; pieces of a file that several workers take over from
each other; a cache that evicts while others read; processes that break away from
their Job and keep its pipes open; a cancel that is accepted while the command
returns; log files that several processes rotate and delete at the same time.

## 2. Modules

    Leases        what the two mutexes promise            (abstract)
    Lock          EXTENDS Integers; refines Leases        internal/lock
    MCLock        Lock for TLC

    Activation      one active revision, replaced atomically   (abstract)
    WorkspaceState  trees, records, the running command        gitrepo, state
    Recovery        EXTENDS WorkspaceState                     recovery.go
    Workspace       EXTENDS Recovery; refines Activation       service, stage, swap, restore, clone, ...
    WorkspaceProofs EXTENDS Workspace, TLAPS               its theorems
    MCWorkspace     Workspace for TLC

    Mailbox         reader, control queue, forwarder           cli, protocol, backend
    Supervisor      EXTENDS Mailbox                            superviseControlled
    SupervisorProofs  EXTENDS Supervisor, TLAPS            its theorems
    MCSupervisor    Supervisor for TLC

    Register        one file, replaced at one moment            (abstract)
    StateFiles      refines Register                            filesystem: state files
    StateFilesProofs  EXTENDS StateFiles, TLAPS            its theorems
    Environment     venv, Python, uv and their records          cli, uv, state
    EnvironmentProofs  EXTENDS Lock, Environment, TLAPS     theorems of both

    Rotation        sources: probes, order, attempts            mirror
    Download        EXTENDS Rotation; one archive               mirror, filesystem, uv
    Chunks          one fetch from several upstreams            relay: fetch, chunk
    Relay           requests, shared fetches, cache, close      relay: server
    DownloadProofs  EXTENDS Download, TLAPS                theorems of it and Rotation
    RelayProofs     EXTENDS Relay, Chunks, TLAPS           theorems of both

    Managed         the process tree in its Job                 process, backend
    Health          EXTENDS Managed; the health check           health
    HealthProofs    EXTENDS Health, TLAPS                       theorems of both

    Logs            log segments of several processes           logging, filesystem
    Session         EXTENDS Logs; one command and its host      cli: session, protocol
    SessionProofs   EXTENDS Session, TLAPS                 theorems of both

Each of them has an `MC` module, except `Register`, `Rotation` (checked within
`Download`), `Logs` (checked within `Session`) and `Managed`, which is checked within
`Health` and by itself: `MCManaged.cfg` and `MCManagedDrain.cfg` are run with module
`Managed`.  `Lock` and `Chunks` carry their name in `LockSpec`, `ChunksInit` and so on,
as a module of proofs extends each of them together with another model; the two models
share no variable, and no theorem is about their product.

The first two parts compose through the promise of `Leases`: `Workspace` has one local
state `job` for *the* command that holds the mutation or staging lease, and its
commands except `workspace stage` require that no supervisor holds the backend
lease.  That is the content of `Leases`, which `EnvironmentProofs` proves of the
code's protocol for any number of processes.  `Supervisor` is one process that holds the
backend lease and looks at what happens inside it; the checks of its start against
the workspace are the `Backend*` actions of `Workspace`.  `StateFiles` shows that the
records `Workspace` and `Environment` read and write in one step are such registers.
`Environment` sees of a workspace sync only the step that switches `repo`, `Relay`
sees of a fetch (`Chunks`) only that it ends well or not, and `Managed` with
`Health` is what `Supervisor` has as `proc`, `cleaner` and the outcome of a check.
`Download` extends `Rotation` (the attempt of a rotation *is* a download), `Health`
extends `Managed` (a check looks at a Job that lives on meanwhile) and `Session`
extends `Logs` (a command returns in the middle of the maintenance of its log).

Operators named `Mutant_*` are not part of the model.  Each one stands before the
definition it varies and is that definition with a plausible bug; a property is
worth keeping only if it fails for some such variation (the pairing is in
`PROJECT.json`).

### Lock

`owner` and `depth` are the operating system's view of the two mutexes, the other
variables are the fields of `workerState` and the caller's unclosed lease.  A
request (`Request`) is a message to the worker thread; each Win32 call the worker
makes for it is one step (`Serve`), named after what it waits for: `waitPrimary`,
`waitPeer`, `releasePeer`, `dropPrimary` for `acquire`; `waitProbe` and
`releaseProbe` for `probe`; `releaseLease`; `closeBackend`, `closeMutation`,
`exit` for `finishWorker`.  Waits have timeout 0.  Everywhere the code reads
`ctx.Err()` a cancellation may be observed.  `ReleaseMutex` may report an error,
after which the mutex may or may not still be owned: the worker is poisoned, and at
its end its thread dies, which abandons what it owns.  A process may die between
any two calls.

Left out: the derivation of mutex names from the identity of the root, the
dispatch channel (a `Set` serves one request at a time, `dispatchMu`), generations
(a lease is released at most once and a `Set` has at most one, so the generation
in a release request is the current one).

### Workspace

A managed directory is a tree: missing, unreadable (go-git cannot open it),
invalid (opened, but no identity), or valid for a commit, whole or with files
missing.  `Inspect` reads Git metadata only and does not tell the last two apart,
`Restore` does.  `Eroded` is what an unfinished `RemoveTree` may leave and
`Unfinished` what an unfinished clone may leave.

Each action is one call that changes a file: it takes effect or fails, a state
write may fail *and* take effect (`MayWriteTx`, the `MutationApplied` of a
`WriteError`), and the command goes on, returns, or enters `finishPreSwap`.
`job` holds the locals of the command that are still needed.  `Recover` is entered
from several places (`CallRecover` with the step to go to on success and on
failure) and follows the plan `Plan` of `Recovery`, which transcribes the order of
the checks of `Recover`, `classifyPath`, `recoverBeforeSwap` and `recoverSwap`.

| Actions | Code |
|---|---|
| `BeginSync` ... `SyncVerified`, `FinishPreSwap` | `Service.Sync`, `finishPreSwap`, `preserveUpdateTransaction` |
| `FetchWrites`, `FetchSucceeds`, `FetchFails` | `Fetcher.Fetch` |
| `SwapRecord` ... `DropPrevious` | `Swapper.Swap` with the `CommitEnvironment` callback of `Sync` |
| `RemoveTx`, `RemoveMutation` | end of `Sync`, `finishUnchanged` |
| `Restore`, `Restoring` | `restoreOrFinishUnchanged`, `goGitRepositoryReader.Restore` |
| `BeginStage` ... `StageVerified` | `Service.Stage` |
| `Classify`, `Rec*` | `Recovery.Recover` |
| `PrepareSucceeds`, `PrepareFails` | what `bootstrap`, `dependencies`, `repair` leave in `environment.json` |
| `Cleanup` | `cleanup` of `repo.update-<op>` |
| `BackendCheck`, `BackendSpawn`, `BackendStop` | the supervisor's preflight and `recheckRevision` |
| `Crash`, `Damage` | a dying process; somebody deletes files below `repo` |

The command and the mutation lease are one thing here: `Crash` is the death of the
process (the lease is abandoned, `job` is lost, files stay).  The version is a
model value with one release branch; a branch moves, so a version may have several
commits.  `mutationTx` only records whether `mutation.json` holds a record of a
`workspace sync`, which is what stops the preparation commands.

Left out: fields and texts of errors and events; the choice of the mirror; the
state `development`; the case that the PID in a dead record is in use again (the
command is refused and nothing changes); the steps of a preparation, which are
`Environment`.

### Mailbox and Supervisor

A line of stdin goes through four hands: the reader goroutine (`reader`, with its
lock held while it is in "submit"), the bounded queue with the latch of the first
terminal command (`queue`, `terminal`, `stopped`), the forwarder goroutine
(`forwarder`, `parcel`), and a channel of capacity one (`results`) the supervisor
selects on.  `Mailbox` is these four; a command is its `commandId`.

`sup` holds the locals of `superviseControlled`: `pc` names the select statement or
the call it is at, `after` what follows a drain, a cleanup or the closing of the
channel, `err` the class of the error being handled, `snap` the snapshot that
answers `status`.  A branch of a select is an action, the order of the checks in
front of a select or an error is the order of the disjuncts and their negated
guards.  `proc` is the Job (no tree, root alive, root exited), `tx` is
`backend.json`, `cleaner` is `cleanupProcess`, which is a goroutine of its own
during a cancellation.  `life` is the last state event the host has read that is
not an answer, `owed` the accepted status commands without an answer.

| Actions | Code |
|---|---|
| `ReadLine` ... `SubmitFails` | `ControlReader.Run`, `ControlMailbox.Submit`, the reader goroutine of the session |
| `ReceiveCommand` ... `ForwarderStops` | `ControlMailbox.Receive`, `startControlForwarder` |
| `Acquire`, `Preflight*`, `Delay*` | start of `superviseControlled`, `awaitControlPreflight`, `waitRestart` |
| `Prelude` ... `Updated` | `startControlAttempt`, `awaitHealth` (`Health*`) |
| `Run*`, `Exited` | the running loop and the restart |
| `AnswerStatus`, `Drained`, `DrainEndsBadly` | `drainUntilTerminal`, the status branch of every select |
| `Resolve` | `resolveStartAttemptError`, `finishLatchedControl` |
| `KillTree`, `RemoveRecord`, `Cleaned` | `cleanupProcess` |
| `Close*` | `closeControlBefore...`, `closeControlAndDrain` |
| `BeginShutdown` ... `Shut`, `BeginCancel` ... `CancelDrained`, `EmitStopped` | `finishControlShutdown`, `finishControlCancel` |
| `EmitFailed` | `emitControlFailure` |
| `CloseResources` ... `Exit` | deferred calls, end of the session in `cli/backend.go` |

`Faults` says what may go wrong besides a failing check: stdout, the log file, a
panic of the reader, an interrupt, a cleanup step, the one-second limits of the
drains.

Simplifications.  The CLI always passes a control channel, so the path of
`Supervise` without one is not modelled; nor is the recovery of a stale
`backend.json`, nor the death of the Runtime in the middle.  The end of stdin, a
read error and a warning that cannot be written make the same implicit shutdown.
Repeated command identifiers have no effect in the code and do not occur.  A panic
of the reader falls only between two lines.  `cancelReader` and
`mailbox.StopAccepting` follow each other directly and are one step.  The drains
end without a result only when the channel cannot report any more, or when `slow`
lets their limits expire.  The close request is sent at the moment the exit of the
root is checked.

### StateFiles

One state file of one application root, in a directory several processes share.
`leaf` maps the three names a file can have (`dest`, `backup`, `temp`) to objects,
an object standing for an identity and the bytes sealed in it; `intent` is the
published intent; `pc` and `job` are where the call of each process is.  Each
action is one file-system call of `state_files_windows.go`, under the names of the
source: `recoverStateNamespace`, `createTemp`, `publish`, `renameBack`,
`renameCommit`, `rollbackState`, `undoTemp`, `undoIntent`, `dropBackup`,
`dropIntent`, `removeStateLocked`.  The guard is a lock in `pc`: shared for a read,
exclusive for what is in `Exclusive`.  A process may die after any of them, and its
handles are closed.  `Classic` says whether the volume lacks POSIX unlink: then a
deleted name stays until the last reader has closed it (`pending`), and both the
writer and the next opener meet it.

`Abstract` maps this to `Register`: the content is what `selectStateAuthority` would
choose if somebody opened the file now.  A write takes effect at one moment even if
its process dies, recovery and rollback are no effects, and a report is true
(`True`): a write knows what it did, a remove may be `unsure`.

Left out: reparse points and identities of foreign objects (the directory belongs
to the application), the codec, and files whose name no intent mentions.

### Environment

A command is a *script*, a sequence of steps with the stage each reports, taken from
the bodies of the commands in `cli`: `Bootstrap`, `Repair`, `SyncSteps`,
`RebuildSteps` and so on.  A step is one call with an effect (`mark` and `drop` on
`mutation.json`, `ensureUV`, `clearUV`, `installPython`, `syncVenv`,
`rebuildVenv`, `commit` on `environment.json`, the steps of a switch); it can fail
and the process can die before, after or in the middle of one that changes a tree
(`PythonErodes`, `SyncErodes`, `RebuildErodes`).  `uv`, `archive` and `python` are
absent, bad or good; `venv` is the revision it was synchronized with, bad or absent.
`Damage` is somebody else who deletes files, `CalmDown` the moment from which
nothing fails any more.  `hurt` is a history variable.

### Rotation and Download

`Rotation` has `Ranker.Plan` (one goroutine per probe, one budget), the order and
`Rotator.Run`.  What an attempt does depends on the kind of the plan: for Python uv
is given the source and comes back with an outcome, for the archive of uv it is
`Download`: the `.part` file with its handle, the request, the goroutine that reads
the body (`pump`, with what it offers in `chunk`), size and checksum, the join, the
rename, and `Abort`, whose deletion may fail and then leaves the handle open.

### Chunks and Relay

`Chunks` is `engine.download`: rounds of pieces, one worker per upstream, each
section under the lock of the plan one step.  A worker that finds no piece left
cancels the piece of a laggard (`demoteTailLaggard`) and waits for a change, or
ends; a piece that was cut short is given back.  If that fails the file is
streamed.  A unit of the file is absent, good or bad.

`Relay` is `Server`: a request takes one of `2 * MaxFiles` handler slots, joins the
shared fetch of its file or starts it, waits for it, reads the file; the fetch
takes one of `MaxFiles` slots; a finished fetch evicts what nobody refers to;
`Close` goes through the shutdown of the server, the wait for the fetches and the
removal of the staging directory, and gives up where the code does.

### Managed and Health

`Managed` is one attempt of the supervisor, from `StartManaged` to the end of
`cleanupProcess`: the root is created suspended, put into the Job and resumed; it
starts a worker (in the Job) and either may start a game that breaks away and keeps
the write ends of the pipes.  `reader`, `waiter` and `watcher` are the goroutines of
`managed.go` and `managed_windows.go`, `flag` the channels they close and the errors
they note.  `Health` adds `Checker.Check` with the goroutines of a request and of a
probe, the timer and the counters.  In the composition
a cleanup begins when `Check` has returned.

### Logs and Session

`Logs` is the operation log of one command, written by several processes: `dir` are
the segments on disk with their entries, `open` the one each process appends to,
`log` where its `Logger` is.  The listing, each removal, the comparison of the size,
the append, and the exclusive creation are steps of their own, because another
process can act between them.  `selectRetentionRemovals` is `Removals`; the records
of the maintenance are written by the same `appendFileLocked`, so they can fill a
segment and ask for one more pass.

`Session` is `runOperationSession` and the goroutine of `ControlReader.Run`: `main`
is the command (hello, work, the deferred `Close` of its log, the end of the
operation, `StopAccepting`, the answer), `reader` and `control` the reader with
`workspaceControl`, `output` and `wire` the `ProcessOutput` and what the host has
read.  `errs` are the classes of the errors that were joined, `classifyFailure` the
order in which the code looks for them.  What the command itself does is a choice of
events and errors.

## 3. Runs

| Run | Instance | Question |
|---|---|---|
| `lock` | 2 workers, `FairLockSpec`, 191 k states | mutual exclusion, a closed `Set` owns nothing, refinement of `Leases`, every request ends; `IndInv` of the proof |
| `workspace` | 3 commits of 2 versions, 2 operations, 272 k states | no orphaned directory, no lost repository, stale readiness covered by a record, recoverable swaps; refinement of `Activation`; order of invalidation and deletion |
| `supervisor` | a status, a cancel, a shutdown, end of stdin, queue of 1; all faults, 8.8 M states | mutex and `backend.json` outlive the tree, stopped means gone, a latched command reaches the supervisor and decides; legal lifecycle as the host reads it (section 5, 8, has its exceptions); a shutdown asks before it terminates |
| `supervisor_ends` | two status commands, `FairSpec`; interrupt, 360 k states | an accepted terminal command, or an interrupt, ends the process; every accepted status is answered |
| `state_files` | 2 processes, 3 payloads, classic unlink, 386 k states | every rest is recoverable; refinement of `Register` |
| `environment` | 2 revisions of 2 versions, 525 k states | damage is recorded, ready means usable, and once nothing fails the commands converge |
| `download` | 2 sources, 2 attempts, an archive of 2 chunks, 258 k states | what is published is whole, nobody is skipped, results are true, runs end |
| `chunks` | 2 upstreams, pieces of 2, 2 and 1 units, 713 k states | the pieces partition the file, a delivered file is whole, a closed relay ends a fetch |
| `relay` | 3 requests, 2 files and an index, 1 fetch, a cache of 1, 292 k states | a promised file is there, every request ends |
| `health` | 1 pipe, 1 line, 2 successes, 2 probe errors, 1.7 M states | processes run only in their Job, results are true, readiness is earned, a cancel kills the tree |
| `session` | 2 control lines, 1 event, 1 entry; 3 processes on 3 segments per day, 4.9 M states | the host reads one whole answer; the retention policy is exact |
| `session_record` | same | *violated*: a failure is recorded in the operation log |

More configurations lie beside them.  `MCManaged` (two pipes, without the check, under
the fairness of all goroutines, 737 k states) holds: `WaitTellsTheTruth` speaks of both
pipes there, `StoppedReadersEnd` and `CleanupEnds` are liveness properties of the end of
a cleanup.  `MCLockProbe`, `MCWorkspaceRules`, `MCSupervisorRules`, `MCSupervisorSteps`,
`MCEnvironmentRebuild`, `MCChunksEnds`, `MCRelayIndex` and `MCManagedDrain` show the
divergences of section 5: each lists properties that do not hold, and with `tlc
-continue` all of them are reported. (`MCRelayIndex` also lists `CacheIsBounded` and
`LeaseOutlivesFetches`, which hold.) The type invariants, such as `TypeOK`, hold in all
of them; a run has the properties that say more.

Bounds.  `lock`: a conflict is between two workers, which each wait for, own or
probe either mutex; the proofs cover every number of them.  `workspace`: three
commits are base, target of the same version and target of another version; with
two operations one can have left directories and records while the other one
starts, and `Unused` keeps the code's own condition that an operation identifier is
new.  No step counter is bounded: crashes, retries, damages and recoveries may
happen any number of times, the state space is finite by itself.  `supervisor`: the
queue has room for one command instead of 64.  Between the reader and the
supervisor there is room for three more commands (in the channel, with the
forwarder, in the queue), so that with two status commands, a cancel and a shutdown
the reader can sit in `Submit` with its lock held when the supervisor has taken the
first of them and wants to close the channel; with one status command the queue is
full, but never at that moment.

`state_files`: three payloads are an old object, one that replaces it and one that is
written after a crash; the number of reads, removes and deaths is not bounded.
`environment`: two revisions of different versions make a record foreign; crashes and
failures are not bounded.  `download`: with two sources one fails before the other one
is asked, and a retry falls before the switch.  `chunks`: three pieces for two workers,
so that one worker has nothing left while the other is in the middle of a piece of two
units, of which it can give one back.  `relay`: two of three requests hold handlers, one
waits; two files compete for a cache of one.  `health`: two successes and two probe
errors, so that a counter is reset between them; one pipe, as a check does not look at
the pipes (`MCManaged` has two, of which one can be read to its end while the other one
is kept open).  `session`: two lines are a command and its repetition, two different
commands with one id, or an invalid line between; the capacity of a segment is two
entries (in the code 128 MiB), two segments are kept, a segment of the day before is too
old after midnight.  The segments are full when the retention pass of another process
wants to record what it removed, which is the case the second pass exists for.

`session` starts in two kinds of states `Spec` reaches: the other processes could not
open a log and the command begins, or the command could not say hello and the others
begin.  Their product is out of reach; they share nothing but `Logs`, whose failures
are free choices in the first kind.  It is also the only run with symmetry (ids, and
the other processes), which is sound as it checks invariants only.  No run uses a state
constraint.

Fairness.  `lock` assumes weak fairness of `Serve(w)`, the steps of
a worker thread that is serving a request.  Each of them is a call with timeout 0
or an internal step, so a scheduled thread takes it.  No fairness is assumed for
requests, crashes or the other process.  `supervisor_ends` assumes that each
goroutine of the Runtime that can take a step takes one: the supervisor (whose
waits are all bounded by a timer or a context, except the running backend), the
cleanup, the forwarder, and the reader once it has a line; not that a line comes,
that the backend exits, or that anything fails.  `environment` assumes that a command
which was started goes on and that the host offers `bootstrap`, `repair` and
`workspace sync` again and again (strong fairness of their starts, as they are
enabled only between commands); `Converges` starts from the moment nothing fails any
more.  `download` assumes that the caller goes on, since each of its waits has a
timer, that a probe ends with its context, and that the pump stops when its request
is cancelled; *not* that a server sends anything.  `chunks`: the goroutine of the
file and the workers go on, whose requests have a timer for the connection and for
each read.  `relay`: goroutines go on, slots are handed over, a fetch ends
(`CancelEndsFetch` of `chunks` has its part in that) and uv reads what it asked for.
`health`: only the start and the watcher go on, nothing is assumed of the processes,
the pipes or the sink.  `MCManaged`: the goroutines go on, a read returns when there is
a line or nobody is left to write, a sink returns once its context has ended, and the
budget of a cleanup runs out; nothing is assumed of the processes, which may live and
keep the pipes for ever.

All runs check for deadlock except two: in `health` the attempt is over when the cleanup
has ended, and in `relay` a closed relay with no request has nothing to do.  In
`session` the end is an action of its own.

## 4. Proofs

Every invariant and every action property of every passing run is a theorem, for all
values of the constants that meet the named assumptions (one theorem, of
`EveryStatusIsAnswered`, excludes a fault besides); so is every refinement.

**`EnvironmentProofs`, first half: `Lock`**, for every set `Worker` that does not
contain the two strings "free" and "abandoned" (`WorkerAssumption`):

* `LockInvariant`: `LockSpec => []IndInv`.  What a worker owns is a function of where
  it is in a request (`Owes`) as long as it is not poisoned; when poisoned or
  closing it may own less than `maybeOwned` says and never more.  `TypeOK`,
  `NoRecursion`, `OwnershipKnown` and `LeaseIsBacked` are not inductive alone:
  that a wait cannot recurse follows only from knowing that an unpoisoned idle
  worker owns exactly the mutex of its lease, hence `WorkerInv`.
* `LockImplementsLeases`: every step is a step of `Leases` or leaves `holding`
  alone.  A grant comes either from `releasePeer`, where the worker owns *both*
  mutexes, or from a staging request that found the peer held.
* `LockMutualExclusion` and `LockLeaksNothing` follow from the invariant.

`MutualExclusion` is stated over pairs of workers; the proof goes through
`LeaseIsBacked`, which says that an open lease is backed by ownership of its mutex,
and the step of a grant.

The other proofs are built alike.  Each defines an inductive invariant (`IndInv`,
or a name of its own where a module has two) as a conjunction of named parts, shows
with one lemma per action (or group of actions) that it is preserved, and derives the
properties.  TLC has checked every one of these invariants on the instance of its run.

**`StateFilesProofs`** (any processes, any number of payloads, both kinds of volume:
`ParameterAssumption`).  `EveryRestIsRecoverable` speaks of what is on the disk when a
process stops; it follows only from knowing, at each step of each process, which of the
names `dest`, `temp` and `backup` exist beside the intent.  `GuardInv` says that whoever
has the guard exclusively is alone with it, `WrittenInv` that objects are numbered in the
order of their writes, `NamesInv` which names there are with and without an intent (the
old payload stands, the old one is aside, the new one stands), `CallInv` what a process
has established at each label, and `HiddenInv` that an object whose write has not been
published is known to no reader and no remove: without it a refused write could not be
told from one that had an effect.  `StateFilesImplementsRegister` uses the same invariant:
the value of the abstract register is a function of the names and the intent, and each
step either keeps it or is the one moment at which it changes.

**`EnvironmentProofs`, second half: `Environment`** (any set of faults:
`RevisionAssumption`).  A command is a script, a sequence of steps of which each may fail
and be left.  What the proof needs of a script is said of any two consecutive steps:
`Pair` lists which step may follow which, `Joins` and `Path` carry it over the
concatenations of which the commands are made, so that each of them is looked at once and
the lemmas about the steps speak only of the step and the one that comes next.
`RepoInv` ties the records to the revision in `repo`, `JobInv` says what a command has
established at each step.  A state is `Exposed` when only a record keeps `environment.json` from telling a lie; `HurtInv` says that then there
is such a record, and that the command is not at a step before which nothing may be left
to repair (`Even`).  From `EnvInv` follow `DamageIsRecorded` and `ReadyMeansUsable`.

**`SupervisorProofs`** (any commands, any capacity of the queue, any faults:
`MailboxAssumption`).  `TerminalIsDelivered` is about the state in which the supervisor
selects.  To keep it through the reader, the bounded queue and the forwarder,
`ChannelInv` says that as long as a latched command has not been received (`Hot`) the
places from the reader to the supervisor hold it, in order, with the end of the channel
behind it (`InOrder`); `ReaderInv` ties the phases of the reader to them.  `DecisionInv`
relates the decision to the label the supervisor is at and gives `FirstTerminalDecides`;
`ProcInv` and `LeaseInv` relate process, cleaner, mutex and `backend.json` and give
`StoppedMeansGone` and `BackendIsCovered`.  `ShutdownIsGraceful` is an action property
that follows from `DecisionInv` at the steps that terminate.  `LifeInv` says what the
host has been told at each place of the supervisor, once the output is not broken; each
announcement is then an edge of the table, or the one from `ready_to_start` to
`backend_failed` that the code adds to it, which is `Lifecycle` (that `running` fails
only after the restart is not part of it and does not hold, section 5).
`EveryStatusIsAnswered` needs to know where an accepted status can be: `QueueInv`
(behind a shutdown and behind the end of the channel there is nothing), `OwedInv` (an
accepted status without an answer is still on its way) and `PlaceInv` (with nothing gone
wrong, nothing is on its way once the supervisor is behind its drain).  It is proved for
sets of faults without "slow", the expiry of the one-second limit of a drain: that limit
is what drops an accepted status, and the property is about runs in which nothing fails;
`supervisor_ends` has no such fault either.

**`WorkspaceProofs`** (any commits, versions and operations: `WorkspaceAssumption`).
`TxInv`, `TreesInv`, `EnvInv` and `BackendInv` speak of what is on the disk, which is what
a crash leaves: which records there can be, which trees a swap has and what they hold, and
that an environment is ready for the active revision unless a swap owes its invalidation.
While a command is under way more is true: `JobInv`, `CallInv`, `RecoveryInv`, `SyncInv`,
`FetchInv`, `SwapInv` and `StageInv` say,
label by label, what it has established.  The step that needs most is a recovery: that
it may delete a tree rests on what it has classified some steps before, and on nobody
else having changed that since, which is where the leases enter.  From it follow
`EveryTreeIsNamed`, `NeverWithoutARepository`, `StaleReadyIsCovered`, `RunningIsReady`,
`SwapIsRecoverable`, the order of `RetiredOutlivesReady`, that a completed stage of the
running revision stays as it is, and the refinement of `Activation`: the active revision
is the one a recovery would leave in `repo`, so retiring `repo` keeps it, the rename that
puts the target in place replaces it, and neither happens under a running backend.

**`HealthProofs`** (any nonempty set of pipes, any number of lines, successes and probe
errors: `ManagedAssumption`, `HealthAssumption`).  `MInd` is the invariant of `Managed`:
`JobInv` (who is in the Job, and when it may be closed), `CleanInv` and `ErrorInv` (what
a cleanup has done and which error it has left), `PipeInv` (lines in a pipe, with a
reader, or thrown away with an error), `CutInv` (the pipes are closed only when no
member of the tree lives, and none comes to life after that) and `ResultInv` (the result
waits for the root and for every reader).  They give `WaitTellsTheTruth`, which does not
say that nothing is lost when `stopReaders` has closed the pipes: the processes that may
still have written are not of the tree, but a slow sink may have left lines, too.  Every
step of `Health` is a step of `Managed` or leaves its variables alone, hence
`AttemptInvariant`: what holds of a process holds below a check too.  `HInd` adds the
check: `HelperInv` (its goroutines) and `CountInv` (as many of the last requests were
good as the counter says), from which `ReadyIsEarned` follows.

**`DownloadProofs`** (`CatalogAssumption`, `AttemptsAssumption`, `SizeAssumption`).
`PlanInv` says that a plan is an order of the sources and that its index stays inside;
that an order as long as the finite catalog leaves no source out is counted, by a
pigeonhole argument.  `AskedInv` accounts for the attempts at each source, `KindInv` for
which failures end a source, `TransferInv` and `FinalInv` for what the `.part` and the
final file hold.

**`RelayProofs`, first half: `Relay`** (`IndexAssumption`, `RequestAssumption`, `LimitsAssumption`).
`LineInv` says that the lines of the two channels hold exactly those who wait there,
`AskInv` what a request has been told, `MapInv` and `DiskInv` how map, fetches and
directory agree, `CloseInv` what can still begin at each step of `Close`, and `BoundInv`
that a map above its limit has an entry in use, whose release trims it (by cardinalities).  `CacheIsBounded` and
`LeaseOutlivesFetches` are checked by `MCRelayIndex`.

**`RelayProofs`, second half: `Chunks`** (`UpstreamsAssumption`, `SizesAssumption`).  The steps of a worker
fall into a few kinds (it takes a piece, writes a unit, gives back what is left, is
overtaken), and the lemmas are about the kinds: `HeldInv` says what a worker holds at
each label, `Disjoint` that no unit has two holders, `Covered` that none is without one
unless it is written, `Written` that what a worker says it has got is in the file,
`PhaseInv` when workers may run and what a file that is about to be published holds.  `PiecesPartition` shows that the pieces into which a file is cut are a
partition of it.

**`SessionProofs`** (any processes, ids, numbers of lines, events, entries, days, segments
and any retention: `RetentionAssumption`, `BoundsAssumption`, `MeAssumption`,
`LinesAssumption`).  `PolicyIsKept` shows that the files a pass chooses are those the
policy means, by rank: the newest segments are counted by an injection into an interval.
`OpenInv` says which segment a logger has open, `NoteInv` what it has seen of it at each
step, and `KeepInv` that more segments than are kept are there only while somebody is
`Due` to remove them or has reported that it could not.  Each step
of `Session` is a step of `Logs` or leaves its variables alone, so `LogInvariant` and
`RetentionIsKept` are theorems of `Spec`.  For the answer, `OutputInv` counts what the
host has read (numbered without a gap, nothing after a result), `ControlInv`
relates the reader, the cancel that was accepted and the operation that ends, and
`EndInv` says what is on the wire at each step of the end of a command.  The run explores the
command and the other processes in two kinds of initial states; the theorems start
from every initial state and cover their product.

Only model-checked.  Liveness, as TLAPS 1.4.5 has neither `ENABLED` nor fairness:
`EveryRequestEnds` of `Lock` and of `Relay`, `SupervisionEnds`, `Converges`,
`EveryRunEnds`, `CancelEndsFetch`, `CancelKillsTheTree`, `StoppedReadersEnd` and
`CleanupEnds`.  Two parts of type invariants that are stated with folds over sequences,
the order of the sources in `Chunks` (injective) and `recent` in `Relay` (`SelectSeq`):
what a fold computes needs an induction over the sequence, which the provers cannot use.

## 5. Where the documents and the code differ

`session_record` is a run, with its details and quotations in `PROJECT.json`.  The
others are the unlisted configurations named here.

1. `session_record` (cli/session.go:441): a failed command is to leave an error record
   in its operation log (doc/任务拆分.md:1123).  The commands close their log with a
   `defer`; the record is attempted after they have returned and is refused by the
   closed `Logger`, and that error is dropped.  The test of it uses a log whose
   `Close` does not close.  (`workspace sync` and `stage` bind no log at all.)
2. `MCChunksEnds`: a fetch is to end in bounded time (doc/契约补充-v1-增补2.md:131).
   `demoteTailLaggard` cancels the laggard and unlocks before the worker that called
   it reads the change channel: if the laggard ends in between, its wake-up is lost
   (relay/chunk.go:184).  And a demoted upstream that fails later is not marked
   failed (chunk.go:428): if all others have failed the rounds repeat for ever.
   Closing the relay ends both (`CancelEndsFetch`).
3. `MCEnvironmentRebuild` (cli/environment_support.go:195): an interrupted rebuild is
   to be continued (doc/架构设计.md:1941).  After a swap whose write of
   `environment.json` was lost, a `dependencies rebuild` or `repair` of the new
   revision that dies leaves a record of another version than `environment.json`;
   bootstrap, repair and dependencies are refused from then on, until a
   `workspace sync`.
4. Two steps of `Environment` make a usable environment unusable without a record,
   and are excepted in `DamageIsRecorded` (`Untold`): the event after the deletion of
   the venv cannot be written and the deferred cleanup removes `mutation.json`; and a
   `workspace sync` overwrites the record of a dead `dependencies rebuild`.
   `environment.json` says ready in both; `ReadyMeansUsable` holds all the same, as
   `bootstrap` verifies before it reuses.
5. `MCLockProbe` (lock/probe_windows.go:62): `doctor` is documented to take no mutation
   lock; its probe owns the mutex for a moment, and a command that waits in that
   moment is refused.
6. `MCWorkspaceRules`, four rules of the recovery.  `UnfinishedCloneIsDeleted` fails when
   the branch of the installed version has moved, or when a deletion stopped at a
   directory that opens but has no identity.  `VerifiedUpdateIsDeleted` cannot be
   finished once its deletion was interrupted.  `InterruptedSwapIsRecovered` does not
   cover the state after the recovery has undone the swap and before it removed its
   record (recovery.go:597).  `CompletedStageIsUsable`: the record of a completed stage
   outlives its directory after `cleanup`, or after an interrupted discard, and blocks
   every later `bootstrap` of that version (stage.go:152).  In all four nothing is
   lost, and `Sync` returns `UPDATE_STATE_AMBIGUOUS` until somebody intervenes (in the
   last, until another version or another base is asked for).
7. `MCSupervisorRules`.  `StoppedIsReported`: the snapshot is set some calls after
   `starting_backend` was announced (control.go:1144, 1397), so a shutdown in between
   ends as stopped while that is the last state the host has read.
   `CancelledRestartIsReported`: a cancel during the preflight or the spawn of the
   restart leaves the host at `restarting` (control.go:853).
   `InterruptedStatusIsAnswered`: after an interrupt with an accepted shutdown, status
   commands accepted before it stay unanswered (control.go:736).
8. `MCSupervisorSteps`.  `AnswersAreCurrent`: for the reason of 7 a status may be
   answered with `ready_to_start` after `starting_backend`.  `FailureUsesTheRestart`:
   `running` goes to `backend_failed` without the one restart when the cleanup after
   the exit, the log, stdout or the reader fails (control.go:401); the transition table
   forbids that edge.  `OutputFaultIsGraceful`: with a shutdown already accepted, an
   output fault outside one branch of the running loop terminates the backend without
   asking it to close (control.go:1565).  `EveryEdgeIsPublished`: a failure of the spawn,
   or of what comes before it, is announced from `ready_to_start` (control.go:681, 401);
   neither lifecycle.go:14-44 nor 设计-T1.3 has an edge from there to `backend_failed`.
9. `MCManagedDrain`, about `stopReaders`, which is there so that a process that broke
   away cannot keep the supervision from ending.  `EmptyJobEndsCleanup`: `WaitEmpty` may
   find the Job empty before the waiter has closed `exited`; then it stops no reader, and `Wait` lasts until the
   budget of the cleanup has run out.  `SlowSinkLosesNothing`: it closes the pipes after
   a second whoever holds them (managed_windows.go:332-344), so when no process is left
   at all, the lines a slow sink has not yet taken are lost without an error.
10. `MCRelayIndex`: a request for an index that waits for a slot while the relay stops
   returns without a status, which net/http sends as an empty 200.

Met while modelling, without a configuration.  The deletion in `Abort` of a download
may fail and leaves the handle of the `.part` file open: every further source of the
run then fails in `Begin` and the run ends as `MIRROR_EXHAUSTED`.  An error of the
reporter after a publication makes the run fail with the archive in place.
`ManagedProcess.Wait` is said to cache a stable result, but a cancellation after the
end changes what later calls return.  The size of a segment is
compared before the append (runtime_logs_windows.go:466), so two processes may exceed
it by an entry each; and the retention passes over the active segment, so with an
older active one it takes newer segments instead.

## 6. Plan

Done: `Lock` with its contract and proofs; `Workspace` with recovery and its
contract; `Mailbox` and `Supervisor`; `StateFiles` with its contract; `Environment`;
`Rotation` and `Download`; `Chunks` and `Relay`; `Managed` and `Health`; `Logs` and
`Session`.  The last five parts replace what the first plan called `Emitter`,
`Relay`, `Rotation` and `Retention`.

Proved: the inductive invariants of all models, from them every invariant and action
property the runs check, and the refinements of `Leases`, `Register` and `Activation`.

Left: liveness and the two folds of section 4 stay with TLC.

## 7. Not modelled

`telemetry`, `version`, `config`, release checks and scripts keep no state that the
rest depends on.  `doctor` only reads, apart from its probe, which `Lock` has.
Paths, junctions and object identities of `filesystem` are one bit here: a
directory is the one its record means, because every rename and delete re-checks
the pinned identity and fails otherwise, which is the failing branch of the step.
Where a module abstracts a call to its outcome, the outcome is a free choice: the
network, uv, go-git, a response, the sink of a line.  The codecs (JSON, index pages,
HTTP ranges, command lines of uv), the comparison of measured speeds and the texts of
errors are not modelled.  A recovery of a stale `backend.json` and the path of
`Supervise` without a control channel are not modelled either; the CLI never takes
the latter.  Durability over a power failure is not promised by the code and not modelled.
Outside the prover's reach and left to TLC: liveness, `ENABLED`, and what recursive
definitions compute.
