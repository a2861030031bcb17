# Verification of OpenViking's coordination core

OpenViking is a context database for agents: an HTTP server in Python over a
virtual file system in Rust (`crates/ragfs`). Resources and memories are files;
background workers parse, summarise and index them. Most of the code is I/O,
parsing and calls to models. What has to be *right* under concurrency, crashes
and cancellation is a small core, and this project models that core in TLA+,
checks it with TLC and proves part of it with TLAPS.

Contents: [inventory](#inventory), [the modules](#the-modules),
[the runs](#the-runs), [fairness](#fairness), [the proofs](#the-proofs),
[disagreements](#disagreements), [what is left out](#what-is-left-out),
[plan](#plan).

## Inventory

### Path locks (`crates/ragfs/src/lock/`)

*State.* Lock files on the shared file system: `{dir}/.path.ovlock` inside a
directory, `{parent}/.exact.ovlock.{name}` beside anything else. A lock file holds
a token: owner, time, kind (`Exact` or `Tree`). In each process, a registry of the
leases it holds, and a background loop that refreshes them.

*Operations.* `acquire_batch` (normalise the requests; per request look at the
lock files that may conflict, create the directory, evict a stale token, create
the own token; then look at everything once more; roll back and retry until the
timeout), `refresh`, `release`, `handoff`/`adopt` of a lease between processes.

*Interaction.* Owners meet only through the file system; they may live in several
servers. The file-system wrapper (`wrapper.rs`) takes a lease for writes, removals
and renames, but not for `mkdir`. The queue handlers hold leases across jobs.

*Hard.* Every read and write of a lock file is a separate call; where a lock file
lies depends on a `stat` that may be stale; two owners may evict the same orphan;
a process may die anywhere; on localfs a write is a truncation and a write.

*Right means.* Conflicting leases are never held together; a lease keeps its
tokens, unless a recursive delete takes them along; failed, rolled-back and released
acquisitions leave nothing; what a crash leaves stops nobody for ever.

### Background tasks (`service/task_tracker.py`, `service/task_work_index.py`, `storage/queuefs/`)

*State.* A task record in the task store and, as a snapshot, in a bounded cache;
the durable messages of QueueFS (pending, processing, deleted); in memory the work
index: which messages a task owns, which workers are at them, which have failed.

*Operations.* `create`, `start`, `complete`, `fail`, `cancel`, finalization;
`enqueue`, `dequeue`, `process_dequeued`, `ack`; restart (`recover_stale`,
`rebuild`, `restore_work_tasks`); eviction of cached records.

*Interaction.* A submitter creates the record and enqueues a root message; its
handler starts the task, enqueues descendants, records a result, waits for them and
records the final result. Each ack takes the work out of the index first and, if
the task becomes idle, stores the terminal record before the message is deleted.
`cancel` records CANCELLING and cancels the registered workers.

*Hard.* Workers, tracker and index live on different threads and event loops; a
`task.cancel()` travels from one to the other; a write to QueueFS or the store
happens in a thread that a cancellation does not stop; a crash between any two
steps redelivers messages.

*Right means.* The last message goes only after the terminal record is stored; the
record becomes terminal only after all work has settled, and never changes after that; a
failed work item is not reported as success, while the server remembers it; a cancelled
task takes no new work; every task ends.

### URI mutation coordinator (`resource/uri_mutation_coordinator.py`)

*State.* The active access leases and mutation leases, and a condition variable.
*Operations.* `access`, `mutation` (enter, wait, leave, be cancelled).
*Interaction.* The watch manager and the watch scheduler take (nested) access
leases; the move of a resource takes one mutation lease over source and target.
*Hard.* Lost wakeups, cancellation of a waiter, nested leases against a waiting
mutation. *Right means.* A mutation excludes every overlapping lease, and every
waiter gets on.

### Watches (`resource/watch_manager.py`, `watch_scheduler.py`, `service/fs_service.py`)

*State.* Watch tasks in memory with an index from target to task; on storage the
store, its backup and a temporary file; in the scheduler the set of executions.

*Operations.* `create_task`, `update_task`, `delete_task`, pause and resume, the
rewrite of targets when a resource moves, deactivation when one is removed,
executions that come due or are triggered. All tasks are saved together in four
steps, each of which copies and removes files.

*Interaction.* Callers and executions take access leases of the coordinator, a move
takes a mutation lease over source and target; the move of the files and the rewrite
of the targets are one transaction with a compensation.

*Hard.* A crash inside a save or inside the recovery from one; a save that fails
after memory changed; a move that fails after the files went, or when part of them
has; moves between a resource and something else, which take no lease and leave the
watches alone; a removal cut short before its watches end.

*Right means.* No target is blocked or watched twice; a restart finds what was saved;
files and watches stay together and no file is lost; no resource is moved to another
under a refresh; a watch of something that is gone ends.

### Cached file system (`crates/ragfs/src/cache/`)

*State.* The backend; in a provider (memory or Redis) whole files and listings, each
with the generations of its path and ancestors; in the process a copy of the
generations, the scopes in bypass, and one in-flight mutex per key.

*Operations.* Reads and listings (probe, check the generations, load, fill), `grep`
(which reads each generation once), every change of the tree with its list of deletes
and bumps, raw copies within a mount.

*Hard.* A reader that loads before a change and stores after it; trees that go and
come back; provider calls that fail, or fail only for the caller; lost keys; a
provider that outlives the process.

*Right means.* A caller cannot tell the cached file system from a plain one.

### Sessions and commit (`session/session.py`, `storage/queuefs/session_commit_processor.py`)

*State.* Root messages and meta file of a session; numbered archive directories with
raw messages, phase-1 metadata, recorded progress, summary, `.done` or
`.failed.json`; one queue message and one task record per archive.

*Operations.* Append; `commit_async` (phase 1: marker, raw file, queue message, task,
root rewrite, meta, ready, under the Tree lock of the session);
`resume_queued_commit` (phase 2: recover an interrupted phase 1, wait for the
predecessor, extract memories and summarise at the same time, or one of the two, or
neither, as policy and configuration ask, merge the meta, write `.done`); cancellation.

*Hard.* A crash between any two writes of phase 1; recovery that judges by a root which
later commits have changed; redelivery, or a retry, after half of phase 2; phase 2
writes below a path that clients lock, without a lease and without waiting; an archive
that waits for one nobody works on.

*Right means.* No accepted message is lost; `.done` means that everything the commit
asked for happened, once; no archive stays pending with nobody to settle it; the task
tells the truth; every commit ends.

### The rest

The context a session reader sees and the auto commit, the semantic queue and its DAG,
content writing, VikingFS, user deletion, reindexing, git-style snapshots,
multi-backend file systems, the vector index, encryption, authentication, parsing,
retrieval, metrics, bot, CLI, SDK and web studio: `PROJECT.json` lists each with the
reason it is not modelled. Most of the repository's lines are there: they transform,
render or call models, and keep no state that several actors share.

## The modules

| Module | Models | State and actions |
|---|---|---|
| `UriMutationCoordinator` | the coordinator | leases, waiters and notifications; `acquire`, `wake`, `release`, `cancel` |
| `UriMutationCoordinatorProofs` | | theorems about it |
| `PathLock` | `lock/manager.rs`, `resolver.rs`, `provider.rs` | lock files, file tree, clock, one program counter per owner; one action per file-system call |
| `PathLockProofs` | | theorems about it |
| `TaskQueue` | tracker, work index, named queue, root handler | record in store and cache, messages, index, tracker calls, one program counter per message |
| `TaskQueueProofs` | | theorems about it |
| `FsTree` | trees of files and directories | what a backend's operations do to a tree |
| `PlainFs` | what a mounted file system promises | one tree, changes and reads in one step: the abstract specification |
| `CachedFs` | `cache/wrapper.rs` | backend, provider, generations, bypass, one label per caller; one action per provider or backend call |
| `CachedFsProofs` | | theorems about it, and that it implements `PlainFs` |
| `Watches` | watch manager, scheduler, moves and removals of resources | tasks, index, the three files, tree, leases; one action per step of a save, a move or an execution |
| `WatchesProofs` | | theorems about it |
| `SessionCommit` | `session.py`, the SessionCommit queue's workers | root messages, archives, queue messages, tasks, session lock; one action per write |
| `SessionCommitProofs` | | theorems about it |
| `MC...` | | instances for TLC |

Names follow the source; every definition that stands for code is mapped to its
lines in `PROJECT.json`. Definitions marked *Mutant* are plausible bugs: each
property is shown to fail when one of them replaces the definition it sits above.

**PathLock.** An *owner* is one `acquire_batch` call: without a lease to join each call
has a fresh owner id, so an owner acquires, holds and releases once. The labels of `pc`
are the points between file-system calls: `check` (reading the lock files of a request),
`take` (`try_acquire_one` reads the target), `evict`, `create`, `reread` (after a failed
create), `fill` (second half of a write), `verify` (second look), `held`, `release`,
`rollback`, `sweep` (look at the token in the way after a conflict), `backoff`. A check
reads lock files in groups (ancestors, the path, descendants), within a group in any
order. Paths are sequences of names, a token is owner, time and kind; encoding, hashing
of long names, retry delays and metrics are left out, as are file-system errors other
than "exists", "is a file" and "busy". Two constants describe the deployment: `Timely`
(no running owner is stalled for longer than `lock_expire_secs`, which the refresh loop
at a third of it aims at) and `AtomicWrites` (memfs, s3fs; not localfs). `create`,
`remove` and `remove_all` are what a caller does under a lease of its own, for which the
wrapper takes no other. A step of `remove_all` takes away any part of what is below the
directory, the whole of it included, with the lock files there: that of the lease
itself, and those of anybody else; `swept` remembers whose. A release that finds its
token gone passes over it, and leaves one that a rival has put there meanwhile (`Owns`).
`failed` is an acquisition that ended with an error or gave up, `done` one that was
released or timed out.

**TaskQueue.** Tasks share only capacity, so one task is modelled. A step is what
happens between two suspension points, and steps of different threads interleave.
`store`, `cache`, `work`, `active` and `failure` are the fields of tracker and
index; `queue` is where a message is; `call` is the tracker operation of an actor
(a handler, a worker that finalizes before its ack, a client) between its check,
its lock, its store write and its publication. `cancelled` holds the
`task.cancel()` calls that are on their way. A message that nobody acknowledges any
more is `stuck` until the next start. Of a record only status and the presence of
result and error matter. Abstractions: the root handler is that of `add_resource`;
the worker and the handler coroutine it runs on the service loop take a
cancellation in one step; reading a record back into the cache is one step;
requeues (which make new work ids) and `clear()` (which has no caller) are left out;
expiry of terminal records after hours is left out.

**UriMutationCoordinator.** The condition's lock is never held across a suspension
point, so acquiring, waking and leaving are one step each; `notified` is what
`notify_all` did. Leases nest as the callers nest them.

**CachedFs.** A caller's label is the provider call it is about to make; who holds
`operation_lock` and the in-flight mutexes can be read off the labels. A change is the
backend call followed by its list of deletes and bumps, one step each. A provider call
that fails may have been carried out or not, and puts its path into bypass.
Generations are pairs of the epoch of a process and a counter, so that a restart
draws new ones. Abstractions: a listing's entries carry the content of their files
where the code has size and time; hash collisions of keys, size limits and the
splitting of a grep into parallel batches are left out; a put that fails is an eviction;
`chmod`, `truncate` and partial writes are writes. `CleanRestarts` says that a process
stops only when idle and with nothing in bypass. `PlainFs` is implemented with the
variables of the same name: `disk` is the backend and `answer` the last reply.

**Watches.** Processes are the callers, one execution per task and the start-up. The
leases are used by what `UriMutationCoordinator` promises. The manager's lock is held
through a save, and a failed save goes where the code's `except` goes: memory keeps the
change, a move is undone. A torn copy is readable by nobody. `Resources` are the URIs of
resources: only these are watched, and a move between two of them is the transaction
`mv`; any other is `mv_unwatched`, without a lease, in one step. A move is a copy, the
update of the vector store and a removal; one that fails leaves any of the states in
between (`PartlyMoved`). `strays` remembers what moves without a lease have brought.
Retry loops that look again after a lease was granted are the step their last round is.
One account; sources, intervals and authentication are left out, so a task is due
whenever it is active. The URIs are finite in the instances, so a move is asked for only
if what it carries, there and back, has a place among them, and neither of two different
URIs may lie below the other (`Fits`, a bound on the inputs; the code has no such
check).

**SessionCommit.** Messages are numbered in the order of sending, so a set carries its
order. `Splits` are the ways retention can divide the root: a suffix stays, or a suffix
and the user message of a turn that was too large, which is archived as well. A client
call that holds the lock and writes nothing of interest (`update_config`, a commit
with nothing to archive) is `Hold` and `Release`. Writes of phase 2 go through
`WriteOk` and fail through `WriteFails`: the wrapper's automatic lock has a waiting time
of zero, so they fail while anybody holds the session. A failing `.failed.json` makes
the handler raise, and its message is `stuck`: not acknowledged, not delivered before a
restart. `PhaseOneReady` and `PhaseOneLost` are the outcomes of recovery, one step each
as recovery holds the lock. A task is settled when its outcome is recorded; what the
tracker does between that and the ack is `TaskQueue`'s. `asked` is what a commit's memory
policy, which the queue message carries, and the configuration want done: the
summary, the memories, both or neither (working memory disabled; no compressor,
extraction disabled, an empty scope, no types or no messages for it). What is not asked
for counts as done at the start (`Begin`), so that the meta is merged and `.done` written
without it. The configuration is taken to stay what it was over a restart. A summary that
comes out empty succeeds without a write. The long-term step stores the
memories (`ApplyMemories`), then trains, then is recorded (`RecordStep`); it may fail
before or after the storing, and if the error is transient the whole step is run again
(`StoreAgain`; a retry of a step that stored nothing changes nothing). `exposed` counts
the crashes and retries in the window between storing and recording.

## The runs

| Run | Instance | Shows |
|---|---|---|
| `uri_leases` | 3 coroutines, nesting 2, a directory, its child, a move's pair of scopes, the empty scope | `MutationIsExclusive`, `NoLostWakeup`, `WaitersLeave` |
| `path_locks` | 2 owners; subtree, directory, file and mixed batches; recursive deletes; 1 crash; clock 0..3, expiry 1 | `Exclusion`, `NoLeftovers`, `HeldTokens` |
| `orphaned_tokens` | 2 owners, two-step writes, 1 crash, fair | `OrphansExpire` |
| `torn_refresh` | 2 owners, two-step writes | violated: `Exclusion` |
| `task_lifecycle` | root and 2 descendants, 2 crashes, 1 failing write, escaping exceptions, eviction | `LastMessage`, `SettledFirst`, `FailureWins` |
| `task_ends` | root and 2 descendants, 1 crash, fair | `TaskEnds` |
| `cancel_safe` | root and 1 descendant, 2 cancels, 1 crash, 1 failing write | `TerminalIsFinal`, `NoNewWork` |
| `cached_fs` | 2 callers, 4 paths (one not cached), 2 contents, 3 calls, 1 mishap | `ActsAsPlainFs` (refinement), `BelievedIsCurrent`, `GrepIsRecent` |
| `watches` | 2 callers, 2 tasks, 4 URIs of resources and 1 of a memory, 2 calls, 1 failed step or crash | `IndexMatches`, `RestartKeepsSaved`, `MoveIsAtomic`, `NotMovedUnderRefresh` |
| `stale_watches` | 1 caller, 2 tasks, 1 call, 1 failed step or crash, fair | `StaleWatchesEnd` |
| `session_commit` | 2 messages, 2 archives, 2 workers, commits that ask for both steps or for none, 1 crash, 1 failing write or retry | `NothingLost`, `DoneIsWhole`, `NotStoredTwice`, `PendingHasWork`, `TaskTellsTruth` |
| `session_ends` | 3 messages, 2 archives, 2 workers, 1 cancel, no crash, no fault, fair | `CommitsEnd` |

Each module's `TypeOK` is checked with its first run. Further instances are kept as
configurations and are not part of the regular runs: `MCEvict.cfg` (3 interchangeable
owners and an orphan: `Exclusion` holds; it is a theorem now), and those named under
[disagreements](#disagreements).

Why the bounds suffice. *Path locks:* a conflict is between two requests, so two
owners show every race of two acquisitions; a third is needed only where two rivals
meet an orphan (`MCEvict.cfg`). Depth two (a directory and a file in
it) gives ancestor, same-path and descendant conflicts and both places of a lock
file. The clock runs for the life of a token and its expiry and leaves time after a
crash; batches of up to three requests, one of them redundant, exercise
normalisation and a rollback in the middle. *Tasks:* the protocol is about "the
last" work item, so the root and two descendants show an item that is last, one
that is not and one that comes later; a second crash hits the recovery of the first.
The cancellation runs need the canceller, one handler that enqueues and one message
that is enqueued; a second cancel takes the path of a task already in `cancelling`.
*Coordinator:* one mutation, one nested access and one more rival are the smallest
setting of the deadlock a writer preference would cause. *Cached file system:* an
outdated object needs a reader, a change between its load and its fill, and a later
read: three calls of two callers; one mishap puts a failed call, a lost key or a
restart anywhere in between. *Watches:* a move conflicts with one execution and one
other caller; one task is stored at first and one created. Two failed steps are
too many for the save (see below), so one is what the code can promise anything for. The
memory gives moves that are not between resources, in both directions; the directory and
the file in it give copies and removals that stop half-way.
*Sessions:* order and waiting are between an archive and its direct predecessor, a
commit is interrupted by at most one crash and recovered under at most one more
failure; two messages give every split of the root into archived and kept ones. The two
steps of phase 2 are told apart by their results, so that both and neither are the cases
of the run; `MCSessionAnchors.cfg` has the policies with one of them too. In
`session_ends` a handler can raise only because the session lock was taken, as nothing
crashes and no write fails by itself. A turn
whose user message is archived and kept needs three: `session_ends` has it, and
`MCSessionAnchors.cfg` (three messages, one worker, a crash and a failing write) checks
the invariants of `session_commit` with it.
The theorems below remove
the bounds for every safety property of the runs but `GrepIsRecent`; for
`RestartKeepsSaved` all of them but the one on faults, which is what the code needs.

TLC's deadlock check is off where the system really may stop: a coordinator whose
coroutines have made their requests, a task that has ended, or whose messages are
stuck until a restart, and callers, clients and sessions that have spent their calls.

## Fairness

- `UriMutationCoordinator`: a woken coroutine runs, and a lease is left: event-loop
  scheduling, and leases are `async with` blocks around terminating work. Requests
  are bounded, as the code promises no progress against an endless stream of
  accesses.
- `PathLock`: the steps of an acquisition and its retries (tasks are scheduled) and
  the clock. Nothing obliges an acquisition to time out and nobody must release, so
  `OrphansExpire` is a statement about what crashed owners left. It asks for success, or for
a timeout while waiting for a token to expire; an attempt that fails counts as a
violation, so it excepts the empty lock file of a crashed owner (`blank`), at which every
later attempt does fail (`MCEmptyLock.cfg`).
- `TaskQueue`: workers, handlers and tracker operations go on. A handler's fairness
  says that its job terminates, which for the model calls inside it is an
  assumption. Cancels, crashes, faults, eviction and reads are never forced.
- `Watches`: processes go on, strongly where they need the manager's lock, which
  `asyncio.Lock` hands over in the order of requests; an active task comes due again
  and again (the scheduler's loop); a save goes on.
- `SessionCommit`: a commit and a worker go on, a client gives the lock back, the lock
  of a dead holder expires. A message that waits is taken although others are enqueued
  again and again (strong fairness of `Dequeue`): QueueFS hands out the oldest first.
  Nobody must append, commit or cancel.

## The proofs

All for arbitrary constants, from the named assumptions of the modules and the
hypotheses a theorem states. The assumptions say that the bounds are numbers, that the
value `None` is none of the things it stands in for (`NoneAssumption`,
`NobodyAssumption`, `NoRecordAssumption`) and a torn file no map of tasks, that there
are finitely many workers (`WorkerAssumption`), that paths and URIs are sequences of
names and the parent of a path is a path (`PathAssumption`, `UriAssumption`), that no
two tasks of the first store share a target (`WatchedAssumption`), and that "absent" and
"directory" are no contents (`EntryAssumption`, `MountedAssumption`). TLC evaluates them
on every run.

Each module has an inductive invariant, kept at its end (`IInv`, `SafeInv` and
`SettleInv`, `CacheInv`) as a conjunction of named parts. TLC found it invariant on the
run's instance before it was proved. The proof modules go from types to what
each step may change, then to one lemma per part of the invariant, then to the theorems.

### UriMutationCoordinatorProofs

**TypeCorrect** (`TypeOK`), **Exclusion** (`MutationIsExclusive`), **Wakeups**
(`NoLostWakeup`). `MutationIsExclusive` is inductive with the types and the fact that a
coroutine's leases are told apart by their depth; a lost wakeup is excluded because
whatever removes a blocker notifies every sleeper in the same step.

### PathLockProofs

- **TypeCorrect**: types, and what an owner has in hand at each label. No hypothesis.
- **NothingIsLeft** (`NoLeftovers`): every token belongs to a crashed owner or is on
  its owner's list. No hypothesis.
- **LeasesAreBacked** (`HeldTokens`): under `Timely` and `TreesAreDirs` (no Tree
  request on what may be a regular file), for every lease from which no recursive delete
  has taken a token. What is proved is that nothing else takes one, and that a
  delete, whoever runs it, is covered by a Tree lease of its own.
- **PathLocksExclude** (`Exclusion`): under these and `AtomicWrites`, again for the leases
  not in `swept`.

`Exclusion` alone is not inductive: it says nothing before both leases are held. The
inductive invariant `IInv` adds, in the order of the argument:

1. `NoneExpires`: only tokens of crashed owners are ever stale (from `Timely`);
2. `SeenIsDead`: a token about to be evicted belongs to a crashed owner;
3. `Resolved`, `BatchTrees`: the lock file in hand is one of those the request may
   resolve to, whatever the `stat` said;
4. `Backed`: every lock file on an owner's list carries its token, with its kind, unless
   the owner is in `swept`;
5. `OneClears`: of two owners whose acquired requests conflict, at least one has not
   yet read the other's lock file in its second look.

The lemma `CheckSets` is the heart of it: the lock files read for a request include
every lock file in which a conflicting request may have its token, with a kind that
counts. So when both owners have written their tokens, whichever looks second finds
the other's. The hypotheses are needed: `MCFencing.cfg`, `MCTorn.cfg` and the
tree-on-file case below each drop one.

### SessionCommitProofs

No hypotheses: any number of messages, archives, workers, crashes, failing writes and
cancellations.

- **SessionTypes** (`TypeOK`), **Durability** (`NothingLost`), **Completeness**
  (`DoneIsWhole`), **Honesty** (`TaskTellsTruth`), **WorkRemains** (`PendingHasWork`),
  **StoredOnce** (`NotStoredTwice`).

`NothingLost` is threatened by the rewrite of the root, and by a commit that would write
into the directory of another. Hence `FreshDirectory` (the directory of a commit is new,
and nobody works on an archive that does not exist) and `RootIsCovered` (until the
rewrite, what is archived and what is retained cover the root, and the raw file is there
from the enqueue on); recovery rewrites the root only from an archive with a raw file
(`WorkHasRaw`). `DoneIsWhole` needs `StepsAreReal`: what a worker remembers of its steps
is on disk. `PendingHasWork` is proved in the stronger form `KeepsWork`, which counts
only claims that will still lead to an outcome: a worker about to acknowledge is none,
and it has a marker or a new message behind it (`OutcomeIsWritten`). `DoneIsWhole` is
about what was `asked`; an archive for which nothing was asked may have `.done` and
nothing else. `NotStoredTwice` is a budget, `StoreBudget`: memories stored so far,
deliveries that may still store and workers that may, together, never exceed one plus
the crashes and retries in an exposed window. A delivery turns into a worker and a
worker into a stored result, so that each step moves within the budget.

### TaskQueueProofs

- **TaskTypes** (`TypeOK`: types and the lock of the task) and **TerminalRecords**
  (`TerminalIsFinal`), with no hypothesis.
- **NoWorkAfterCancel** (`NoNewWork`) for a record that is not evicted (`~Evicts`).
- **ClosedBeforeLastAck** (`LastMessage`), **SettledBeforeClosed** (`SettledFirst`) and
  **KnownFailureIsReported** (`FailureWins`) for a task nobody cancels (`MaxCancels = 0`).
  The last speaks of the failures the index knows, which are those since the last start:
  the same of earlier ones is false (`MCForgottenFailure.cfg`).

The hypotheses are those under which the runs check the same properties, and the
theorems fail without them: see the cancelled enqueue, the cancelled ack and the
evicted record under [disagreements](#disagreements).

`SafeInv` is about the record: the operation that has the lock has a draft made from a
record that is not terminal and is the stored one still (`DraftsAreFresh`), and cache and
store differ only between its two writes (`CacheAgrees`, `PublicationsAgree`).
`SettleInv` adds where messages are. Without cancellation the index holds exactly the
messages that are on their way or in a handler and those whose ack failed
(`Delivered`, `Indexed`, `Enqueued`); so an empty index means that the work has
settled, and it stays so while the finalization has the lock, as only a handler
enqueues and none runs (`FinalizesSettled`). The root leaves its handler with a result or
an error stored (`RootAnswers`), so that the finalization that follows the last ack
does close the task, and `SomebodyFinalizes` until it has.

### CachedFsProofs

- **CacheInvariance** (`CacheInv`), **Belief** (`BelievedIsCurrent`) and **Transparent**
  (`ActsAsPlainFs`: `CachedFs` implements `PlainFs`), for a process that is stopped only
  when idle and with nothing in bypass (`CleanRestarts`; the other restarts do bring
  outdated objects back, see below).

An object is believed when its path is not bypassed and its generations, one for each
ancestor, are the current ones. `Sound` says why that is safe: the generations of an
object lie behind the current ones (`Behind`), and if they match, the content is current
or the change under way still has a call to make that covers the object (`Due`).
Each kind of step keeps it for a reason of its own:

- a change of the tree: its list of calls covers every key whose content changes
  (lemmas `ContentDiffers`, `SubtreeShows`, `EntryShows` and one per operation), and no
  reader is under way, as the writer has `operation_lock` to itself;
- a bump makes the generation strictly greater, so nothing it covers matches again;
- a call that fails puts its path into bypass: objects there are no longer `Trusted`,
  and once no reader is left that started before, nobody asks for them;
- a lost generation is remembered by the process or begins anew with the epoch of the
  process, which no object carries;
- a reader holds `operation_lock` shared from its load to its fill, so what it stores
  is current;
- a clean restart has nothing due, nothing in bypass and an epoch no object carries.

The refinement follows: a backend call is the change of `PlainFs`, a reply from the
cache is the backend's content by `Belief`, every other step leaves both variables.

### WatchesProofs

- **WatchTypes** (`TypeOK`), **IndexIsExact** (`IndexMatches`), **RefreshIsUndisturbed**
  (`NotMovedUnderRefresh`) and **MovesAreAtomic** (`MoveIsAtomic`), with no hypothesis:
  any callers, tasks, URIs, failed steps and restarts. The last two are about moves of a
  resource to a resource; the other moves are steps of the model, and what they bring
  (`strays`) is the one thing that may be at the old place of a move after it.
- **SavedTasksSurvive** (`RestartKeepsSaved`), for one fault (`MaxFaults <= 1`). With two
  the property fails (`MCDoubleCrash.cfg`). Its invariant, **FilesAreWhole**
  (`SaveIsWhole`), holds for any number: it says what is on storage until something fails.

`IndexMatches` is threatened by the two steps that change many targets at once: the
rewrite of a move and its undo after a failed save. `IInv` says why both are safe, and
what other processes may do in between:

1. `LockIsHeld`, `LeasesExclude`: the lock is held exactly by the process that saves, and
   a mutation overlaps no other lease;
2. `Known`: a move has a mutation over its two URIs from `validate` to the end of its save
   or rollback, and they do not overlap. Hence, by `MovesAreLeftAlone`, no step of
   another process gives a task a target below either, takes one away, or puts a file
   there (`Emptied`);
3. `HasRoom`: from the plan made before the files go until the rewrite, no task has a
   target that a task of the move will get. The rewrite therefore finds no conflict: the
   second `_plan_target_prefix_rewrite_unlocked` cannot raise its `ConflictError` after
   the files went (theorem **NoLateConflict**), and the action has no branch for it;
4. `CanGoBack`: while the save of a move goes on, the tasks with their old targets agree
   with the old index. The lock is held, so that this stays so, and a failed save restores
   an index that matches. The lemma `ThereAndBack` says that a rewrite and its reverse give
   the URI back.

For `SavedTasksSurvive` every step is put into one of four classes: it leaves tasks, files
and lock alone, it takes the lock for a save, it is a step of a save, or it is a fault
(`KeepsFiles`, `BeginsSave`, `SaveIsWholeGoesOn`, `IsFault`). So until the first fault the
store is readable, or there is none and the backup is, and both were promised.

### Only model-checked

Liveness (`WaitersLeave`, `OrphansExpire`, `TaskEnds`, `StaleWatchesEnd`, `CommitsEnd`)
is out of the prover's reach. `GrepIsRecent` has no proof yet. A violated property is
shown by TLC alone.

## Disagreements

Between the code and what its documents, comments or tests say. A listed run shows
`torn_refresh`; each of the others is reproduced by
`tlc -config <cfg> <module>`, which ends with a counterexample.

| Configuration, module | Violated | What happens |
|---|---|---|
| `MCTorn.cfg`, `MCPathLock` (run `torn_refresh`) | `Exclusion` | on localfs a refresh truncates the lock file before it writes it, readers take no lock, and an empty file counts as no token: a rival gets through |
| `MCRecursiveDelete.cfg`, `MCPathLock` | `ExclusionThroughDeletes` | a recursive delete takes the Tree token it runs under with the directory (`manager.rs:607-611` says so); a rival may make the directory anew and lock it before the lease is released, against "only one write operation can operate on a path at a time" (`09-transaction.md:13`) |
| `MCFencing.cfg`, `MCPathLock` | `OwnershipVerified` | `docs/en/concepts/09-transaction.md:314` has the owner verify its own token last; the code does not, and an owner stalled past the expiry is granted a lease without a token |
| `MCEmptyLock.cfg`, `MCEvict` | `OrphansAreCleared` | a crash between creation and write leaves an empty lock file that is never judged stale and makes every later create fail (`09-transaction.md:364`) |
| `MCForgottenFailure.cfg`, `MCTaskQueue` | `FailureOutlivesRestart` | the root recorded its result, a descendant failed and was acknowledged, the server restarts: `rebuild` begins without failures (`task_work_index.py:188-190`), the root is delivered again and the task stored as `completed`, which is "successfully completed" (`docs/en/api/17-tasks.md:17`) |
| `MCCancelStuck.cfg`, `MCTaskQueue` | `CancelEnds` | a cancellation that arrives during the ack ends the worker; the task stays `cancelling` until a restart, though clients are told to poll (`docs/en/api/17-tasks.md:230`) |
| `MCCancelSettles.cfg`, `MCTaskQueue` | `SettledFirst` | a cancelled enqueue is taken out of the index although its write, in a thread, goes through; the task becomes `cancelled` with a message left (`17-tasks.md:147`). `run_to_completion` in `task_tracker_concurrency.py` exists for this reason and is not used by `NamedQueue` |
| `MCRawCopy.cfg`, `MCCachedFs` | `QuiescentIsCurrent` | a copy within a mount writes below the cache and invalidates without `operation_lock`, and only the nearest of the parents it creates: a reader stores what it loaded before, and it is believed (`docs/en/guides/14-ragfs-cache.md:351`) |
| `MCDoubleCrash.cfg`, `MCWatches` | `RestartKeepsSaved` | a failed rotation and a crash in the copy that overwrites the store, or a crash in a save and one in the save that recovery makes, leave neither store nor backup; `.tmp` holds the tasks and is never read |
| `MCPlainMove.cfg`, `MCWatches` | `NeverMovedUnderRefresh` | `FSService.mv` between a resource and anything else takes no mutation lease (`fs_service.py:463-468`): it moves a resource away while its watch imports into it |
| `MCStoreAgain.cfg`, `MCSessionCommit` | `StoredOnceWithoutCrash` | the extraction stores the memories, the training after it raises a transient error, and `_run_retryable_phase2_step` runs both again, up to three times; the comment at `session.py:2544-2546` has progress recorded so that the step is not applied twice |
| `MCSessionOrder.cfg`, `MCSessionCommit` | `SerializedByArchive` | `docs/en/api/05-sessions.md:1405`: archive N+1 waits until archive N writes `.done`; `_can_run_archive` looks at the direct predecessor only, so when archive 2 is cancelled while archive 1 is extracted, archive 3 runs at the same time |

Seen with the same modules, without a configuration of their own:

- *Path locks.* The second look compares nothing, so the *earlier* owner may back off
  (the notes, lines 311-312, say the later one does), or both. A Tree lock on a regular
  file lies in a sidecar that locks below the path never read, should the file give way
  to a directory. A waiter whose rival releases between a failed create and the read
  after it fails with an I/O error before its timeout.
- *Tasks.* The delete of a cancelled ack goes through while the work is put back into
  the index: the ack of the really last message then finalizes nothing (`LastMessage`
  does not survive cancellation). A record in `cancelling` that newer tasks push out of
  the cache no longer answers that cancellation was requested (`NoNewWork` needs
  `Evicts = FALSE`).
- *Cached file system.* The scopes in bypass are only in memory: after a restart what a
  failed delete left behind is believed again (`CleanRestarts = FALSE`). The guide calls
  bypass short-term; nothing ends it. A write that fails in the backend after it
  truncated the file returns before the cache is invalidated.
- *Watches.* A store that cannot be read for a moment is replaced by its backup, which
  is one save older. Undoing a move onto an existing directory takes the files that were
  there along. A save reported as failed whose copy reached the store puts the targets
  at the new place after the next restart. An execution that found its source gone may
  deactivate a task that was resumed meanwhile, and an update by id after a move puts
  the watch back to its old target. A move, or its rollback, whose copy, update of the
  vector store or removal fails leaves files at both places, with the targets at the old
  one; nobody clears up, and a later attempt finds the remains. A directory or file
  moved onto itself is copied onto itself and then removed. A move between a resource
  and anything else leaves the watches of the resource where they were, active, until
  their next execution finds the target gone.
- *Sessions.* After one crash a message may be in two completed archives: commit N stops
  after the enqueue and before the root rewrite, commit N+1 archives the same messages,
  and then the recovery of N finds a root without them and takes its own rewrite for
  done. The other way round, an archive whose rewrite was done is given up if a later
  commit has removed what it had kept. While a client or a commit holds the session
  lock, phase 2's own writes fail at once; a failed marker that fails too leaves the
  message with a handler that raised, and the archives after it are enqueued again and
  again until a restart (`CommitsEnd` excepts this). A cancellation before phase 2
  starts acknowledges the message and writes no marker. A graceful shutdown cancels
  phase 2 and marks it failed, so that it is not resumed. `05-sessions.md:1406` has a
  commit refused with `FAILED_PRECONDITION` after an archive that failed; the code
  accepts it, and so does the model. A summary that comes out empty is not written, and
  `.done` says all the same that working memory was enabled; `_scan_archive_states`
  (`session.py:3183`) then takes the archive for a failed one, though its task is
  completed. Nothing stores the memories of such an archive again.

## What is left out

Clock skew between servers (the model has one clock; nothing in the code bounds the
skew); file-system errors and failing rollbacks of path locks; reentrant acquisition,
`handoff` and `adopt`; renames of directories with their tokens, and the leases the
wrapper takes itself for an operation without one; several tasks at once,
`create_if_no_running`, deletion of records; the scheduler's batches and its `stop()`,
starvation of a mutation lease by accesses; for watches the moves of their own control
files, a directory moved below or above itself (`Fits`), a service without a watch
manager, and writes to resources other than imports, moves and removals; in sessions
deletion, a configuration that changes over a restart, archives of older versions
without phase-1 metadata, raw files that are missing or corrupt, an unreadable archive
meta (the code treats it as empty), and the index kept in memory (it is never above the
directories that exist); everything listed as `not_modelled` in `PROJECT.json`.

## Plan

Done: the modules above, and the proofs of every safety property of the runs but
one. Proofs next:

1. `GrepIsRecent`: the memo of a grep is not older than its start.
2. `LockSpec`, the abstract lock whose acquisition is one step, implemented by `PathLock`:
   `Exclusion` and `HeldTokens` carry the refinement.

Modules after that: `LeaseRegistry` (reentrant leases, `handoff`, `adopt`, failing
releases, redelivery of a message with a handoff reference), `LockedFs` (the wrapper's
operations step by step), `MultiWrite` (replication over several backends), `SemanticDag`.
