--------------------------- MODULE SessionCommit ---------------------------
(***************************************************************************)
(* One session: clients append messages to its root file, a commit moves   *)
(* the older ones into a numbered archive (phase 1, under the Tree lock of *)
(* the session) and a durable queue message has the memories extracted     *)
(* from the archive (phase 2, run by the queue's workers).                 *)
(*                                                                         *)
(* A step is one write to storage, the reads before it included.  Phase 1  *)
(* and recovery write with the lease of the session lock.  Phase 2 writes  *)
(* below the session without one: the file system then locks the single    *)
(* path, with a waiting time of zero, so such a write fails whenever       *)
(* somebody holds the session lock.  A crash is followed by a restart: the *)
(* queue delivers what was not acknowledged again, and the lock of a dead  *)
(* holder blocks until it expires.                                         *)
(***************************************************************************)
EXTENDS Naturals, FiniteSets, FiniteSetsExt

CONSTANTS
    MaxMsgs,      \* bound: messages ever sent, numbered in the order of sending
    MaxArchives,  \* bound: archive directories
    Worker,       \* phase-2 slots of the SessionCommit queue
    MaxCrashes,   \* bound: crashes of the server
    MaxFaults,    \* bound: failing storage or queue operations, retried errors
    MaxCancels,   \* bound: calls of cancel() for a commit task
    Policies,     \* what a commit may ask of phase 2: sets of steps, see asked
    None

ASSUME BoundsAssumption ==
    /\ MaxMsgs \in Nat /\ MaxArchives \in Nat
    /\ MaxCrashes \in Nat /\ MaxFaults \in Nat /\ MaxCancels \in Nat

ASSUME WorkerAssumption == IsFiniteSet(Worker)

Step == {"summary", "longTerm"}

ASSUME PolicyAssumption == Policies \subseteq SUBSET Step

ASSUME NoneAssumption == None \notin {"client", "commit", "dead"}

Message == 1..MaxMsgs

Archive == 1..MaxArchives

VARIABLES
    live,      \* messages of the root messages.jsonl; their order is that of their numbers
    count,     \* commit_count in the session's .meta.json
    arch,      \* the archive directories
    queued,    \* pending queue messages of each archive
    stuck,     \* claimed ones whose handler raised: not acknowledged, not delivered before a restart
    task,      \* the tracker's record of each archive's task
    lock,      \* holder of the Tree lock of the session
    commit,    \* where commit_async is
    job,       \* what each worker does
    acked,     \* messages whose add_message returned
    sent,      \* messages sent so far
    applied,   \* how often the memories of an archive were extracted and stored
    exposed,   \* how often a crash or a retry allows memories to be stored again
    crashes, faults, cancels

vars == <<live, count, arch, queued, stuck, task, lock, commit, job, acked,
          sent, applied, exposed, crashes, faults, cancels>>

\* Files of an archive directory: phase1 of .meta.json with its message ids,
\* messages.jsonl, .done, .failed.json, completed_memory_steps.  "summarised": a
\* summary was generated, and .overview.md written unless it was empty.  "asked" is
\* what the policy of the commit, which the queue message carries, and the server's
\* configuration want done: a Working Memory summary, the extraction of long-term
\* memories, both or neither.
NoArchive ==
    [phase1 |-> "none", archived |-> {}, retained |-> {}, raw |-> FALSE,
     done |-> FALSE, failed |-> FALSE, steps |-> FALSE, summarised |-> FALSE,
     asked |-> {}]

ArchiveFiles ==
    [phase1 : {"none", "preparing", "ready"}, archived : SUBSET Message,
     retained : SUBSET Message, raw : BOOLEAN, done : BOOLEAN, failed : BOOLEAN,
     steps : BOOLEAN, summarised : BOOLEAN, asked : SUBSET Step]

Holder == {None, "client", "commit", "dead"}

CommitSteps == {"marker", "raw", "enqueue", "create", "root", "sidecars", "meta", "ready"}

\* Where a worker is before, in and after _run_memory_extraction.
EarlySteps == {"check", "recover", "order", "orderRecover"}

Extracting == {"extract", "merge", "done"}

TaskStatus == {"none", "open", "completed", "failed", "cancelled"}

CommitAt == [pc : CommitSteps \union {"idle", "failed"}, n : 0..MaxArchives]

Job ==
    [pc : EarlySteps \union Extracting \union
          {"idle", "finalize", "fail", "complete", "reject", "ack", "cancelled"},
     n : 0..MaxArchives,
     summary : {"todo", "ok", "bad"},
     longTerm : {"todo", "applied", "ok", "bad"}]

Idle == [pc |-> "idle", n |-> 0, summary |-> "todo", longTerm |-> "todo"]

TypeOK ==
    /\ live \subseteq Message /\ acked \subseteq Message
    /\ count \in 0..MaxArchives /\ sent \in 0..MaxMsgs
    /\ arch \in [Archive -> ArchiveFiles]
    /\ queued \in [Archive -> Nat] /\ stuck \in [Archive -> Nat]
    /\ task \in [Archive -> TaskStatus] /\ lock \in Holder
    /\ commit \in CommitAt /\ job \in [Worker -> Job]
    /\ applied \in [Archive -> Nat]
    /\ exposed \in [Archive -> Nat] /\ crashes \in 0..MaxCrashes
    /\ faults \in 0..MaxFaults /\ cancels \in 0..MaxCancels

Init ==
    /\ live = {} /\ count = 0 /\ acked = {} /\ sent = 0
    /\ arch = [n \in Archive |-> NoArchive]
    /\ queued = [n \in Archive |-> 0] /\ stuck = [n \in Archive |-> 0]
    /\ task = [n \in Archive |-> "none"]
    /\ lock = None /\ commit = [pc |-> "idle", n |-> 0]
    /\ job = [p \in Worker |-> Idle]
    /\ applied = [n \in Archive |-> 0] /\ exposed = [n \in Archive |-> 0]
    /\ crashes = 0 /\ faults = 0 /\ cancels = 0

----------------------------------------------------------------------------
(* Reading the archives.                                                   *)

Exists(n) == arch[n].phase1 # "none" \/ arch[n].raw \/ arch[n].failed

IsTerminal(n) == arch[n].done \/ arch[n].failed

Raw(n) == IF arch[n].raw THEN arch[n].archived ELSE {}

\* tracker.has_work: an unacknowledged message of the task exists.  The message
\* of a cancelled run is acknowledged while the run still writes its marker.
Claims(n) == {p \in Worker : job[p].n = n /\ job[p].pc \notin {"idle", "cancelled"}}

has_work(n) == queued[n] + stuck[n] > 0 \/ Claims(n) # {}

\* Mutant: trusts commit_count.
next_index_by_count == count + 1

\* The first directory after commit_count that does not exist.
NextIndex == Min({n \in (count + 1)..(MaxArchives + 1) : n \notin Archive \/ ~Exists(n)})

\* The oldest k messages of a set.
First(k, S) == {m \in S : Cardinality({x \in S : x < m}) < k}

\* live_ids[:len(retained)] = retained, and nothing that was only archived is live.
phase1_applied(n) ==
    /\ First(Cardinality(arch[n].retained), live) = arch[n].retained
    /\ (arch[n].archived \ arch[n].retained) \intersect live = {}

\* Ways to split the root messages.  keep_recent_count and whole turns keep a
\* suffix; a turn too large for the budget keeps its user message (the anchor)
\* and a suffix of its steps, and archives a copy of the anchor with the rest.
Tails == {T \in SUBSET live : \A m \in T, x \in live : x > m => x \in T}

Splits ==
    {[archived |-> live \ T, retained |-> T] : T \in Tails \ {live}}
    \union
    {[archived |-> live \ ta[1], retained |-> ta[1] \union {ta[2]}] :
        ta \in {ta \in (Tails \ {{}}) \X live : \E x \in live \ ta[1] : ta[2] < x}}

----------------------------------------------------------------------------
(* Clients.                                                                *)

\* A client call (add_message, update_config, a commit with nothing to archive)
\* takes the session lock.
Hold ==
    /\ lock = None
    /\ lock' = "client"
    /\ UNCHANGED <<live, count, arch, queued, stuck, task, commit, job, acked,
                   sent, applied, exposed, crashes, faults, cancels>>

\* _append_messages_authoritatively, under the lock: append, save meta.  When
\* the meta file cannot be read the copy in memory is saved, and that may be old;
\* when it cannot be written the caller gets an error for a message that is there.
Append ==
    /\ lock = "client" /\ sent < MaxMsgs
    /\ sent' = sent + 1
    /\ live' = live \union {sent'}
    /\ lock' = None
    /\ \/ /\ acked' = acked \union {sent'}
          /\ UNCHANGED <<count, faults>>
       \/ /\ faults < MaxFaults /\ faults' = faults + 1
          /\ \/ count' \in 0..count /\ acked' = acked \union {sent'}
             \/ UNCHANGED <<count, acked>>
    /\ UNCHANGED <<arch, queued, stuck, task, commit, job, applied, exposed,
                   crashes, cancels>>

Release ==
    /\ lock = "client"
    /\ lock' = None
    /\ UNCHANGED <<live, count, arch, queued, stuck, task, commit, job, acked,
                   sent, applied, exposed, crashes, faults, cancels>>

----------------------------------------------------------------------------
(* commit_async: phase 1, every step under the session lock.               *)

Goto(pc) == commit' = [commit EXCEPT !.pc = pc]

CommitBegin ==
    /\ lock = None /\ live # {} /\ NextIndex \in Archive
    /\ lock' = "commit"
    /\ commit' = [pc |-> "marker", n |-> NextIndex]
    /\ UNCHANGED <<live, count, arch, queued, stuck, task, job, acked, sent,
                   applied, exposed, crashes, faults, cancels>>

WriteMarker ==
    /\ commit.pc = "marker" /\ Goto("raw")
    /\ \E s \in Splits, policy \in Policies :
         arch' = [arch EXCEPT ![commit.n].phase1 = "preparing",
                              ![commit.n].archived = s.archived,
                              ![commit.n].retained = s.retained,
                              ![commit.n].asked = policy]
    /\ UNCHANGED <<live, count, queued, task, lock>>

WriteRaw ==
    /\ commit.pc = "raw" /\ Goto("enqueue")
    /\ arch' = [arch EXCEPT ![commit.n].raw = TRUE]
    /\ UNCHANGED <<live, count, queued, task, lock>>

Enqueue ==
    /\ commit.pc = "enqueue" /\ Goto("create")
    /\ queued' = [queued EXCEPT ![commit.n] = @ + 1]
    /\ UNCHANGED <<live, count, arch, task, lock>>

CreateTask ==
    /\ commit.pc = "create" /\ Goto("root")
    /\ task' = [task EXCEPT ![commit.n] = IF @ = "none" THEN "open" ELSE @]
    /\ UNCHANGED <<live, count, arch, queued, lock>>

\* _write_to_agfs_async: the root messages, then .abstract.md and .overview.md.
RewriteRoot ==
    /\ commit.pc = "root" /\ Goto("sidecars")
    /\ live' = arch[commit.n].retained
    /\ UNCHANGED <<count, arch, queued, task, lock>>

WriteSidecars ==
    /\ commit.pc = "sidecars" /\ Goto("meta")
    /\ UNCHANGED <<live, count, arch, queued, task, lock>>

SaveMeta ==
    /\ commit.pc = "meta" /\ Goto("ready")
    /\ count' = Max({count, commit.n})
    /\ UNCHANGED <<live, arch, queued, task, lock>>

WriteReady ==
    /\ commit.pc = "ready"
    /\ commit' = [pc |-> "idle", n |-> 0] /\ lock' = None
    /\ arch' = [arch EXCEPT ![commit.n].phase1 = "ready"]
    /\ UNCHANGED <<live, count, queued, task>>

\* The except clause: a terminal marker (its own failure is only logged).
MarkFailed ==
    /\ commit.pc = "failed"
    /\ commit' = [pc |-> "idle", n |-> 0] /\ lock' = None
    /\ arch' = [arch EXCEPT ![commit.n].failed = TRUE]
    /\ UNCHANGED <<live, count, queued, task>>

CommitStep ==
    /\ \/ WriteMarker \/ WriteRaw \/ Enqueue \/ CreateTask \/ RewriteRoot
       \/ WriteSidecars \/ SaveMeta \/ WriteReady \/ MarkFailed
    /\ UNCHANGED <<stuck, job, acked, sent, applied, exposed, crashes, faults,
                   cancels>>

\* A write of phase 1 fails and changes nothing.
CommitFault ==
    /\ faults < MaxFaults /\ faults' = faults + 1
    /\ \/ commit.pc \in CommitSteps /\ Goto("failed") /\ lock' = lock
       \/ commit.pc = "failed" /\ commit' = [pc |-> "idle", n |-> 0] /\ lock' = None
    /\ UNCHANGED <<live, count, arch, queued, stuck, task, job, acked, sent,
                   applied, exposed, crashes, cancels>>

----------------------------------------------------------------------------
(* Workers of the SessionCommit queue.                                     *)

Become(p, pc) == job' = [job EXCEPT ![p].pc = pc]

\* The exception leaves on_dequeue: the message is not acknowledged.
Raise(p) ==
    /\ job' = [job EXCEPT ![p] = Idle]
    /\ stuck' = [stuck EXCEPT ![job[p].n] = @ + 1]

\* A write without a lease: it goes through only when nobody holds the session
\* lock, and it may fail for a reason of the storage.
WriteOk == lock = None /\ UNCHANGED faults

WriteFails ==
    \/ lock # None /\ UNCHANGED faults
    \/ lock = None /\ faults < MaxFaults /\ faults' = faults + 1

\* process_dequeued: a task that was cancelled is only finalized; otherwise
\* resume_queued_commit starts, and creates the task record if there is none.
Dequeue(p, n) ==
    /\ job[p] = Idle /\ queued[n] > 0
    /\ queued' = [queued EXCEPT ![n] = @ - 1]
    /\ job' = [job EXCEPT ![p] =
                 [Idle EXCEPT !.pc = IF task[n] = "cancelled" THEN "finalize" ELSE "check",
                              !.n = n]]
    /\ task' = [task EXCEPT ![n] = IF @ = "none" THEN "open" ELSE @]
    /\ UNCHANGED <<arch, count, stuck, applied, faults>>

\* finalize_cancelled_commit
Finalize(p) ==
    /\ job[p].pc = "finalize"
    /\ \/ /\ WriteOk /\ Become(p, "ack")
          /\ arch' = [arch EXCEPT ![job[p].n].failed = TRUE] /\ UNCHANGED stuck
       \/ WriteFails /\ Raise(p) /\ UNCHANGED arch
    /\ UNCHANGED <<count, queued, task, applied>>

\* resume_queued_commit up to _ensure_phase1_ready's first reads.
Check(p) ==
    LET a == arch[job[p].n] IN
    /\ job[p].pc = "check"
    /\ Become(p, CASE a.done -> "complete"
                   [] ~a.done /\ a.failed -> "reject"
                   [] OTHER -> IF a.phase1 = "ready" THEN "order" ELSE "recover")
    /\ UNCHANGED <<arch, count, queued, stuck, task, applied, faults>>

\* _ensure_phase1_ready(k) under the session lock, with its two results.
Recoverable(k) == ~arch[k].failed /\ has_work(k) /\ phase1_applied(k)

PhaseOneReady(k) ==
    /\ \/ arch[k].phase1 = "ready" /\ UNCHANGED count
       \/ /\ arch[k].phase1 = "preparing" /\ Recoverable(k)
          /\ count' = Max({count, k})
    /\ arch' = [arch EXCEPT ![k].phase1 = "ready"]
    /\ UNCHANGED task

PhaseOneLost(k) ==
    /\ arch[k].phase1 = "preparing" /\ ~Recoverable(k)
    /\ arch' = [arch EXCEPT ![k].failed = TRUE]
    /\ task' = [task EXCEPT ![k] = IF @ = "open" /\ ~arch[k].failed /\ ~has_work(k)
                                   THEN "failed" ELSE @]
    /\ UNCHANGED count

\* The lock is not to be had within 30 seconds, or a write under it fails.
RecoverFails(p, k) ==
    /\ \/ lock # None /\ UNCHANGED <<faults, count>>
       \/ /\ lock = None /\ faults < MaxFaults /\ faults' = faults + 1
          /\ \/ UNCHANGED count
             \/ Recoverable(k) /\ count' = Max({count, k})
    /\ Raise(p)
    /\ UNCHANGED <<arch, task>>

Recover(p) ==
    /\ job[p].pc = "recover"
    /\ \/ /\ lock = None /\ UNCHANGED <<stuck, faults>>
          /\ \/ PhaseOneReady(job[p].n) /\ Become(p, "order")
             \/ PhaseOneLost(job[p].n) /\ Become(p, "reject")
       \/ RecoverFails(p, job[p].n)
    /\ UNCHANGED <<queued, applied>>

Todo(p, step) == IF step \in arch[job[p].n].asked THEN "todo" ELSE "ok"

\* Mutant: forgets the recorded progress.
begin_from_scratch(p) ==
    job' = [job EXCEPT ![p].pc = "extract", ![p].summary = Todo(p, "summary"),
                       ![p].longTerm = Todo(p, "longTerm")]

\* Phase 2 begins: a step that nobody asked for has no work, and what is recorded
\* in completed_memory_steps is not repeated.
Begin(p) ==
    job' = [job EXCEPT ![p].pc = "extract", ![p].summary = Todo(p, "summary"),
                       ![p].longTerm = IF arch[job[p].n].steps THEN "ok"
                                       ELSE Todo(p, "longTerm")]

\* The processor enqueues the message again, then the old one is acknowledged.
Requeue(p) ==
    /\ queued' = [queued EXCEPT ![job[p].n] = @ + 1]
    /\ Become(p, "ack")

\* Mutant: waits for a predecessor whose queue message is gone.
order_waits_for_orphan(p) ==
    LET k == job[p].n - 1 IN
    /\ job[p].pc = "order"
    /\ \/ (k \in Archive => ~Exists(k) \/ IsTerminal(k)) /\ Begin(p) /\ UNCHANGED queued
       \/ /\ k \in Archive /\ ~IsTerminal(k) /\ arch[k].phase1 = "preparing"
          /\ Become(p, "orderRecover") /\ UNCHANGED queued
       \/ /\ k \in Archive /\ ~IsTerminal(k) /\ arch[k].phase1 = "ready"
          /\ Requeue(p)
    /\ UNCHANGED <<arch, count, stuck, task, applied, faults>>

\* _can_run_archive: only the direct predecessor is looked at.
Order(p) ==
    LET n == job[p].n
        k == n - 1
    IN
    /\ job[p].pc = "order"
    /\ \/ /\ k \in Archive => ~Exists(k) \/ IsTerminal(k)
          /\ Begin(p) /\ UNCHANGED <<arch, queued, stuck, task, faults>>
       \/ /\ k \in Archive /\ ~IsTerminal(k) /\ arch[k].phase1 = "preparing"
          /\ Become(p, "orderRecover") /\ UNCHANGED <<arch, queued, stuck, task, faults>>
       \/ /\ k \in Archive /\ ~IsTerminal(k) /\ arch[k].phase1 = "ready"
          /\ \/ /\ has_work(k) /\ Requeue(p)
                /\ UNCHANGED <<arch, stuck, task, faults>>
             \/ /\ ~has_work(k) /\ WriteOk /\ Begin(p)
                /\ arch' = [arch EXCEPT ![k].failed = TRUE]
                /\ task' = [task EXCEPT ![k] = IF @ = "open" THEN "failed" ELSE @]
                /\ UNCHANGED <<queued, stuck>>
             \/ /\ ~has_work(k) /\ WriteFails /\ Raise(p)
                /\ UNCHANGED <<arch, queued, task>>
    /\ UNCHANGED <<count, applied>>

\* The predecessor is recovered first; if that succeeds it has its turn.
OrderRecover(p) ==
    /\ job[p].pc = "orderRecover"
    /\ \/ /\ lock = None /\ UNCHANGED <<stuck, faults>>
          /\ \/ PhaseOneReady(job[p].n - 1) /\ Requeue(p)
             \/ PhaseOneLost(job[p].n - 1) /\ Begin(p) /\ UNCHANGED queued
       \/ RecoverFails(p, job[p].n - 1) /\ UNCHANGED queued
    /\ UNCHANGED applied

\* The long-term step, while its sibling, the summary, runs concurrently.  The
\* memories are stored, a stage that trains on them follows and may raise, then the
\* step is recorded.
LongTermIs(p, result) == job' = [job EXCEPT ![p].longTerm = result]

ApplyMemories(p) ==
    /\ job[p].pc = "extract" /\ job[p].longTerm = "todo"
    /\ \/ LongTermIs(p, "applied") /\ applied' = [applied EXCEPT ![job[p].n] = @ + 1]
       \/ LongTermIs(p, "bad") /\ UNCHANGED applied
    /\ UNCHANGED <<arch, count, queued, stuck, task, faults>>

\* The training raises, or it returns and the step is recorded.
RecordStep(p) ==
    /\ job[p].pc = "extract" /\ job[p].longTerm = "applied"
    /\ \/ WriteOk /\ LongTermIs(p, "ok")
          /\ arch' = [arch EXCEPT ![job[p].n].steps = TRUE]
       \/ WriteFails /\ LongTermIs(p, "bad") /\ UNCHANGED arch
       \/ LongTermIs(p, "bad") /\ UNCHANGED <<arch, faults>>
    /\ UNCHANGED <<count, queued, stuck, task, applied>>

\* Abstract, overview and the archive's meta file are written when nobody holds the
\* session lock; an empty summary, which needs no write, succeeds at any time.  A
\* write that fails may follow that of the overview.
Summarise(p) ==
    LET Result(r) == job' = [job EXCEPT ![p].summary = r] IN
    /\ job[p].pc = "extract" /\ job[p].summary = "todo"
    /\ \/ Result("ok") /\ arch' = [arch EXCEPT ![job[p].n].summarised = TRUE]
       \/ /\ Result("bad")
          /\ \/ UNCHANGED arch
             \/ lock = None /\ arch' = [arch EXCEPT ![job[p].n].summarised = TRUE]
    /\ UNCHANGED <<count, queued, stuck, task, applied, faults>>

\* Mutant: looks at the result of the long-term step only.
gather_ignores_summary(p) ==
    /\ job[p].pc = "extract"
    /\ job[p].summary # "todo" /\ job[p].longTerm \notin {"todo", "applied"}
    /\ job' = [job EXCEPT ![p] =
                 [Idle EXCEPT !.pc = IF job[p].longTerm = "bad" THEN "fail" ELSE "merge",
                              !.n = job[p].n]]
    /\ UNCHANGED <<arch, count, queued, stuck, task, applied, faults>>

\* gather has both results: one failure fails the archive.
Gather(p) ==
    /\ job[p].pc = "extract"
    /\ job[p].summary # "todo" /\ job[p].longTerm \notin {"todo", "applied"}
    /\ job' = [job EXCEPT ![p] =
                 [Idle EXCEPT !.pc = IF "bad" \in {job[p].summary, job[p].longTerm}
                                     THEN "fail" ELSE "merge",
                              !.n = job[p].n]]
    /\ UNCHANGED <<arch, count, queued, stuck, task, applied, faults>>

\* Mutant: counts commits instead of taking the archive's index.
merge_counts_up(p) ==
    /\ job[p].pc = "merge"
    /\ WriteOk /\ Become(p, "done") /\ count' = count + 1
    /\ UNCHANGED <<arch, queued, stuck, task, applied>>

\* _merge_and_save_commit_meta, under the lock.
MergeMeta(p) ==
    /\ job[p].pc = "merge"
    /\ \/ WriteOk /\ Become(p, "done") /\ count' = Max({count, job[p].n})
       \/ WriteFails /\ Become(p, "fail") /\ UNCHANGED count
    /\ UNCHANGED <<arch, queued, stuck, task, applied>>

\* Mutant: a .done that cannot be written is only logged.
write_done_best_effort(p) ==
    /\ job[p].pc = "done" /\ Become(p, "complete")
    /\ \/ WriteOk /\ arch' = [arch EXCEPT ![job[p].n].done = TRUE]
       \/ WriteFails /\ UNCHANGED arch
    /\ UNCHANGED <<count, queued, stuck, task, applied>>

WriteDone(p) ==
    /\ job[p].pc = "done"
    /\ \/ /\ WriteOk /\ Become(p, "complete")
          /\ arch' = [arch EXCEPT ![job[p].n].done = TRUE]
       \/ WriteFails /\ Become(p, "fail") /\ UNCHANGED arch
    /\ UNCHANGED <<count, queued, stuck, task, applied>>

\* Mutant: a .failed.json that cannot be written is only logged.
write_failed_best_effort(p) ==
    /\ job[p].pc = "fail" /\ Become(p, "reject")
    /\ \/ WriteOk /\ arch' = [arch EXCEPT ![job[p].n].failed = TRUE]
       \/ WriteFails /\ UNCHANGED arch
    /\ UNCHANGED <<count, queued, stuck, task, applied>>

WriteFailed(p) ==
    /\ job[p].pc = "fail"
    /\ \/ /\ WriteOk /\ Become(p, "reject") /\ UNCHANGED stuck
          /\ arch' = [arch EXCEPT ![job[p].n].failed = TRUE]
       \/ WriteFails /\ Raise(p) /\ UNCHANGED arch
    /\ UNCHANGED <<count, queued, task, applied>>

\* tracker.complete, tracker.fail: a settled record stays as it is.
Settle(p) ==
    /\ job[p].pc \in {"complete", "reject"} /\ Become(p, "ack")
    /\ task' = [task EXCEPT ![job[p].n] =
                  CASE @ # "open" -> @
                    [] OTHER -> IF job[p].pc = "complete" THEN "completed" ELSE "failed"]
    /\ UNCHANGED <<arch, count, queued, stuck, applied, faults>>

Ack(p) ==
    /\ job[p].pc = "ack" /\ job' = [job EXCEPT ![p] = Idle]
    /\ UNCHANGED <<arch, count, queued, stuck, task, applied, faults>>

\* The run of a cancelled task writes its marker; nobody hears of a failure.
WriteCancelled(p) ==
    /\ job[p].pc = "cancelled" /\ job' = [job EXCEPT ![p] = Idle]
    /\ \/ WriteOk /\ arch' = [arch EXCEPT ![job[p].n].failed = TRUE]
       \/ WriteFails /\ UNCHANGED arch
    /\ UNCHANGED <<count, queued, stuck, task, applied>>

WorkerStep(p) ==
    \/ Finalize(p) \/ Check(p) \/ Recover(p) \/ Order(p) \/ OrderRecover(p)
    \/ ApplyMemories(p) \/ RecordStep(p) \/ Summarise(p) \/ Gather(p)
    \/ MergeMeta(p) \/ WriteDone(p) \/ WriteFailed(p) \/ Settle(p) \/ Ack(p)
    \/ WriteCancelled(p)

Others == <<live, lock, commit, acked, sent, exposed, crashes, cancels>>

\* retry_async runs a step again, from its start, when what it raised is transient
\* (three times at most, here as often as there are faults): memories that are stored
\* are stored again.  A retry of the summary, or before the storing, leaves no trace.
StoreAgain(p) ==
    /\ job[p].pc = "extract" /\ job[p].longTerm = "applied"
    /\ faults < MaxFaults /\ faults' = faults + 1
    /\ LongTermIs(p, "todo")
    /\ exposed' = [exposed EXCEPT ![job[p].n] = @ + 1]
    /\ UNCHANGED <<live, count, arch, queued, stuck, task, lock, commit, acked, sent,
                   applied, crashes, cancels>>

\* cancel(): the worker of the task is interrupted and its message acknowledged.
\* Only _run_memory_extraction turns the interruption into a marker; before it,
\* and in its own error handler, nothing is written.
Cancel(n) ==
    /\ cancels < MaxCancels /\ cancels' = cancels + 1
    /\ task[n] = "open" /\ task' = [task EXCEPT ![n] = "cancelled"]
    /\ job' = [p \in Worker |->
                 IF p \notin Claims(n) \/ job[p].pc = "ack" THEN job[p]
                 ELSE IF job[p].pc \in Extracting \union {"complete"}
                      THEN [Idle EXCEPT !.pc = "cancelled", !.n = n]
                      ELSE Idle]
    /\ UNCHANGED <<live, count, arch, queued, stuck, lock, commit, acked, sent,
                   applied, exposed, crashes, faults>>

----------------------------------------------------------------------------
(* Crash and restart.                                                      *)

Copies(n) == queued[n] + stuck[n] + Cardinality(Claims(n))

\* What a crash may have done again: memories stored and not recorded, and each
\* message beyond the first (enqueued again, the old one not acknowledged).
Repeats(n) ==
    IF IsTerminal(n) THEN 0
    ELSE Max({Copies(n), 1}) - 1 + (IF applied[n] > 0 /\ ~arch[n].steps THEN 1 ELSE 0)

Crash ==
    /\ crashes < MaxCrashes /\ crashes' = crashes + 1
    /\ exposed' = [n \in Archive |-> exposed[n] + Repeats(n)]
    /\ job' = [p \in Worker |-> Idle]
    /\ queued' = [n \in Archive |-> Copies(n)]
    /\ stuck' = [n \in Archive |-> 0]
    /\ commit' = [pc |-> "idle", n |-> 0]
    /\ lock' = IF lock = None THEN None ELSE "dead"
    /\ UNCHANGED <<live, count, arch, task, acked, sent, applied, faults, cancels>>

Expire ==
    /\ lock = "dead"
    /\ lock' = None
    /\ UNCHANGED <<live, count, arch, queued, stuck, task, commit, job, acked,
                   sent, applied, exposed, crashes, faults, cancels>>

----------------------------------------------------------------------------

Next ==
    \/ Hold \/ Append \/ Release
    \/ CommitBegin \/ CommitStep \/ CommitFault
    \/ \E p \in Worker, n \in Archive : Dequeue(p, n) /\ UNCHANGED Others
    \/ \E p \in Worker : WorkerStep(p) /\ UNCHANGED Others
    \/ \E p \in Worker : StoreAgain(p)
    \/ \E n \in Archive : Cancel(n)
    \/ Crash \/ Expire

Spec == Init /\ [][Next]_vars

Worked(p) == WorkerStep(p) /\ UNCHANGED Others

\* Fairness: a commit runs on, a client gives the lock back, the lock of a dead
\* holder expires and a worker runs on (its waits for the lock have a limit).
\* QueueFS hands messages out in the order of their arrival, so one that is
\* waiting is taken although others are enqueued again and again.
FairSpec ==
    /\ Spec
    /\ WF_vars(CommitStep) /\ WF_vars(Release) /\ WF_vars(Expire)
    /\ \A p \in Worker : WF_vars(Worked(p))
    /\ \A n \in Archive : SF_vars(\E p \in Worker : Dequeue(p, n) /\ UNCHANGED Others)

----------------------------------------------------------------------------
(* Properties.                                                             *)

\* A message whose add_message returned is in the root file or in the raw file of
\* an archive, whatever fails or crashes on the way from the one to the other
\* (archive first, root rewrite later, directory indexes never reused).
NothingLost == acked \subseteq live \union UNION {Raw(n) : n \in Archive}

\* An archive with a .done marker was published by phase 1, and what the policy of
\* its commit and the configuration ask for was done: a summary was generated (and
\* written unless it was empty), the long-term memories were stored and recorded.
\* No failed sibling step, no racing failure.
SummaryIsMade(n) == "summary" \in arch[n].asked => arch[n].summarised

MemoriesAreRecorded(n) ==
    "longTerm" \in arch[n].asked => arch[n].steps /\ applied[n] > 0

DoneIsWhole ==
    \A n \in Archive : arch[n].done =>
        /\ arch[n].phase1 = "ready" /\ arch[n].raw
        /\ SummaryIsMade(n) /\ MemoriesAreRecorded(n)

\* The memories of an archive are stored once; again only for a crash in the window
\* between storing and recording them (or with the message enqueued twice), and for
\* each retry of a step whose training stage raised after the memories were stored.
NotStoredTwice == \A n \in Archive : applied[n] <= 1 + exposed[n]

\* What recording the step is for: with no crash, the memories are stored once.
StoredOnceWithoutCrash == crashes = 0 => \A n \in Archive : applied[n] <= 1

\* A published archive (phase1 = ready) that is not settled still has queue work, so
\* that somebody will settle it; only a cancelled run may give the work up.
PendingHasWork ==
    \A n \in Archive :
        arch[n].phase1 = "ready" /\ ~IsTerminal(n) =>
            has_work(n) \/ task[n] = "cancelled"

\* The task reports what the archive says.
TaskTellsTruth ==
    \A n \in Archive :
        /\ task[n] = "completed" => arch[n].done
        /\ task[n] = "failed" => arch[n].failed

\* Every queued commit is settled in the end, unless it was cancelled, or its
\* handler or that of an earlier archive it waits for raised and sits on its
\* message until a restart.
CommitsEnd ==
    \A n \in Archive :
        queued[n] > 0 ~> \/ IsTerminal(n) \/ task[n] = "cancelled"
                         \/ \E k \in 1..n : stuck[k] > 0

\* The documentation's serialisation of phase 2: two archives of the session are
\* never extracted at the same time.
SerializedByArchive ==
    \A p, q \in Worker :
        job[p].pc \in Extracting /\ job[q].pc \in Extracting => job[p].n = job[q].n

----------------------------------------------------------------------------
(* The inductive invariant behind the safety properties.                   *)

\* Who is busy is busy with an archive, and a commit runs while it has the lock.
BusyWithArchive ==
    /\ \A p \in Worker :
         /\ IF job[p].pc = "idle" THEN job[p] = Idle ELSE job[p].n \in Archive
         /\ job[p].pc = "orderRecover" => job[p].n - 1 \in Archive
    /\ commit.pc # "idle" => commit.n \in Archive
    /\ commit.pc # "idle" <=> lock = "commit"

\* No message, no worker and no memory of archive n: its number was never used.
Untouched(n) ==
    /\ queued[n] = 0 /\ stuck[n] = 0 /\ applied[n] = 0
    /\ \A p \in Worker : job[p].n # n

\* A commit writes into a directory that nobody has used before.
FreshDirectory ==
    /\ \A n \in Archive : ~Exists(n) => Untouched(n)
    /\ commit.pc = "marker" => ~Exists(commit.n)
    /\ commit.pc \in {"raw", "enqueue"} => Untouched(commit.n)

\* Until the root is rewritten the archive being made and what it retains cover
\* the root, and the raw file is there before the root shrinks.
RootIsCovered ==
    /\ commit.pc = "raw" => ~arch[commit.n].raw
    /\ commit.pc \in {"raw", "enqueue", "create", "root"} =>
         live \subseteq arch[commit.n].archived \union arch[commit.n].retained
    /\ commit.pc \in CommitSteps \ {"marker", "raw"} => arch[commit.n].raw

\* Queue work is only about archives with a raw file, and whoever is past
\* _ensure_phase1_ready works on a published one.
WorkHasRaw ==
    /\ \A n \in Archive :
         arch[n].phase1 = "ready" \/ queued[n] > 0 \/ stuck[n] > 0 => arch[n].raw
    /\ \A p \in Worker :
         /\ job[p].pc # "idle" => arch[job[p].n].raw
         /\ job[p].pc \in {"order", "orderRecover"} \union Extracting =>
              arch[job[p].n].phase1 = "ready"

\* What a worker remembers of its steps is on disk, and what is recorded on disk
\* was done.
StepsAreReal ==
    /\ \A n \in Archive : arch[n].steps => applied[n] > 0
    /\ \A p \in Worker :
         /\ job[p].summary = "ok" => SummaryIsMade(job[p].n)
         /\ job[p].longTerm = "ok" => MemoriesAreRecorded(job[p].n)
         /\ job[p].longTerm = "applied" => applied[job[p].n] > 0
         /\ job[p].pc \in {"merge", "done"} =>
              SummaryIsMade(job[p].n) /\ MemoriesAreRecorded(job[p].n)

\* Who is about to settle the task has written its marker; an acknowledgement
\* follows a marker or a new message.
OutcomeIsWritten ==
    \A p \in Worker :
        /\ job[p].pc = "complete" => arch[job[p].n].done
        /\ job[p].pc = "reject" => arch[job[p].n].failed
        /\ job[p].pc = "ack" => IsTerminal(job[p].n) \/ arch[job[p].n].phase1 = "ready"

\* Somebody will still settle archive n: a claim about to be acknowledged will not.
WillBeRun(n) ==
    \/ queued[n] + stuck[n] > 0
    \/ \E p \in Worker : job[p].n = n /\ job[p].pc \notin {"idle", "cancelled", "ack"}

KeepsWork ==
    \A n \in Archive :
        /\ \/ arch[n].phase1 = "ready"
           \/ commit.n = n /\ commit.pc \in {"create", "root", "sidecars", "meta", "ready"}
        /\ ~IsTerminal(n) /\ task[n] # "cancelled"
        => WillBeRun(n)

\* Workers that may still store the memories of n, and the deliveries that may.
MayStore(n) ==
    {p \in Worker :
        /\ job[p].n = n
        /\ \/ job[p].pc = "extract" /\ job[p].longTerm = "todo"
           \/ job[p].pc \in {"recover", "order", "orderRecover"} /\ ~arch[n].steps
           \/ job[p].pc = "check" /\ ~arch[n].steps /\ ~IsTerminal(n)}

OpenDeliveries(n) == IF IsTerminal(n) \/ arch[n].steps THEN 0 ELSE queued[n]

\* Stored so far and still to be stored is one, and one more for each exposure.
StoreBudget ==
    \A n \in Archive :
        applied[n] + OpenDeliveries(n) + Cardinality(MayStore(n)) <= 1 + exposed[n]

IInv ==
    /\ TypeOK /\ BusyWithArchive /\ FreshDirectory /\ RootIsCovered /\ NothingLost
    /\ WorkHasRaw /\ StepsAreReal /\ OutcomeIsWritten /\ DoneIsWhole
    /\ TaskTellsTruth /\ KeepsWork /\ StoreBudget

============================================================================
