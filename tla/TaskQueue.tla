----------------------------- MODULE TaskQueue -----------------------------
(***************************************************************************)
(* The life of one tracked background task: its record (TaskTracker), the  *)
(* durable queue messages it owns (NamedQueue over QueueFS), the runtime   *)
(* index of that work (TaskWorkIndex) and the workers that process the     *)
(* messages.  Tasks share nothing but capacity, so one task is modelled.   *)
(*                                                                         *)
(* Workers run on the event loops of their queues, the tracker on the loop *)
(* of the server: a step here is what happens between two suspension       *)
(* points, and steps of two loops interleave.  A tracker operation holds   *)
(* the lock of the task from the moment it reads the record until it has   *)
(* stored and published the new one.  Index operations are atomic (one     *)
(* thread lock).  A crash is followed by a restart before anything else.   *)
(***************************************************************************)
EXTENDS Naturals, FiniteSets

CONSTANTS
    Msg,         \* work ids the task may ever use
    Root,        \* the message the submitter enqueues; its handler answers for the task
    MaxCancels,  \* bound: calls of cancel()
    MaxCrashes,  \* bound: crashes of the server
    MaxFaults,   \* bound: failing writes, to the task store or to QueueFS
    Raises,      \* TRUE: a handler may let an exception out
    Evicts,      \* TRUE: newer tasks may push this one out of the cache (MAX_TASKS)
    None         \* no record, no message, nobody

ASSUME RootAssumption == Root \in Msg /\ None \notin Msg

ASSUME BoundsAssumption ==
    /\ MaxCancels \in Nat /\ MaxCrashes \in Nat /\ MaxFaults \in Nat
    /\ Raises \in BOOLEAN /\ Evicts \in BOOLEAN

Unanswered == {"pending", "running"}

ActiveStatus == Unanswered \union {"cancelling"}

Terminal == {"completed", "failed", "cancelled"}

\* A TaskRecord: of result and error only whether they are there.
Record == [status : ActiveStatus \union Terminal, result : BOOLEAN, error : BOOLEAN]

ASSUME NoRecordAssumption == None \notin Record

\* Who calls the tracker: a handler, the worker that acknowledges a message (or
\* discards one that was not written), a client.
Handler(m) == [role |-> "handler", msg |-> m]

Worker(m) == [role |-> "worker", msg |-> m]

Client == [role |-> "client", msg |-> None]

Actor == [role : {"handler", "worker"}, msg : Msg] \union {Client}

ASSUME NobodyAssumption == None \notin Actor

VARIABLES
    store,      \* the record in the task store
    cache,      \* the published record, or None
    queue,      \* QueueFS: where a message is in its life
    work,       \* TaskWorkIndex._work
    active,     \* TaskWorkIndex._active: messages whose worker is registered
    failure,    \* TaskWorkIndex._failures: some work item has failed
    lock,       \* who holds the lock of the task, or None
    call,       \* the tracker operation an actor is in
    pc,         \* where the worker of a message is
    child,      \* the message a handler is enqueuing, or None
    cancelled,  \* workers a task.cancel() is under way to
    spent       \* cancels, crashes and faults so far (bounds the model)

vars == <<store, cache, queue, work, active, failure, lock, call, pc, child, cancelled, spent>>

NoCall == [op |-> "none", step |-> "none", draft |-> None]

-----------------------------------------------------------------------------
\* What the operations look at.

\* is_cancellation_requested reads the cache only.
is_cancellation_requested ==
    cache # None /\ cache.status \in {"cancelling", "cancelled"}

has_work == work # {} \/ active # {}

\* _load_for_update: the cached record, or else the stored one.
Loaded == IF cache # None THEN cache ELSE store

\* Where the handler of a message is.  The root's (add_resource): it looks at the
\* record, has called start and executes the job, has recorded a result and waits
\* for its descendants, has recorded the last answer.
Handling == {"handle", "started", "recorded", "answered"}

\* The handler waits for nothing.
Running(m) == pc[m] \in Handling /\ child[m] = None /\ call[Handler(m)] = NoCall

Goto(m, label) == pc' = [pc EXCEPT ![m] = label]

Begin(a, op, step) == call' = [call EXCEPT ![a] = [op |-> op, step |-> step, draft |-> None]]

Spend(kind, bound) ==
    /\ spent[kind] < bound
    /\ spent' = [spent EXCEPT ![kind] = @ + 1]

-----------------------------------------------------------------------------
\* create() has stored and published the record.
Init ==
    /\ store = [status |-> "pending", result |-> FALSE, error |-> FALSE]
    /\ cache = store
    /\ queue = [m \in Msg |-> "none"]
    /\ work = {}
    /\ active = {}
    /\ failure = FALSE
    /\ lock = None
    /\ call = [a \in Actor |-> NoCall]
    /\ pc = [m \in Msg |-> "idle"]
    /\ child = [m \in Msg |-> None]
    /\ cancelled = {}
    /\ spent = [cancels |-> 0, crashes |-> 0, faults |-> 0]

\* Mutant: a descendant is enqueued outside the context of its task.
register_detached(c) ==
    ~is_cancellation_requested /\ work' = IF c = Root THEN work \union {c} ELSE work

\* Mutant: work of a task that is being cancelled is accepted.
register_any(c) == work' = work \union {c}

\* TaskWorkIndex.register; a rejected enqueue ends in TaskWorkRejected.
register(c) == ~is_cancellation_requested /\ work' = work \union {c}

\* Mutant: asked before the entry is removed.
became_idle_early(c) == c \in work /\ work = {} /\ active = {}

\* _remove_work: c was there and nothing of the task is left.
became_idle(c) == c \in work /\ work \ {c} = {} /\ active = {}

\* NamedQueue.enqueue up to its write, by the submitter or by a handler.
enqueue(c) ==
    /\ queue[c] = "none"
    /\ register(c)
    /\ queue' = [queue EXCEPT ![c] = "writing"]
    /\ \/ c = Root /\ UNCHANGED child
       \/ \E m \in Msg :
            /\ c # Root
            /\ Running(m) /\ pc[m] = (IF m = Root THEN "started" ELSE "handle")
            /\ child' = [child EXCEPT ![m] = c]
    /\ UNCHANGED <<store, cache, active, failure, lock, call, pc, cancelled, spent>>

\* The enqueuer of c goes on.
Resume(c) == child' = [m \in Msg |-> IF child[m] = c THEN None ELSE child[m]]

enqueue_written(c) ==
    /\ queue[c] = "writing"
    /\ queue' = [queue EXCEPT ![c] = "pending"]
    /\ Resume(c)
    /\ UNCHANGED <<store, cache, work, active, failure, lock, call, pc, cancelled, spent>>

\* The write fails: discard, and finalize the task if this was its last work.
enqueue_fails(c) ==
    /\ queue[c] = "writing"
    /\ Spend("faults", MaxFaults)
    /\ queue' = [queue EXCEPT ![c] = "lost"]
    /\ Resume(c)
    /\ work' = work \ {c}
    /\ IF became_idle(c)
       THEN Begin(Worker(c), "finalize", "check") /\ Goto(c, "discard")
       ELSE UNCHANGED <<call, pc>>
    /\ UNCHANGED <<store, cache, active, failure, lock, cancelled>>

-----------------------------------------------------------------------------
\* The worker.

\* dequeue_raw: the backend marks the message as processing.
dequeue(m) ==
    /\ queue[m] = "pending"
    /\ pc[m] = "idle"
    /\ queue' = [queue EXCEPT ![m] = "processing"]
    /\ Goto(m, "fetched")
    /\ UNCHANGED <<store, cache, work, active, failure, lock, call, child, cancelled, spent>>

\* process_dequeued: on_cancelled for a task that is being cancelled.
process_dequeued(m) ==
    /\ pc[m] = "fetched"
    /\ Goto(m, IF is_cancellation_requested THEN "ack" ELSE "register")
    /\ UNCHANGED <<store, cache, queue, work, active, failure, lock, call, child, cancelled, spent>>

\* A worker that comes too late to be registered cancels itself, which takes effect
\* where its handler first waits.
register_active(m) ==
    /\ pc[m] = "register"
    /\ IF is_cancellation_requested
       THEN Goto(m, "ack") /\ UNCHANGED active
       ELSE Goto(m, "handle") /\ active' = active \union {m}
    /\ UNCHANGED <<store, cache, queue, work, failure, lock, call, child, cancelled, spent>>

\* The root's handler looks at the record first: a redelivered message of a task
\* that is over, or has a result already, is not executed again.
replay(m) ==
    /\ m = Root
    /\ pc[m] = "handle" /\ Running(m)
    /\ IF Loaded.status \notin Unanswered THEN Goto(m, "answered") /\ UNCHANGED call
       ELSE IF Loaded.result THEN Goto(m, "recorded") /\ UNCHANGED call
       ELSE Goto(m, "started") /\ Begin(Handler(m), "start", "lock")
    /\ UNCHANGED <<store, cache, queue, work, active, failure, lock, child, cancelled, spent>>

\* The job is executed: record its result and wait; no descendant is left: record
\* the final result.  An error, or an exception on the way, is an answer too.
record_outcome(m, op) ==
    /\ m = Root
    /\ Running(m)
    /\ \/ pc[m] = "started" /\ op = "complete" /\ Goto(m, "recorded")
       \/ pc[m] = "recorded" /\ op = "complete" /\ work \subseteq {m} /\ Goto(m, "answered")
       \/ pc[m] \in {"started", "recorded"} /\ op = "fail" /\ Goto(m, "answered")
    /\ Begin(Handler(m), op, "lock")
    /\ UNCHANGED <<store, cache, queue, work, active, failure, lock, child, cancelled, spent>>

\* The handler is done; `failed` is report_error, which _on_process_error turns
\* into record_failure.  The root's adds nothing to the error it recorded.
on_dequeue_returns(m, failed) ==
    /\ Running(m)
    /\ pc[m] = (IF m = Root THEN "answered" ELSE "handle")
    /\ failed => m # Root
    /\ failure' = (failure \/ failed)
    /\ active' = active \ {m}
    /\ Goto(m, "ack")
    /\ UNCHANGED <<store, cache, queue, work, lock, call, child, cancelled, spent>>

\* The handler of m lets an exception out: no ack, the message stays in processing
\* until the next start.  Only the concurrent worker counts it as a failed item.
Escape(m) ==
    /\ failure' \in {failure, TRUE}
    /\ active' = active \ {m}
    /\ Goto(m, "stuck")

on_dequeue_raises(m) ==
    /\ Raises
    /\ Running(m)
    /\ Escape(m)
    /\ UNCHANGED <<store, cache, queue, work, lock, call, child, cancelled, spent>>

\* prepare_ack: the work goes from the index first; the last one finalizes the
\* task before its message is deleted.
ack(m) ==
    /\ pc[m] = "ack"
    /\ work' = work \ {m}
    /\ IF became_idle(m)
       THEN Begin(Worker(m), "finalize", "check") /\ Goto(m, "finalize")
       ELSE /\ Goto(m, IF m \in work THEN "write" ELSE "write_unprepared")
            /\ UNCHANGED call
    /\ UNCHANGED <<store, cache, queue, active, failure, lock, child, cancelled, spent>>

\* The durable delete.
ack_written(m) ==
    /\ pc[m] \in {"write", "write_unprepared"}
    /\ queue' = [queue EXCEPT ![m] = "acked"]
    /\ Goto(m, "done")
    /\ UNCHANGED <<store, cache, work, active, failure, lock, call, child, cancelled, spent>>

\* rollback_ack, if prepare_ack had removed the work; nobody acks again.
rollback_ack(m) ==
    /\ work' = IF pc[m] = "write_unprepared" THEN work ELSE work \union {m}
    /\ Goto(m, "stuck")

ack_fails(m) ==
    /\ pc[m] \in {"write", "write_unprepared"}
    /\ Spend("faults", MaxFaults)
    /\ rollback_ack(m)
    /\ UNCHANGED <<store, cache, queue, active, failure, lock, call, child, cancelled>>

\* A write to QueueFS runs in a thread that a cancellation does not stop.
MayEnd(m, end) == \E q \in {queue[m], end} : queue' = [queue EXCEPT ![m] = q]

\* The CancelledError reaches the worker.  Inside the handler: process_dequeued
\* swallows it, an enqueue under way is discarded, a tracker operation under way
\* ends by itself.  Inside the ack: rollback_ack, and process_one is over.
CancelledError(m) ==
    /\ m \in cancelled
    /\ cancelled' = cancelled \ {m}
    /\ \/ /\ pc[m] \in Handling
          /\ active' = active \ {m}
          /\ Goto(m, IF is_cancellation_requested THEN "ack" ELSE "stuck")
          /\ IF child[m] = None THEN UNCHANGED <<queue, work>>
             ELSE /\ work' = work \ {child[m]}
                  /\ \E q \in {"pending", "lost"} : queue' = [queue EXCEPT ![child[m]] = q]
          /\ child' = [child EXCEPT ![m] = None]
          /\ UNCHANGED call
       \/ /\ pc[m] = "finalize"
          /\ IF call[Worker(m)].step \in {"check", "lock"}
             THEN rollback_ack(m) /\ call' = [call EXCEPT ![Worker(m)] = NoCall]
             ELSE Goto(m, "finalize_cancelled") /\ UNCHANGED <<work, call>>
          /\ UNCHANGED <<queue, active, child>>
       \/ /\ pc[m] \in {"write", "write_unprepared"}
          /\ rollback_ack(m)
          /\ MayEnd(m, "acked")
          /\ UNCHANGED <<active, call, child>>
       \/ /\ pc[m] \in {"done", "stuck"}
          /\ UNCHANGED <<queue, work, active, call, pc, child>>
    /\ UNCHANGED <<store, cache, failure, lock, spent>>

-----------------------------------------------------------------------------
\* The tracker.

\* An operation of the tracker is over; if it was the finalization of an ack,
\* the ack goes on, or rolls back.
Finish(a, ok) ==
    /\ call' = [call EXCEPT ![a] = NoCall]
    /\ IF a.role # "worker" THEN UNCHANGED <<pc, work>>
       ELSE \/ pc[a.msg] = "discard" /\ Goto(a.msg, "done") /\ UNCHANGED work
            \/ pc[a.msg] = "finalize" /\ ok /\ Goto(a.msg, "write") /\ UNCHANGED work
            \/ /\ pc[a.msg] = "finalize_cancelled" \/ (pc[a.msg] = "finalize" /\ ~ok)
               /\ rollback_ack(a.msg)

\* cancel() by a client.
cancel ==
    /\ call[Client] = NoCall
    /\ Spend("cancels", MaxCancels)
    /\ Begin(Client, "cancel", "lock")
    /\ UNCHANGED <<store, cache, queue, work, active, failure, lock, pc, child, cancelled>>

\* _finalize_task_on_owner looks at the index before it asks for the lock.
finalize_check(a) ==
    /\ call[a].step = "check"
    /\ IF has_work THEN Finish(a, TRUE)
       ELSE Begin(a, "finalize", "lock") /\ UNCHANGED <<pc, work>>
    /\ UNCHANGED <<store, cache, queue, active, failure, lock, child, cancelled, spent>>

\* Mutant: a failed work item is forgotten.
Final_blind(task) ==
    [task EXCEPT !.status = IF task.status = "cancelling" THEN "cancelled"
                            ELSE IF task.error THEN "failed" ELSE "completed"]

\* The terminal record of a task that is to be finalized.
Final(task) ==
    LET error == task.error \/ (task.status # "cancelling" /\ failure)
    IN  [task EXCEPT !.error = error,
                     !.status = IF task.status = "cancelling" THEN "cancelled"
                                ELSE IF error THEN "failed" ELSE "completed"]

\* Mutant: a task that is over is cancelled.
MayCancel_over(task) == task.status \notin {"cancelling", "cancelled"}

\* cancel: what is not yet cancelling or terminal.
MayCancel(task) == task.status \in Unanswered

\* The record an operation is to write, if it is to write one.
Draft(op, task) ==
    {new \in Record :
        \/ /\ op = "start" /\ task.status \in Unanswered
           /\ new = [task EXCEPT !.status = "running"]
        \/ /\ op \in {"complete", "fail"} /\ task.status \in Unanswered
           /\ new = [task EXCEPT !.result = @ \/ op = "complete",
                                 !.error = @ \/ op = "fail" \/ failure]
        \/ /\ op = "cancel" /\ MayCancel(task)
           /\ new = [task EXCEPT !.status = "cancelling"]
        \/ /\ op = "finalize" /\ task.status \in ActiveStatus /\ ~has_work
           /\ task.status = "cancelling" \/ task.result \/ task.error \/ failure
           /\ new = Final(task)}

\* cancel_active
Interrupt(op) ==
    cancelled' = IF op = "cancel" THEN cancelled \union active ELSE cancelled

\* The rest of an operation after its record is written, or was not to be:
\* complete, fail and cancel go on to finalize the task.
Then(a) ==
    LET op == call[a].op
    IN  IF op \in {"complete", "fail", "cancel"}
        THEN Begin(a, "finalize", "check") /\ UNCHANGED <<pc, work>>
        ELSE Finish(a, TRUE)

\* Mutant: nobody waits for the lock.
acquire_any == TRUE

\* _task_locks: one operation at a time.
acquire == lock = None

\* The lock is free: read the record under it.
with_task_lock(a) ==
    /\ call[a].step = "lock"
    /\ acquire
    /\ LET op == call[a].op
           drafts == Draft(op, Loaded)
       IN  \/ \E new \in drafts :
                /\ call' = [call EXCEPT ![a] = [op |-> op, step |-> "store", draft |-> new]]
                /\ lock' = a
                /\ UNCHANGED <<pc, work, cancelled>>
           \/ /\ drafts = {}
              /\ IF op = "cancel" /\ Loaded.status \in Terminal
                 THEN Finish(a, TRUE) /\ UNCHANGED cancelled
                 ELSE Then(a) /\ Interrupt(op)
              /\ UNCHANGED lock
    /\ UNCHANGED <<store, cache, queue, active, failure, child, spent>>

\* _persist_and_publish: the store first.
persist(a) ==
    /\ call[a].step = "store"
    /\ store' = call[a].draft
    /\ call' = [call EXCEPT ![a].step = "publish"]
    /\ UNCHANGED <<cache, queue, work, active, failure, lock, pc, child, cancelled, spent>>

\* The write fails.  The root's handler turns that into an error of the task; if
\* that one fails as well, the exception leaves the handler.
persist_fails(a) ==
    /\ call[a].step = "store"
    /\ Spend("faults", MaxFaults)
    /\ lock' = None
    /\ \/ /\ a.role = "handler" /\ pc[a.msg] \in Handling
          /\ \/ /\ call[a].op # "fail"
                /\ Begin(a, "fail", "lock")
                /\ Goto(a.msg, "answered")
                /\ UNCHANGED <<active, failure>>
             \/ /\ call[a].op = "fail"
                /\ call' = [call EXCEPT ![a] = NoCall]
                /\ Escape(a.msg)
          /\ UNCHANGED work
       \/ /\ ~(a.role = "handler" /\ pc[a.msg] \in Handling)
          /\ Finish(a, FALSE)
          /\ UNCHANGED <<active, failure>>
    /\ UNCHANGED <<store, cache, queue, child, cancelled>>

\* Then the cache; the lock is free again, a cancel interrupts the workers and a
\* finalization clears the failures, which nobody reads any more.
publish(a) ==
    /\ call[a].step = "publish"
    /\ cache' = call[a].draft
    /\ lock' = None
    /\ failure' = (failure /\ call[a].op # "finalize")
    /\ Then(a)
    /\ Interrupt(call[a].op)
    /\ UNCHANGED <<store, queue, active, child, spent>>

\* The handler a tracker operation ran for was cancelled while it waited for the
\* lock; once its record is stored an operation runs to completion.
abandon(m) ==
    /\ call[Handler(m)].step = "lock" /\ call[Handler(m)].op # "finalize"
    /\ pc[m] \notin Handling
    /\ call' = [call EXCEPT ![Handler(m)] = NoCall]
    /\ UNCHANGED <<store, cache, queue, work, active, failure, lock, pc, child, cancelled, spent>>

\* The cache is full of newer tasks.
evict ==
    /\ Evicts
    /\ cache # None
    /\ cache' = None
    /\ UNCHANGED <<store, queue, work, active, failure, lock, call, pc, child, cancelled, spent>>

\* get() brings a record back that is not cached.
get ==
    /\ cache = None
    /\ cache' = store
    /\ UNCHANGED <<store, queue, work, active, failure, lock, call, pc, child, cancelled, spent>>

-----------------------------------------------------------------------------
\* Mutant: the messages that were being processed are not indexed again.
Recovered_waiting(q) == {m \in Msg : queue[m] = "pending" /\ q[m] = "pending"}

\* rebuild: the messages that have not been acknowledged.
Recovered(q) == {m \in Msg : q[m] = "pending"}

\* What a crash leaves of a message that is not in the queue: the submitter is
\* gone, a handler comes again.
Unsent(m) == IF queue[m] = "none" /\ m # Root THEN "none" ELSE "lost"

\* The server dies and starts again: recover_stale puts messages in processing
\* back, rebuild indexes them, and restore_work_tasks loads the record.
crash ==
    /\ Spend("crashes", MaxCrashes)
    /\ \E ended \in SUBSET {m \in Msg : queue[m] = "writing"} :
        queue' = [m \in Msg |-> IF queue[m] = "processing" \/ m \in ended THEN "pending"
                                ELSE IF queue[m] \in {"none", "writing"} THEN Unsent(m)
                                ELSE queue[m]]
    /\ work' = Recovered(queue')
    /\ cache' = IF work' # {} THEN store ELSE None
    /\ active' = {}
    /\ failure' = FALSE
    /\ lock' = None
    /\ call' = [a \in Actor |-> NoCall]
    /\ pc' = [m \in Msg |-> "idle"]
    /\ child' = [m \in Msg |-> None]
    /\ cancelled' = {}
    /\ UNCHANGED store

WorkerStep(m) ==
    \/ enqueue_written(m) \/ dequeue(m) \/ process_dequeued(m) \/ register_active(m)
    \/ ack(m) \/ ack_written(m) \/ CancelledError(m)

HandlerStep(m) ==
    \/ replay(m) \/ \E op \in {"complete", "fail"} : record_outcome(m, op)
    \/ \E failed \in BOOLEAN : on_dequeue_returns(m, failed)

TrackerStep(a) == finalize_check(a) \/ with_task_lock(a) \/ persist(a) \/ publish(a)

Fault(m) == enqueue_fails(m) \/ ack_fails(m) \/ on_dequeue_raises(m) \/ abandon(m)

Next ==
    \/ \E m \in Msg : enqueue(m) \/ WorkerStep(m) \/ HandlerStep(m) \/ Fault(m)
    \/ \E a \in Actor : TrackerStep(a) \/ persist_fails(a)
    \/ cancel \/ evict \/ get \/ crash

Spec == Init /\ [][Next]_vars

\* Workers and the tracker run, and handlers come to an end.
FairSpec ==
    /\ Spec
    /\ \A m \in Msg : WF_vars(WorkerStep(m)) /\ WF_vars(HandlerStep(m))
    /\ \A a \in Actor : WF_vars(TrackerStep(a))

-----------------------------------------------------------------------------
Labels == {"idle", "fetched", "register", "ack", "finalize", "finalize_cancelled", "write",
           "write_unprepared", "stuck", "discard", "done"} \union Handling

\* An actor's operation of the tracker, and the record it is to store.
Operation == [op : {"none", "start", "complete", "fail", "cancel", "finalize"},
              step : {"none", "check", "lock", "store", "publish"},
              draft : Record \union {None}]

\* The lock is held exactly by the operation that has a record to store.
LockHolder ==
    /\ lock # None => call[lock].step \in {"store", "publish"}
    /\ \A a \in Actor : call[a].step \in {"store", "publish"} => lock = a

\* Every variable has its type, and the lock of the task (KeyedAsyncLockPool) is
\* held by one operation at a time, from its read to its publication.
TypeOK ==
    /\ store \in Record /\ cache \in Record \union {None}
    /\ queue \in [Msg -> {"none", "writing", "pending", "processing", "acked", "lost"}]
    /\ work \subseteq Msg /\ active \subseteq Msg /\ cancelled \subseteq Msg
    /\ failure \in BOOLEAN
    /\ lock \in Actor \union {None}
    /\ call \in [Actor -> Operation]
    /\ pc \in [Msg -> Labels]
    /\ child \in [Msg -> Msg \union {None}]
    /\ LockHolder

\* _finalize_before_ack, "Persist the terminal state before QueueFS removes the
\* last recovery message": when every message is gone the stored record is
\* terminal, or no restart would ever finish the task.
LastMessage ==
    queue[Root] = "acked" /\ (\A m \in Msg : queue[m] \in {"none", "acked", "lost"})
        => store.status \in Terminal

\* A task becomes terminal only after the work it owns has settled: no message
\* is written, waits or is being handled.
SettledFirst ==
    [][store.status \notin Terminal /\ store'.status \in Terminal =>
            \A m \in Msg : /\ queue[m] \notin {"writing", "pending"}
                           /\ pc[m] \notin {"fetched", "register"} \union Handling]_vars

\* A terminal record never changes: of a finalization and an outcome or a
\* cancellation that race, the later one finds the task closed.
TerminalIsFinal == [][store.status \in Terminal => store' = store]_vars

\* While the index remembers that a work item of the task failed, which it does
\* until the server restarts (rebuild starts with no failures), the task is not
\* reported as completed, whoever finalizes it and when.
FailureWins ==
    [][store.status # "completed" /\ store'.status = "completed" => ~failure]_vars

\* The same of failures before a restart, which the index does not keep.
FailureOutlivesRestart == [](failure => [](store.status # "completed"))

\* Once the record of the task says that it is being cancelled, and cancel() has
\* let go of it, no message of the task is enqueued: cancellation "immediately
\* prevents the task from creating new QueueFS work".
NoNewWork ==
    [][/\ store.status \in {"cancelling", "cancelled"}
       /\ lock = None \/ call[lock].op # "cancel"
       => \A m \in Msg : queue[m] = "none" => queue'[m] # "writing"]_vars

\* A task whose first message is in the queue ends, crashes included.
TaskEnds == queue[Root] = "pending" ~> store.status \in Terminal

\* A task that is being cancelled becomes cancelled.
CancelEnds == store.status = "cancelling" ~> store.status = "cancelled"

-----------------------------------------------------------------------------
(***************************************************************************)
(* The inductive invariants: SafeInv for every task, and SettleInv for the *)
(* tasks nobody cancels.                                                   *)
(***************************************************************************)
Cancellation == {"cancelling", "cancelled"}

\* Only the worker that finalizes for its message is in the tracker, and a message
\* has no worker before it is in the queue.
WorkersCall ==
    \A m \in Msg :
        /\ pc[m] \notin {"discard", "finalize", "finalize_cancelled"} => call[Worker(m)] = NoCall
        /\ queue[m] \in {"none", "writing"} => pc[m] = "idle"

\* The published record is the stored one, but for the moment between the two
\* writes of the operation that holds the lock.
CacheAgrees ==
    (\A a \in Actor : call[a].step # "publish") => cache \in {None, store}

\* What holds of a record on its way to the store: it was made from a record that
\* was not terminal and is stored still, and only a finalization or a cancel()
\* closes a task.
DraftsAreFresh ==
    \A a \in Actor :
        call[a].step = "store" =>
            /\ call[a].draft \in Record
            /\ store.status \notin Terminal
            /\ call[a].draft.status \in Terminal => call[a].op = "finalize"
            /\ call[a].draft.status \in Cancellation /\ call[a].op # "cancel"
                   => store.status \in Cancellation

\* A record that is stored and not yet published: that the task is being cancelled
\* is known already, unless a cancel() is publishing it.
PublicationsAgree ==
    \A a \in Actor :
        call[a].step = "publish" =>
            /\ call[a].draft = store
            /\ cache # None /\ store.status \in Cancellation /\ call[a].op # "cancel"
                   => cache.status \in Cancellation

\* Without eviction the record is out of the cache only after a restart that found
\* no message to work on.
UncachedIsQuiet ==
    ~Evicts /\ cache = None =>
        /\ queue[Root] # "none"
        /\ \A m \in Msg : pc[m] = "idle" /\ queue[m] \in {"none", "acked", "lost"}

SafeInv ==
    /\ TypeOK /\ WorkersCall /\ CacheAgrees /\ DraftsAreFresh /\ PublicationsAgree
    /\ UncachedIsQuiet

\* Nobody cancels: no status, operation or label of a cancellation is met.
Uncancelled ==
    /\ spent \in [cancels : {0}, crashes : Nat, faults : Nat]
    /\ store.status \notin Cancellation
    /\ cache # None => cache.status \notin Cancellation
    /\ cancelled = {}
    /\ \A a \in Actor : /\ call[a].op # "cancel"
                        /\ call[a].step = "store" => call[a].draft.status \notin Cancellation
    /\ call[Client] = NoCall

\* Where the worker of a message is tells where the message is.
Delivered(m) ==
    /\ pc[m] = "idle" => queue[m] # "processing"
    /\ pc[m] = "discard" => queue[m] = "lost"
    /\ pc[m] = "done" => queue[m] \in {"acked", "lost"}
    /\ pc[m] \notin {"idle", "discard", "done"} => queue[m] = "processing"

\* The index knows every message that is on its way or in the hands of a handler,
\* and nothing else but those whose ack has failed.
Indexed(m) ==
    /\ queue[m] \in {"writing", "pending"}
         \/ pc[m] \in {"fetched", "register", "ack", "stuck"} \union Handling => m \in work
    /\ m \in work => queue[m] \in {"writing", "pending", "processing"}
    /\ m \in active <=> pc[m] \in Handling
    /\ pc[m] \in {"finalize", "write"} => m \notin work
    /\ pc[m] \notin {"write_unprepared", "finalize_cancelled"}

\* A message being written has an enqueuer that waits, unless it is the first, and
\* a handler waits for one thing at a time.
Enqueued(c) ==
    /\ queue[c] = "writing" /\ c # Root => \E m \in Msg : child[m] = c /\ pc[m] \in Handling
    /\ child[c] = None \/ call[Handler(c)] = NoCall

\* Nothing happens before the first message is enqueued.
RootIsFirst ==
    queue[Root] = "none" =>
        /\ \A m \in Msg : queue[m] = "none"
        /\ \A a \in Actor : call[a] = NoCall

\* A result or an error, once stored, is there to the end.
Answered(task) == task.result \/ task.error \/ task.status \in Terminal

\* The calls of handlers, all of the root's; a handler never finalizes.
RootCalls ==
    \A m \in Msg :
        call[Handler(m)] # NoCall =>
            /\ m = Root /\ pc[m] \in Handling
            /\ call[Handler(m)].op # "none"
            /\ call[Handler(m)].op = "finalize" <=> call[Handler(m)].step = "check"

\* The root leaves its handler with an answer in the store; an operation on its
\* way to give one has nothing but its own failure in between.
RootAnswers ==
    /\ pc[Root] = "answered" =>
          \/ call[Handler(Root)].op \in {"complete", "fail"}
          \/ call[Handler(Root)].op \in {"none", "finalize"} /\ Answered(store)
    /\ pc[Root] \in {"ack", "finalize", "write"} \/ queue[Root] = "acked" => Answered(store)

\* What an operation that holds the lock is about to store or has stored.
DraftsAnswer ==
    /\ cache # None /\ Answered(cache) => Answered(store)
    /\ \A a \in Actor :
          call[a].step \in {"store", "publish"} =>
             /\ Answered(store) => Answered(call[a].draft)
             /\ call[a].op \in {"complete", "fail"} => Answered(call[a].draft)
             /\ call[a].op = "finalize" => call[a].draft.status \in Terminal

\* No message is on its way and no handler runs.
Settled ==
    \A m \in Msg : /\ queue[m] \notin {"writing", "pending"}
                  /\ pc[m] \notin {"fetched", "register"} \union Handling

\* A finalization that has the lock has found the work settled and the failures
\* counted, and nothing can change that before it has stored its record.
FinalizesSettled ==
    \A a \in Actor :
        call[a].op = "finalize" /\ call[a].step = "store" =>
            /\ Settled
            /\ call[a].draft.status = "completed" => ~failure

\* As long as the task is not over somebody will finalize it: some work is left in
\* the index, or the worker that took the last of it out is at it.
SomebodyFinalizes ==
    store.status \notin Terminal /\ queue[Root] \notin {"none", "lost"} =>
        work # {} \/ \E m \in Msg : pc[m] = "finalize"

\* Workers finalize, and do nothing else.
WorkersFinalize ==
    \A m \in Msg :
        call[Worker(m)] = NoCall \/ call[Worker(m)].op = "finalize"

SettleInv ==
    /\ SafeInv /\ Uncancelled /\ RootIsFirst /\ RootCalls /\ RootAnswers /\ DraftsAnswer
    /\ FinalizesSettled /\ SomebodyFinalizes /\ WorkersFinalize
    /\ \A m \in Msg : Delivered(m) /\ Indexed(m) /\ Enqueued(m)

=============================================================================
