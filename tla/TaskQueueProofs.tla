--------------------------- MODULE TaskQueueProofs ---------------------------
(* A terminal record is final and a cancelled task gets no new work, for    *)
(* every set of messages and every number of cancels, crashes and faults;   *)
(* of a task nobody cancels, that it is closed only when its work has       *)
(* settled, that a failure is not lost, and that its last message is not    *)
(* deleted before it is closed.                                             *)
EXTENDS TaskQueue, TLAPS

\* The steps of an operation in which it holds the lock of the task.
Held == {"store", "publish"}

\* Handlers, workers and the client are different callers, and nobody else calls.
LEMMA Actors ==
    /\ Client \in Actor
    /\ Client.role = "client"
    /\ \A m \in Msg :
          /\ Handler(m) \in Actor /\ Handler(m).role = "handler" /\ Handler(m).msg = m
          /\ Worker(m) \in Actor /\ Worker(m).role = "worker" /\ Worker(m).msg = m
    /\ \A m \in Msg : Handler(m) # Client /\ Worker(m) # Client
    /\ \A m, n \in Msg : Handler(m) # Worker(n)
    /\ \A m, n \in Msg : (Handler(m) = Handler(n) \/ Worker(m) = Worker(n)) => m = n
    /\ \A a \in Actor : a.role # "worker" =>
          a = Client \/ \E m \in Msg : a = Handler(m)
    /\ \A a \in Actor : a.role = "worker" => a.msg \in Msg /\ a = Worker(a.msg)
    /\ \A a \in Actor : a.role = "handler" => a.msg \in Msg /\ a = Handler(a.msg)
  <1>1. \A m \in Msg : Handler(m).role = "handler" /\ Handler(m).msg = m
                       /\ Worker(m).role = "worker" /\ Worker(m).msg = m
    BY DEF Handler, Worker
  <1>2. Client.role = "client"
    BY DEF Client
  <1>3. \A m \in Msg : Handler(m) \in Actor /\ Worker(m) \in Actor
    BY DEF Actor, Handler, Worker
  <1>4. Client \in Actor
    BY DEF Actor
  <1>5. ASSUME NEW a \in Actor
        PROVE  \/ a = Client
               \/ a.msg \in Msg /\ a.role = "handler" /\ a = Handler(a.msg)
               \/ a.msg \in Msg /\ a.role = "worker" /\ a = Worker(a.msg)
    BY <1>5 DEF Actor, Handler, Worker
  <1>6. QED
    BY <1>1, <1>2, <1>3, <1>4, <1>5

\* The operations that begin have their type and do not hold the lock.
LEMMA Beginnings ==
    /\ NoCall \in Operation /\ NoCall.step \notin Held
    /\ NoCall.op = "none" /\ NoCall.step = "none"
    /\ \A op \in {"start", "complete", "fail", "cancel", "finalize"}, step \in {"check", "lock"} :
          /\ [op |-> op, step |-> step, draft |-> None] \in Operation
          /\ [op |-> op, step |-> step, draft |-> None].step \notin Held
  BY DEF NoCall, Operation, Held

\* A step that leaves the records and the lock alone, and in which operations that
\* do not hold the lock begin, go on or end without it.
Moves ==
    /\ UNCHANGED <<store, cache, lock>>
    /\ call' \in [Actor -> Operation]
    /\ \A a \in Actor :
          call'[a] = call[a] \/ (call[a].step \notin Held /\ call'[a].step \notin Held)

\* One operation that does not hold the lock moves.
LEMMA OneMoves ==
    ASSUME TypeOK, NEW a \in Actor, NEW x \in Operation,
           call[a].step \notin Held, x.step \notin Held,
           call' = [call EXCEPT ![a] = x], UNCHANGED <<store, cache, lock>>
    PROVE  Moves
  BY DEF Moves, TypeOK

\* Such a step keeps what is known of the lock and the records.
LEMMA MovesKeep ==
    ASSUME SafeInv, Moves
    PROVE  /\ LockHolder' /\ CacheAgrees' /\ DraftsAreFresh' /\ PublicationsAgree'
           /\ store' \in Record /\ cache' \in Record \union {None}
           /\ lock' \in Actor \union {None} /\ call' \in [Actor -> Operation]
  <1> USE DEF SafeInv
  <1>1. \A a \in Actor : call'[a].step \in Held => call'[a] = call[a]
    BY DEF Moves
  <1>2. \A a \in Actor : call[a].step \in Held => call'[a] = call[a]
    BY DEF Moves
  <1>3. LockHolder'
    BY <1>1, <1>2 DEF LockHolder, Moves, TypeOK, Held
  <1>4. CacheAgrees'
    BY <1>1, <1>2 DEF CacheAgrees, Moves, Held
  <1>5. DraftsAreFresh'
    BY <1>1, <1>2 DEF DraftsAreFresh, Moves, Held
  <1>6. PublicationsAgree'
    BY <1>1, <1>2 DEF PublicationsAgree, Moves, Held
  <1>7. QED
    BY <1>3, <1>4, <1>5, <1>6 DEF Moves, TypeOK

\* The types of what is neither a record nor the tracker's.
DataType ==
    /\ queue \in [Msg -> {"none", "writing", "pending", "processing", "acked", "lost"}]
    /\ work \subseteq Msg /\ active \subseteq Msg /\ cancelled \subseteq Msg
    /\ failure \in BOOLEAN
    /\ pc \in [Msg -> Labels]
    /\ child \in [Msg -> Msg \union {None}]

\* The submitter's and the worker's steps that leave the tracker alone.
PlainStep(m) ==
    \/ enqueue(m) \/ enqueue_written(m) \/ dequeue(m) \/ process_dequeued(m)
    \/ register_active(m) \/ ack_written(m) \/ ack_fails(m) \/ on_dequeue_raises(m)
    \/ \E failed \in BOOLEAN : on_dequeue_returns(m, failed)

\* They leave the records, the lock and every operation alone.
LEMMA PlainMoves ==
    ASSUME SafeInv, NEW m \in Msg, PlainStep(m)
    PROVE  Moves /\ call' = call
  <1>1. UNCHANGED <<store, cache, lock, call>>
    BY DEF PlainStep, enqueue, enqueue_written, dequeue, process_dequeued, register_active,
           ack_written, ack_fails, on_dequeue_raises, on_dequeue_returns
  <1>2. QED
    BY <1>1 DEF SafeInv, TypeOK, Moves

\* The types survive them.
LEMMA PlainType ==
    ASSUME SafeInv, NEW m \in Msg, PlainStep(m)
    PROVE  DataType'
  <1> USE DEF SafeInv, TypeOK, DataType, Labels, Handling, Goto
  <1>1. CASE enqueue(m)
    BY <1>1 DEF enqueue, register
  <1>2. CASE enqueue_written(m)
    BY <1>2 DEF enqueue_written, Resume
  <1>3. CASE dequeue(m)
    BY <1>3 DEF dequeue
  <1>4. CASE process_dequeued(m)
    BY <1>4 DEF process_dequeued
  <1>5. CASE register_active(m)
    BY <1>5 DEF register_active
  <1>6. CASE ack_written(m)
    BY <1>6 DEF ack_written
  <1>7. CASE ack_fails(m)
    BY <1>7 DEF ack_fails, rollback_ack
  <1>8. CASE on_dequeue_raises(m)
    BY <1>8 DEF on_dequeue_raises, Escape
  <1>9. ASSUME NEW failed \in BOOLEAN, on_dequeue_returns(m, failed)
        PROVE  DataType'
    BY <1>9 DEF on_dequeue_returns
  <1>10. QED
    BY <1>1, <1>2, <1>3, <1>4, <1>5, <1>6, <1>7, <1>8, <1>9 DEF PlainStep


\* They are steps of a message that has a worker or is being enqueued.
LEMMA PlainRest ==
    ASSUME SafeInv, NEW m \in Msg, PlainStep(m)
    PROVE  WorkersCall' /\ UncachedIsQuiet'
  <1> USE DEF SafeInv
  <1>1. UNCHANGED <<store, cache, lock, call>>
    BY PlainMoves DEF Moves
  <1>2. /\ \A n \in Msg \ {m} : pc'[n] = pc[n] /\ queue'[n] = queue[n]
        /\ queue[m] \notin {"none", "writing"} => queue'[m] \notin {"none", "writing"}
        /\ queue[m] \in {"none", "writing"} => pc'[m] = "idle"
        /\ pc[m] \notin {"discard", "finalize", "finalize_cancelled"}
    <2> USE DEF Goto, TypeOK, WorkersCall
    <2>1. CASE enqueue(m)
      BY <2>1 DEF enqueue
    <2>2. CASE enqueue_written(m)
      BY <2>2 DEF enqueue_written
    <2>3. CASE dequeue(m) \/ process_dequeued(m) \/ register_active(m)
      BY <2>3 DEF dequeue, process_dequeued, register_active
    <2>4. CASE ack_written(m)
      BY <2>4 DEF ack_written
    <2>5. CASE ack_fails(m)
      BY <2>5 DEF ack_fails, rollback_ack
    <2>6. CASE on_dequeue_raises(m)
      BY <2>6 DEF on_dequeue_raises, Escape, Running, Handling
    <2>7. CASE \E failed \in BOOLEAN : on_dequeue_returns(m, failed)
      BY <2>7 DEF on_dequeue_returns, Running, Handling
    <2>8. QED
      BY <2>1, <2>2, <2>3, <2>4, <2>5, <2>6, <2>7 DEF PlainStep
  <1>3. WorkersCall'
    BY <1>1, <1>2 DEF WorkersCall
  <1>4. \/ queue[m] \in {"writing", "pending"}
        \/ m = Root /\ queue[m] = "none"
        \/ \E n \in Msg : pc[n] # "idle"
    <2>1. CASE enqueue(m)
      BY <2>1 DEF enqueue, Running, Handling
    <2>2. CASE enqueue_written(m) \/ dequeue(m) \/ process_dequeued(m) \/ register_active(m)
      BY <2>2 DEF enqueue_written, dequeue, process_dequeued, register_active
    <2>3. CASE ack_written(m) \/ ack_fails(m)
      BY <2>3 DEF ack_written, ack_fails
    <2>4. CASE on_dequeue_raises(m) \/ \E failed \in BOOLEAN : on_dequeue_returns(m, failed)
      BY <2>4 DEF on_dequeue_raises, on_dequeue_returns, Running, Handling
    <2>5. QED
      BY <2>1, <2>2, <2>3, <2>4 DEF PlainStep
  <1>5. UncachedIsQuiet'
    BY <1>1, <1>4 DEF UncachedIsQuiet
  <1>6. QED
    BY <1>3, <1>5

\* The end of an operation: the ack or the discard it was part of goes on.
LEMMA FinishEffect ==
    ASSUME TypeOK, NEW a \in Actor, NEW ok \in BOOLEAN, Finish(a, ok)
    PROVE  /\ call' = [call EXCEPT ![a] = NoCall]
           /\ a.role # "worker" => UNCHANGED <<pc, work>>
           /\ a.role = "worker" =>
                 /\ pc[a.msg] \in {"discard", "finalize", "finalize_cancelled"}
                 /\ \E l \in {"done", "write", "stuck"} : pc' = [pc EXCEPT ![a.msg] = l]
                 /\ work' \in {work, work \union {a.msg}}
  BY Actors DEF Finish, Goto, rollback_ack

\* The steps in which an operation begins, goes on or ends without the lock.
AskStep ==
    \/ \E m \in Msg : enqueue_fails(m) \/ ack(m) \/ replay(m) \/ CancelledError(m) \/ abandon(m)
    \/ \E m \in Msg, op \in {"complete", "fail"} : record_outcome(m, op)
    \/ \E a \in Actor : finalize_check(a)
    \/ cancel

\* What each of them shows.
Kept == Moves /\ DataType' /\ WorkersCall' /\ UncachedIsQuiet'

\* The worker of a message begins to finalize.
LEMMA WorkerBegins ==
    ASSUME SafeInv, NEW m \in Msg, pc[m] \notin {"discard", "finalize", "finalize_cancelled"},
           Begin(Worker(m), "finalize", "check"), UNCHANGED <<store, cache, lock>>
    PROVE  Moves /\ \A n \in Msg \ {m} : call'[Worker(n)] = call[Worker(n)]
  <1> USE DEF SafeInv
  <1>1. call[Worker(m)].step \notin Held
    BY Beginnings DEF WorkersCall
  <1>2. Moves
    BY <1>1, Actors, Beginnings, OneMoves DEF Begin
  <1>3. \A n \in Msg \ {m} : call'[Worker(n)] = call[Worker(n)]
    BY Actors DEF Begin, TypeOK
  <1>4. QED
    BY <1>2, <1>3

\* A failed write of a message.
LEMMA EnqueueFailsKeeps ==
    ASSUME SafeInv, NEW m \in Msg, enqueue_fails(m)
    PROVE  Kept
  <1> USE DEF SafeInv, enqueue_fails
  <1>1. pc[m] = "idle"
    BY DEF WorkersCall
  <1>2. CASE became_idle(m)
    <2>1. Moves /\ \A n \in Msg \ {m} : call'[Worker(n)] = call[Worker(n)]
      BY <1>1, <1>2, WorkerBegins
    <2>2. DataType'
      BY <1>2 DEF DataType, TypeOK, Resume, Goto, Labels
    <2>3. WorkersCall'
      BY <2>1, <1>2 DEF WorkersCall, Goto, TypeOK
    <2>4. QED
      BY <2>1, <2>2, <2>3 DEF Kept, UncachedIsQuiet
  <1>3. CASE ~became_idle(m)
    BY <1>3, <1>1 DEF Kept, Moves, DataType, TypeOK, Resume, WorkersCall, UncachedIsQuiet
  <1>4. QED
    BY <1>2, <1>3

\* prepare_ack.
LEMMA AckKeeps ==
    ASSUME SafeInv, NEW m \in Msg, ack(m)
    PROVE  Kept
  <1> USE DEF SafeInv, ack
  <1>1. queue[m] \notin {"none", "writing"}
    BY DEF WorkersCall
  <1>2. DataType'
    BY DEF DataType, TypeOK, Goto, Labels
  <1>3. UncachedIsQuiet'
    BY DEF UncachedIsQuiet
  <1>4. CASE became_idle(m)
    <2>1. Moves /\ \A n \in Msg \ {m} : call'[Worker(n)] = call[Worker(n)]
      BY <1>4, WorkerBegins
    <2>2. WorkersCall'
      BY <2>1, <1>4, <1>1 DEF WorkersCall, Goto, TypeOK
    <2>3. QED
      BY <2>1, <2>2, <1>2, <1>3 DEF Kept
  <1>5. CASE ~became_idle(m)
    <2>1. Moves
      BY <1>5 DEF Moves, TypeOK
    <2>2. WorkersCall'
      BY <1>5, <1>1 DEF WorkersCall, Goto, TypeOK
    <2>3. QED
      BY <2>1, <2>2, <1>2, <1>3 DEF Kept
  <1>6. QED
    BY <1>4, <1>5

\* A handler that waits for nothing calls the tracker, or passes on.
LEMMA HandlerBegins ==
    ASSUME SafeInv, NEW m \in Msg, Running(m),
           NEW op \in {"start", "complete", "fail"}, NEW l \in Handling, Goto(m, l),
           Begin(Handler(m), op, "lock") \/ UNCHANGED call,
           UNCHANGED <<store, cache, lock, queue, work, active, failure, child, cancelled>>
    PROVE  Kept
  <1> USE DEF SafeInv
  <1>1. Moves
    <2>1. CASE Begin(Handler(m), op, "lock")
      BY <2>1, Actors, Beginnings, OneMoves DEF Begin, Running
    <2>2. CASE UNCHANGED call
      BY <2>2 DEF Moves, TypeOK
    <2>3. QED
      BY <2>1, <2>2
  <1>2. DataType'
    BY DEF DataType, TypeOK, Goto, Labels
  <1>3. \A n \in Msg : call'[Worker(n)] = call[Worker(n)]
    BY Actors DEF Begin, TypeOK
  <1>4. WorkersCall'
    BY <1>3 DEF WorkersCall, Goto, TypeOK, Running, Handling
  <1>5. UncachedIsQuiet'
    BY DEF UncachedIsQuiet, Running, Handling
  <1>6. QED
    BY <1>1, <1>2, <1>4, <1>5 DEF Kept

\* The root's handler.
LEMMA ReplayKeeps ==
    ASSUME SafeInv, NEW m \in Msg, replay(m)
    PROVE  Kept
  <1>1. PICK l \in {"answered", "recorded", "started"} :
            /\ Goto(m, l)
            /\ Begin(Handler(m), "start", "lock") \/ UNCHANGED call
    BY DEF replay
  <1>2. QED
    BY <1>1, HandlerBegins DEF replay, Handling

\* The root's handler records an outcome.
LEMMA RecordKeeps ==
    ASSUME SafeInv, NEW m \in Msg, NEW op \in {"complete", "fail"}, record_outcome(m, op)
    PROVE  Kept
  <1>1. PICK l \in {"answered", "recorded"} : Goto(m, l)
    BY DEF record_outcome
  <1>2. QED
    BY <1>1, HandlerBegins DEF record_outcome, Handling

\* An operation that only ends or begins again where it was not in the lock.
LEMMA CallKeeps ==
    ASSUME SafeInv, NEW a \in Actor, call[a].step \notin Held,
           NEW x \in Operation, x.step \notin Held, call' = [call EXCEPT ![a] = x],
           a.role = "worker" => x = NoCall \/ pc[a.msg] \in {"discard", "finalize", "finalize_cancelled"},
           UNCHANGED <<store, cache, lock, queue, work, active, failure, pc, child, cancelled>>
    PROVE  Kept
  <1> USE DEF SafeInv
  <1>1. Moves
    BY OneMoves
  <1>2. DataType'
    BY DEF DataType, TypeOK
  <1>3. \A n \in Msg : call'[Worker(n)] = call[Worker(n)] \/ (a = Worker(n) /\ call'[Worker(n)] = x)
    BY Actors DEF TypeOK
  <1>4. WorkersCall'
    BY <1>3, Actors DEF WorkersCall
  <1>5. UncachedIsQuiet'
    BY DEF UncachedIsQuiet
  <1>6. QED
    BY <1>1, <1>2, <1>4, <1>5 DEF Kept

\* The end of an operation that was not in the lock.
LEMMA FinishKeeps ==
    ASSUME SafeInv, NEW a \in Actor, call[a].step \notin Held, call[a] # NoCall,
           NEW ok \in BOOLEAN, Finish(a, ok),
           UNCHANGED <<store, cache, lock, queue, active, failure, child>>,
           cancelled' \subseteq Msg
    PROVE  Kept
  <1> USE DEF SafeInv
  <1>1. /\ call' = [call EXCEPT ![a] = NoCall]
        /\ a.role # "worker" => UNCHANGED <<pc, work>>
        /\ a.role = "worker" =>
                 /\ pc[a.msg] \in {"discard", "finalize", "finalize_cancelled"}
                 /\ \E l \in {"done", "write", "stuck"} : pc' = [pc EXCEPT ![a.msg] = l]
                 /\ work' \in {work, work \union {a.msg}}
    BY FinishEffect
  <1>2. Moves
    BY <1>1, OneMoves, Beginnings
  <1>3. DataType'
    BY <1>1, Actors DEF DataType, TypeOK, Labels
  <1>4. \A n \in Msg : call'[Worker(n)] = call[Worker(n)] \/ call'[Worker(n)] = NoCall
    BY <1>1, Actors DEF TypeOK
  <1>5. WorkersCall'
    <2>1. CASE a.role # "worker"
      BY <2>1, <1>1, <1>4 DEF WorkersCall
    <2>2. CASE a.role = "worker"
      <3>1. call'[Worker(a.msg)] = NoCall
        BY <2>2, <1>1, Actors DEF TypeOK
      <3>2. QED
        BY <2>2, <3>1, <1>1, <1>4, Actors DEF WorkersCall, TypeOK
    <2>3. QED
      BY <2>1, <2>2
  <1>6. UncachedIsQuiet'
    BY <1>1, Actors DEF UncachedIsQuiet
  <1>7. QED
    BY <1>2, <1>3, <1>5, <1>6 DEF Kept

\* A CancelledError.
LEMMA CancelledErrorKeeps ==
    ASSUME SafeInv, NEW m \in Msg, CancelledError(m)
    PROVE  Kept
  <1> USE DEF SafeInv
  <1>1. UNCHANGED <<store, cache, lock, failure>> /\ cancelled' \subseteq Msg
    BY DEF CancelledError, TypeOK
  <1>2. pc[m] # "idle"
    BY DEF CancelledError, Handling
  <1>3. UncachedIsQuiet'
    BY <1>1, <1>2 DEF UncachedIsQuiet
  <1>4. DataType'
    <2>1. queue' \in [Msg -> {"none", "writing", "pending", "processing", "acked", "lost"}]
      BY DEF CancelledError, TypeOK, MayEnd
    <2>2. pc' \in [Msg -> Labels]
      BY DEF CancelledError, TypeOK, rollback_ack, Goto, Labels
    <2>3. work' \subseteq Msg /\ active' \subseteq Msg
      BY DEF CancelledError, TypeOK, rollback_ack
    <2>4. child' \in [Msg -> Msg \union {None}]
      BY DEF CancelledError, TypeOK
    <2>5. QED
      BY <2>1, <2>2, <2>3, <2>4, <1>1 DEF DataType, TypeOK
  <1>5. \/ call' = call
        \/ /\ pc[m] = "finalize" /\ call[Worker(m)].step \in {"check", "lock"}
           /\ call' = [call EXCEPT ![Worker(m)] = NoCall]
    BY DEF CancelledError
  <1>6. Moves
    BY <1>1, <1>5, OneMoves, Beginnings, Actors DEF Moves, TypeOK, Held
  <1>7. WorkersCall'
    <2>1. \A n \in Msg : call'[Worker(n)] = call[Worker(n)] \/ call'[Worker(n)] = NoCall
      BY <1>5, Actors DEF TypeOK
    <2>2. \A n \in Msg \ {m} : pc'[n] = pc[n]
      BY DEF CancelledError, rollback_ack, Goto, TypeOK
    <2>3. \A n \in Msg : queue'[n] \in {"none", "writing"} => queue[n] \in {"none", "writing"}
      BY DEF CancelledError, TypeOK, MayEnd
    <2>4. queue[m] \notin {"none", "writing"}
      BY <1>2 DEF WorkersCall
    <2>5. pc'[m] \in {"discard", "finalize", "finalize_cancelled"}
          \/ call'[Worker(m)] = NoCall
      <3>1. CASE pc[m] = "finalize"
        <4>1. CASE call[Worker(m)].step \in {"check", "lock"}
          BY <3>1, <4>1, Actors DEF CancelledError, TypeOK, Handling
        <4>2. CASE call[Worker(m)].step \notin {"check", "lock"}
          BY <3>1, <4>2 DEF CancelledError, Goto, TypeOK, Handling
        <4>3. QED
          BY <4>1, <4>2
      <3>2. CASE pc[m] # "finalize"
        BY <3>2 DEF CancelledError, WorkersCall, Handling
      <3>3. QED
        BY <3>1, <3>2
    <2>6. QED
      BY <2>1, <2>2, <2>3, <2>4, <2>5 DEF WorkersCall
  <1>8. QED
    BY <1>3, <1>4, <1>6, <1>7 DEF Kept

\* All of them.
LEMMA AskKeeps ==
    ASSUME SafeInv, AskStep
    PROVE  Kept
  <1> USE DEF SafeInv
  <1>1. ASSUME NEW m \in Msg, abandon(m)
        PROVE  Kept
    <2>1. UNCHANGED <<store, cache, lock, queue, work, active, failure, pc, child, cancelled>>
          /\ call' = [call EXCEPT ![Handler(m)] = NoCall]
      BY <1>1 DEF abandon
    <2>2. call[Handler(m)].step \notin Held
      BY <1>1 DEF abandon, Held
    <2>3. QED
      BY <2>1, <2>2, CallKeeps, Actors, Beginnings
  <1>2. ASSUME cancel
        PROVE  Kept
    <2>1. UNCHANGED <<store, cache, lock, queue, work, active, failure, pc, child, cancelled>>
          /\ call' = [call EXCEPT ![Client] = [op |-> "cancel", step |-> "lock", draft |-> None]]
      BY <1>2 DEF cancel, Begin
    <2>2. call[Client].step \notin Held
      BY <1>2, Beginnings DEF cancel
    <2>3. QED
      BY <2>1, <2>2, CallKeeps, Actors, Beginnings
  <1>3. ASSUME NEW a \in Actor, finalize_check(a)
        PROVE  Kept
    <2>1. call[a].step \notin Held /\ call[a] # NoCall
      BY <1>3, Beginnings DEF finalize_check, Held
    <2>2. CASE has_work
      BY <2>1, <2>2, <1>3, FinishKeeps DEF finalize_check, TypeOK
    <2>3. CASE ~has_work
      <3>1. UNCHANGED <<store, cache, lock, queue, work, active, failure, pc, child, cancelled>>
            /\ call' = [call EXCEPT ![a] = [op |-> "finalize", step |-> "lock", draft |-> None]]
        BY <1>3, <2>3 DEF finalize_check, Begin
      <3>2. a.role = "worker" => pc[a.msg] \in {"discard", "finalize", "finalize_cancelled"}
        BY <2>1, Actors DEF WorkersCall
      <3>3. QED
        BY <3>1, <3>2, <2>1, CallKeeps, Beginnings
    <2>4. QED
      BY <2>2, <2>3
  <1>4. QED
    BY <1>1, <1>2, <1>3, EnqueueFailsKeeps, AckKeeps, ReplayKeeps, CancelledErrorKeeps,
       RecordKeeps DEF AskStep


\* With nobody in the lock the record an operation reads is the stored one.
LEMMA ReadsStored ==
    ASSUME SafeInv, lock = None
    PROVE  /\ Loaded = store
           /\ \A a \in Actor : call[a].step \notin Held
  <1>1. \A a \in Actor : call[a].step \notin Held
    BY NobodyAssumption DEF SafeInv, TypeOK, LockHolder, Held
  <1>2. QED
    BY <1>1 DEF SafeInv, CacheAgrees, Loaded, Held

\* The rest of an operation without the lock: it goes on to finalize, or ends.
LEMMA ThenKeeps ==
    ASSUME SafeInv, NEW a \in Actor, call[a].step \notin Held, call[a] # NoCall, Then(a),
           UNCHANGED <<store, cache, lock, queue, active, failure, child>>,
           cancelled' \subseteq Msg
    PROVE  Kept
  <1> USE DEF SafeInv
  <1>1. CASE Finish(a, TRUE)
    BY <1>1, FinishKeeps
  <1>2. CASE Begin(a, "finalize", "check") /\ UNCHANGED <<pc, work>>
    <2>1. call' = [call EXCEPT ![a] = [op |-> "finalize", step |-> "check", draft |-> None]]
      BY <1>2 DEF Begin
    <2>2. Moves
      BY <2>1, OneMoves, Beginnings
    <2>3. DataType'
      BY <1>2 DEF DataType, TypeOK
    <2>4. \A n \in Msg : call'[Worker(n)] = call[Worker(n)] \/ a = Worker(n)
      BY <2>1, Actors DEF TypeOK
    <2>5. WorkersCall'
      BY <1>2, <2>4 DEF WorkersCall
    <2>6. UncachedIsQuiet'
      BY <1>2 DEF UncachedIsQuiet
    <2>7. QED
      BY <2>2, <2>3, <2>5, <2>6 DEF Kept
  <1>3. QED
    BY <1>1, <1>2 DEF Then

\* What a record to be written is, for an operation that found `task`.
LEMMA DraftFacts ==
    ASSUME NEW task \in Record, NEW op, NEW new \in Draft(op, task)
    PROVE  /\ new \in Record
           /\ task.status \notin Terminal
           /\ new.status \in Terminal => op = "finalize"
           /\ new.status \in Cancellation /\ op # "cancel" => task.status \in Cancellation
           /\ op \in {"start", "complete", "fail", "cancel", "finalize"}
  <1> USE DEF Record, Terminal, Unanswered, ActiveStatus, Cancellation
  <1>1. CASE op = "start"
    BY <1>1 DEF Draft
  <1>2. CASE op \in {"complete", "fail"}
    BY <1>2 DEF Draft
  <1>3. CASE op = "cancel"
    BY <1>3 DEF Draft, MayCancel
  <1>4. CASE op = "finalize"
    BY <1>4 DEF Draft, Final
  <1>5. QED
    BY <1>1, <1>2, <1>3, <1>4 DEF Draft

\* with_task_lock: the lock is taken with a fresh record, or the operation goes on.
LEMMA LockKeeps ==
    ASSUME SafeInv, NEW a \in Actor, with_task_lock(a)
    PROVE  SafeInv'
  <1> USE DEF SafeInv
  <1>1. lock = None /\ call[a].step = "lock"
    BY DEF with_task_lock, acquire
  <1>2. Loaded = store /\ \A b \in Actor : call[b].step \notin Held
    BY <1>1, ReadsStored
  <1>3. call[a] # NoCall
    BY <1>1, Beginnings
  <1>4. ASSUME NEW new \in Draft(call[a].op, Loaded),
               call' = [call EXCEPT ![a] = [op |-> call[a].op, step |-> "store", draft |-> new]],
               lock' = a,
               UNCHANGED <<store, cache, queue, work, active, failure, pc, child, cancelled>>
        PROVE  SafeInv'
    <2>0. store \in Record
      BY DEF TypeOK
    <2>1. /\ new \in Record
          /\ store.status \notin Terminal
          /\ new.status \in Terminal => call[a].op = "finalize"
          /\ new.status \in Cancellation /\ call[a].op # "cancel" => store.status \in Cancellation
          /\ call[a].op \in {"start", "complete", "fail", "cancel", "finalize"}
      BY <1>2, <2>0, DraftFacts
    <2>2. [op |-> call[a].op, step |-> "store", draft |-> new] \in Operation
      BY <2>1 DEF Operation
    <2>3. /\ call'[a] = [op |-> call[a].op, step |-> "store", draft |-> new]
          /\ \A b \in Actor \ {a} : call'[b] = call[b]
          /\ call' \in [Actor -> Operation]
      BY <1>4, <2>2 DEF TypeOK
    <2>4. LockHolder'
      BY <2>3, <1>4, <1>2, NobodyAssumption DEF LockHolder, Held
    <2>5. TypeOK'
      BY <1>4, <2>3, <2>4 DEF TypeOK
    <2>6. CacheAgrees'
      BY <1>4, <1>2, <2>3 DEF CacheAgrees, Held
    <2>7. DraftsAreFresh'
      BY <1>4, <1>2, <2>1, <2>3 DEF DraftsAreFresh, Held
    <2>8. PublicationsAgree'
      BY <1>4, <1>2, <2>3 DEF PublicationsAgree, Held
    <2>9. WorkersCall'
      <3>1. \A n \in Msg : call'[Worker(n)] = call[Worker(n)] \/ a = Worker(n)
        BY <2>3, Actors
      <3>2. QED
        BY <3>1, <1>3, <1>4 DEF WorkersCall
    <2>10. UncachedIsQuiet'
      BY <1>4 DEF UncachedIsQuiet
    <2>11. QED
      BY <2>5, <2>6, <2>7, <2>8, <2>9, <2>10
  <1>5. ASSUME Kept
        PROVE  SafeInv'
    BY <1>5, MovesKeep DEF Kept, TypeOK, DataType
  <1>6. UNCHANGED <<store, cache, queue, active, failure, child>>
    BY DEF with_task_lock
  <1> DEFINE Goes ==
          /\ UNCHANGED lock
          /\ \/ Finish(a, TRUE) /\ UNCHANGED cancelled
             \/ Then(a) /\ Interrupt(call[a].op)
  <1> DEFINE Takes ==
          \E new \in Draft(call[a].op, Loaded) :
              /\ call' = [call EXCEPT ![a] = [op |-> call[a].op, step |-> "store", draft |-> new]]
              /\ lock' = a
              /\ UNCHANGED <<pc, work, cancelled>>
  <1>7. CASE Goes
    <2>1. cancelled' \subseteq Msg
      BY <1>7 DEF Interrupt, TypeOK
    <2>2. Kept
      BY <1>7, <2>1, <1>2, <1>3, <1>6, FinishKeeps, ThenKeeps
    <2>3. QED
      BY <2>2, <1>5
  <1>8. CASE Takes
    BY <1>8, <1>6, <1>4
  <1>9. Takes \/ Goes
    <2> HIDE DEF Goes
    <2>1. Goes \/ Draft(call[a].op, Loaded) # {}
      BY DEF with_task_lock, Goes
    <2>2. QED
      BY <2>1 DEF with_task_lock
  <1>10. QED
    BY <1>7, <1>8, <1>9

\* persist: the stored record becomes the new one, and the lock stays.
LEMMA PersistKeeps ==
    ASSUME SafeInv, NEW a \in Actor, persist(a)
    PROVE  SafeInv'
  <1> USE DEF SafeInv
  <1>1. /\ call[a].step = "store" /\ store' = call[a].draft
        /\ UNCHANGED <<cache, queue, work, active, failure, lock, pc, child, cancelled>>
    BY DEF persist
  <1>2. lock = a /\ \A b \in Actor \ {a} : call[b].step \notin Held
    BY <1>1 DEF TypeOK, LockHolder, Held
  <1>3. /\ call'[a] = [call[a] EXCEPT !.step = "publish"]
        /\ \A b \in Actor \ {a} : call'[b] = call[b]
        /\ call' \in [Actor -> Operation]
    BY DEF persist, TypeOK, Operation
  <1>4. /\ call'[a].step = "publish" /\ call'[a].op = call[a].op /\ call'[a].draft = call[a].draft
        /\ call'[a] # NoCall
    BY <1>3, Beginnings DEF TypeOK, Operation
  <1>5. /\ call[a].draft \in Record
        /\ call[a].draft.status \in Cancellation /\ call[a].op # "cancel"
              => store.status \in Cancellation
    BY <1>1 DEF DraftsAreFresh
  <1>6. cache \in {None, store}
    BY <1>1, <1>2 DEF CacheAgrees, Held
  <1>7. LockHolder'
    BY <1>1, <1>2, <1>3, <1>4 DEF LockHolder, Held
  <1>8. TypeOK'
    BY <1>1, <1>3, <1>5, <1>7 DEF TypeOK
  <1>9. CacheAgrees'
    BY <1>4 DEF CacheAgrees
  <1>10. DraftsAreFresh'
    BY <1>2, <1>3, <1>4 DEF DraftsAreFresh, Held
  <1>11. PublicationsAgree'
    <2>1. ASSUME NEW b \in Actor, call'[b].step = "publish"
          PROVE  b = a
      BY <2>1, <1>2, <1>3 DEF Held
    <2>2. cache' # None /\ store'.status \in Cancellation /\ call'[a].op # "cancel"
              => cache'.status \in Cancellation
      BY <1>1, <1>4, <1>5, <1>6
    <2>3. call'[a].draft = store'
      BY <1>1, <1>4
    <2>4. QED
      BY <2>1, <2>2, <2>3 DEF PublicationsAgree
  <1>12. WorkersCall'
    <2>1. \A n \in Msg : call'[Worker(n)] = call[Worker(n)] \/ a = Worker(n)
      BY <1>3, Actors
    <2>2. call[a] # NoCall
      BY <1>1, Beginnings DEF Held
    <2>3. QED
      BY <2>1, <2>2, <1>1 DEF WorkersCall
  <1>13. UncachedIsQuiet'
    BY <1>1 DEF UncachedIsQuiet
  <1>14. QED
    BY <1>8, <1>9, <1>10, <1>11, <1>12, <1>13


\* The lock is given back with the published record and the stored one the same.
LEMMA Releases ==
    ASSUME SafeInv, NEW a \in Actor, call[a].step \in Held, lock' = None,
           NEW x \in Operation, x.step \notin Held, call' = [call EXCEPT ![a] = x],
           store' = store, cache' \in {None, store}, DataType', WorkersCall', UncachedIsQuiet'
    PROVE  SafeInv'
  <1> USE DEF SafeInv
  <1>1. \A b \in Actor \ {a} : call[b].step \notin Held
    BY DEF TypeOK, LockHolder, Held
  <1>2. call' \in [Actor -> Operation] /\ \A b \in Actor : call'[b].step \notin Held
    BY <1>1 DEF TypeOK
  <1>3. LockHolder' /\ CacheAgrees' /\ DraftsAreFresh' /\ PublicationsAgree'
    BY <1>2 DEF LockHolder, CacheAgrees, DraftsAreFresh, PublicationsAgree, Held
  <1>4. TypeOK'
    BY <1>2, <1>3 DEF TypeOK, DataType
  <1>5. QED
    BY <1>3, <1>4

\* The end of an operation that had the lock.
LEMMA FinishReleases ==
    ASSUME SafeInv, NEW a \in Actor, call[a].step \in Held, NEW ok \in BOOLEAN, Finish(a, ok),
           lock' = None, store' = store, cache' \in {None, store},
           cache' = None => cache = None,
           UNCHANGED <<queue, active, child>>, failure' \in BOOLEAN, cancelled' \subseteq Msg
    PROVE  SafeInv'
  <1> USE DEF SafeInv
  <1>0. call[a] # NoCall
    BY Beginnings
  <1>1. /\ call' = [call EXCEPT ![a] = NoCall]
        /\ a.role # "worker" => UNCHANGED <<pc, work>>
        /\ a.role = "worker" =>
                 /\ pc[a.msg] \in {"discard", "finalize", "finalize_cancelled"}
                 /\ \E l \in {"done", "write", "stuck"} : pc' = [pc EXCEPT ![a.msg] = l]
                 /\ work' \in {work, work \union {a.msg}}
    BY FinishEffect
  <1>2. DataType'
    BY <1>1, Actors DEF DataType, TypeOK, Labels
  <1>3. \A n \in Msg : call'[Worker(n)] = call[Worker(n)] \/ call'[Worker(n)] = NoCall
    BY <1>1, Actors DEF TypeOK
  <1>4. WorkersCall'
    <2>1. CASE a.role # "worker"
      BY <2>1, <1>1, <1>3 DEF WorkersCall
    <2>2. CASE a.role = "worker"
      <3>1. call'[Worker(a.msg)] = NoCall
        BY <2>2, <1>1, Actors DEF TypeOK
      <3>2. QED
        BY <2>2, <3>1, <1>1, <1>3, Actors DEF WorkersCall, TypeOK
    <2>3. QED
      BY <2>1, <2>2
  <1>5. UncachedIsQuiet'
    BY <1>1, Actors DEF UncachedIsQuiet
  <1>6. QED
    BY <1>1, <1>2, <1>4, <1>5, Beginnings, Releases

\* persist_fails: the handler answers with an error, or gives up; others end.
LEMMA PersistFailsKeeps ==
    ASSUME SafeInv, NEW a \in Actor, persist_fails(a)
    PROVE  SafeInv'
  <1> USE DEF SafeInv
  <1>1. /\ call[a].step = "store" /\ lock' = None
        /\ UNCHANGED <<store, cache, queue, child, cancelled>>
    BY DEF persist_fails
  <1>2. call[a].step \in Held /\ \A b \in Actor : call[b].step # "publish"
    BY <1>1 DEF TypeOK, LockHolder, Held
  <1>3. cache' \in {None, store'}
    BY <1>1, <1>2 DEF CacheAgrees
  <1>4. ASSUME a.role = "handler", pc[a.msg] \in Handling, UNCHANGED work,
               NEW x \in Operation, x.step \notin Held, call' = [call EXCEPT ![a] = x],
               NEW l \in {"answered", "stuck"}, Goto(a.msg, l),
               active' \subseteq Msg, failure' \in BOOLEAN
        PROVE  SafeInv'
    <2>1. DataType'
      BY <1>1, <1>4, Actors DEF DataType, TypeOK, Goto, Labels, Handling
    <2>2. \A n \in Msg : call'[Worker(n)] = call[Worker(n)]
      BY <1>4, Actors DEF TypeOK
    <2>3. WorkersCall'
      BY <1>1, <1>4, <2>2, Actors DEF WorkersCall, Goto, TypeOK, Handling
    <2>4. UncachedIsQuiet'
      BY <1>1, <1>4, Actors DEF UncachedIsQuiet, Handling
    <2>5. QED
      BY <1>1, <1>2, <1>3, <1>4, <2>1, <2>3, <2>4, Releases
  <1>5. CASE a.role = "handler" /\ pc[a.msg] \in Handling /\ call[a].op # "fail"
    <2>1. /\ call' = [call EXCEPT ![a] = [op |-> "fail", step |-> "lock", draft |-> None]]
          /\ Goto(a.msg, "answered") /\ UNCHANGED <<active, failure, work>>
      BY <1>5 DEF persist_fails, Begin
    <2>2. QED
      BY <1>5, <2>1, <1>4, Beginnings DEF TypeOK
  <1>6. CASE a.role = "handler" /\ pc[a.msg] \in Handling /\ call[a].op = "fail"
    <2>1. /\ call' = [call EXCEPT ![a] = NoCall]
          /\ Goto(a.msg, "stuck") /\ UNCHANGED work
          /\ active' = active \ {a.msg} /\ failure' \in {failure, TRUE}
      BY <1>6 DEF persist_fails, Escape
    <2>2. active' \subseteq Msg /\ failure' \in BOOLEAN
      BY <2>1 DEF TypeOK
    <2>3. QED
      BY <1>6, <2>1, <2>2, <1>4, Beginnings
  <1>7. CASE ~(a.role = "handler" /\ pc[a.msg] \in Handling)
    <2>1. Finish(a, FALSE) /\ UNCHANGED <<active, failure>>
      BY <1>7 DEF persist_fails
    <2>2. QED
      BY <2>1, <1>1, <1>2, <1>3, FinishReleases DEF TypeOK
  <1>8. QED
    BY <1>5, <1>6, <1>7

\* publish: the cache follows the store.
LEMMA PublishKeeps ==
    ASSUME SafeInv, NEW a \in Actor, publish(a)
    PROVE  SafeInv'
  <1> USE DEF SafeInv
  <1>1. /\ call[a].step = "publish" /\ lock' = None /\ cache' = call[a].draft
        /\ UNCHANGED <<store, queue, active, child>> /\ failure' \in BOOLEAN
        /\ Then(a) /\ Interrupt(call[a].op)
    BY DEF publish, TypeOK
  <1>2. call[a].step \in Held /\ call[a] # NoCall
    BY <1>1, Beginnings DEF Held
  <1>3. cache' = store /\ cache' # None
    BY <1>1, NoRecordAssumption DEF PublicationsAgree, TypeOK
  <1>4. cancelled' \subseteq Msg
    BY <1>1 DEF Interrupt, TypeOK
  <1>5. CASE Finish(a, TRUE)
    BY <1>5, <1>1, <1>2, <1>3, <1>4, FinishReleases
  <1>6. CASE Begin(a, "finalize", "check") /\ UNCHANGED <<pc, work>>
    <2>1. call' = [call EXCEPT ![a] = [op |-> "finalize", step |-> "check", draft |-> None]]
      BY <1>6 DEF Begin
    <2>2. DataType'
      BY <1>1, <1>4, <1>6 DEF DataType, TypeOK
    <2>3. \A n \in Msg : call'[Worker(n)] = call[Worker(n)] \/ a = Worker(n)
      BY <2>1, Actors DEF TypeOK
    <2>4. WorkersCall'
      BY <1>1, <1>2, <1>6, <2>3 DEF WorkersCall
    <2>5. UncachedIsQuiet'
      BY <1>3 DEF UncachedIsQuiet
    <2>6. QED
      BY <1>1, <1>2, <1>3, <2>1, <2>2, <2>4, <2>5, Beginnings, Releases
  <1>7. QED
    BY <1>1, <1>5, <1>6 DEF Then

\* evict and get: the cache alone changes.
LEMMA CacheKeeps ==
    ASSUME SafeInv, evict \/ get
    PROVE  SafeInv'
  <1> USE DEF SafeInv
  <1>1. (cache' = None /\ Evicts) \/ (cache = None /\ cache' = store)
    BY DEF evict, get
  <1>2. UNCHANGED <<store, queue, work, active, failure, lock, call, pc, child, cancelled>>
    BY DEF evict, get
  <1>3. TypeOK'
    BY <1>1, <1>2 DEF TypeOK, LockHolder
  <1>4. WorkersCall' /\ CacheAgrees' /\ DraftsAreFresh'
    BY <1>1, <1>2 DEF WorkersCall, CacheAgrees, DraftsAreFresh
  <1>5. PublicationsAgree'
    BY <1>1, <1>2 DEF PublicationsAgree
  <1>6. UncachedIsQuiet'
    BY <1>1, <1>2, NoRecordAssumption DEF UncachedIsQuiet, TypeOK
  <1>7. QED
    BY <1>3, <1>4, <1>5, <1>6

\* crash: everything is gone but the store and the queue.
LEMMA CrashKeeps ==
    ASSUME SafeInv, crash
    PROVE  SafeInv'
  <1> USE DEF SafeInv
  <1>1. /\ UNCHANGED store /\ cache' \in {store, None} /\ lock' = None
        /\ call' = [a \in Actor |-> NoCall] /\ pc' = [m \in Msg |-> "idle"]
        /\ active' = {} /\ failure' = FALSE /\ cancelled' = {}
        /\ child' = [m \in Msg |-> None]
        /\ work' = Recovered(queue')
        /\ cache' = None => work' = {}
    BY NoRecordAssumption DEF crash, TypeOK
  <1>2. PICK ended \in SUBSET {m \in Msg : queue[m] = "writing"} :
            queue' = [m \in Msg |-> IF queue[m] = "processing" \/ m \in ended THEN "pending"
                                    ELSE IF queue[m] \in {"none", "writing"} THEN Unsent(m)
                                    ELSE queue[m]]
    BY DEF crash
  <1>3. /\ queue' \in [Msg -> {"none", "writing", "pending", "processing", "acked", "lost"}]
        /\ \A m \in Msg : queue'[m] \in {"none", "pending", "acked", "lost"}
        /\ queue'[Root] # "none"
    BY <1>2, RootAssumption DEF TypeOK, Unsent
  <1>4. \A a \in Actor : call'[a] = NoCall
    BY <1>1
  <1>5. LockHolder' /\ CacheAgrees' /\ DraftsAreFresh' /\ PublicationsAgree'
    BY <1>1, <1>4, Beginnings DEF LockHolder, CacheAgrees, DraftsAreFresh, PublicationsAgree, Held
  <1>6. call' \in [Actor -> Operation]
    BY <1>1, Beginnings
  <1>7. work' \subseteq Msg
    BY <1>1 DEF Recovered
  <1>8. TypeOK'
    BY <1>1, <1>3, <1>5, <1>6, <1>7 DEF TypeOK, Labels
  <1>9. WorkersCall'
    BY <1>1, <1>4, Actors DEF WorkersCall
  <1>10. UncachedIsQuiet'
    BY <1>1, <1>3 DEF UncachedIsQuiet, Recovered
  <1>11. QED
    BY <1>5, <1>8, <1>9, <1>10

\* Every step is one of these.
LEMMA Steps ==
    ASSUME Next
    PROVE  \/ \E m \in Msg : PlainStep(m)
           \/ AskStep
           \/ \E a \in Actor : with_task_lock(a) \/ persist(a) \/ publish(a) \/ persist_fails(a)
           \/ evict \/ get \/ crash
  BY DEF Next, WorkerStep, HandlerStep, TrackerStep, Fault, PlainStep, AskStep

\* SafeInv survives every step.
LEMMA SafeStep ==
    ASSUME SafeInv, [Next]_vars
    PROVE  SafeInv'
  <1>1. ASSUME Kept
        PROVE  SafeInv'
    BY <1>1, MovesKeep DEF Kept, SafeInv, TypeOK, DataType
  <1>2. ASSUME NEW m \in Msg, PlainStep(m)
        PROVE  SafeInv'
    BY <1>1, <1>2, PlainMoves, PlainType, PlainRest DEF Kept
  <1>3. CASE AskStep
    BY <1>1, <1>3, AskKeeps
  <1>4. CASE UNCHANGED vars
    BY <1>4 DEF vars, SafeInv, TypeOK, LockHolder, WorkersCall, CacheAgrees, DraftsAreFresh,
           PublicationsAgree, UncachedIsQuiet
  <1>5. QED
    BY <1>2, <1>3, <1>4, Steps, LockKeeps, PersistKeeps, PublishKeeps, PersistFailsKeeps,
       CacheKeeps, CrashKeeps

\* SafeInv holds at the start.
LEMMA SafeInit ==
    ASSUME Init
    PROVE  SafeInv
  <1> USE DEF Init
  <1>0. store \in Record
    BY DEF Record, Unanswered, ActiveStatus
  <1>1. store \in Record /\ cache = store /\ cache # None
    BY <1>0, NoRecordAssumption
  <1>2. call \in [Actor -> Operation] /\ \A a \in Actor : call[a] = NoCall
    BY Beginnings
  <1>3. LockHolder /\ CacheAgrees /\ DraftsAreFresh /\ PublicationsAgree
    BY <1>1, <1>2, Beginnings DEF LockHolder, CacheAgrees, DraftsAreFresh, PublicationsAgree, Held
  <1>4. TypeOK
    BY <1>1, <1>2, <1>3 DEF TypeOK, Labels
  <1>5. WorkersCall /\ UncachedIsQuiet
    BY <1>1, <1>2, Actors DEF WorkersCall, UncachedIsQuiet
  <1>6. QED
    BY <1>3, <1>4, <1>5 DEF SafeInv

\* SafeInv holds in every reachable state.
THEOREM SafeInvariance == Spec => []SafeInv
  BY SafeInit, SafeStep, PTL DEF Spec

\* The variables keep their types, and one operation of the tracker at a time holds
\* the lock of the task, from its read of the record to its publication.
THEOREM TaskTypes == Spec => []TypeOK
  BY SafeInvariance, PTL DEF SafeInv

\* A terminal record never changes, whatever races with its finalization, and also
\* when the record is evicted from the cache and read back in between.
THEOREM TerminalRecords == Spec => TerminalIsFinal
  <1>1. ASSUME SafeInv, [Next]_vars, store.status \in Terminal
        PROVE  store' = store
    <2>1. ASSUME NEW a \in Actor, persist(a)
          PROVE  FALSE
      BY <1>1, <2>1 DEF persist, SafeInv, DraftsAreFresh
    <2>2. ASSUME NEW a \in Actor, with_task_lock(a) \/ publish(a) \/ persist_fails(a)
          PROVE  store' = store
      BY <2>2 DEF with_task_lock, publish, persist_fails
    <2>3. ASSUME evict \/ get \/ crash
          PROVE  store' = store
      BY <2>3 DEF evict, get, crash
    <2>4. CASE UNCHANGED vars
      BY <2>4 DEF vars
    <2>5. QED
      BY <1>1, <2>1, <2>2, <2>3, <2>4, Steps, PlainMoves, AskKeeps DEF Kept, Moves
  <1>2. SafeInv /\ [Next]_vars => [store.status \in Terminal => store' = store]_vars
    BY <1>1
  <1>3. QED
    BY <1>2, SafeInvariance, PTL DEF Spec, TerminalIsFinal


\* A cancellation that is stored and let go of is known to whoever enqueues.
LEMMA CancellationIsKnown ==
    ASSUME SafeInv, ~Evicts, store.status \in Cancellation,
           lock = None \/ call[lock].op # "cancel", NEW m \in Msg, enqueue(m)
    PROVE  FALSE
  <1> USE DEF SafeInv
  <1>1. cache # None
    BY DEF enqueue, UncachedIsQuiet, Running, Handling
  <1>2. CASE \A a \in Actor : call[a].step # "publish"
    BY <1>1, <1>2 DEF CacheAgrees, enqueue, register, is_cancellation_requested, Cancellation
  <1>3. ASSUME NEW a \in Actor, call[a].step = "publish"
        PROVE  FALSE
    <2>1. lock = a /\ lock # None
      BY <1>3, NobodyAssumption DEF TypeOK, LockHolder
    <2>2. cache.status \in Cancellation
      BY <2>1, <1>1, <1>3 DEF PublicationsAgree
    <2>3. QED
      BY <1>1, <2>2 DEF enqueue, register, is_cancellation_requested, Cancellation
  <1>4. QED
    BY <1>2, <1>3

\* Nothing but enqueue makes a message that was not there be written.
LEMMA OnlyEnqueueWrites ==
    ASSUME SafeInv, [Next]_vars, NEW m \in Msg, queue[m] = "none", queue'[m] = "writing"
    PROVE  enqueue(m)
  <1> USE DEF SafeInv
  <1>1. ASSUME NEW n \in Msg, PlainStep(n)
        PROVE  enqueue(m)
    <2>1. CASE enqueue(n)
      BY <2>1 DEF enqueue, TypeOK
    <2>2. CASE enqueue_written(n) \/ dequeue(n) \/ process_dequeued(n) \/ register_active(n)
      BY <2>2 DEF enqueue_written, dequeue, process_dequeued, register_active, TypeOK
    <2>3. CASE ack_written(n) \/ ack_fails(n)
      BY <2>3 DEF ack_written, ack_fails, TypeOK
    <2>4. CASE on_dequeue_raises(n) \/ \E failed \in BOOLEAN : on_dequeue_returns(n, failed)
      BY <2>4 DEF on_dequeue_raises, on_dequeue_returns
    <2>5. QED
      BY <1>1, <2>1, <2>2, <2>3, <2>4 DEF PlainStep
  <1>2. ASSUME NEW n \in Msg, enqueue_fails(n)
        PROVE  FALSE
    BY <1>2 DEF enqueue_fails, TypeOK
  <1>3. ASSUME NEW n \in Msg, CancelledError(n)
        PROVE  FALSE
    BY <1>3 DEF CancelledError, MayEnd, TypeOK
  <1>4. ASSUME NEW n \in Msg, ack(n) \/ replay(n) \/ abandon(n)
                              \/ \E op \in {"complete", "fail"} : record_outcome(n, op)
        PROVE  FALSE
    BY <1>4 DEF ack, replay, abandon, record_outcome
  <1>5. ASSUME NEW a \in Actor, finalize_check(a) \/ with_task_lock(a) \/ persist(a)
                                \/ publish(a) \/ persist_fails(a)
        PROVE  FALSE
    BY <1>5 DEF finalize_check, with_task_lock, persist, publish, persist_fails
  <1>6. ASSUME cancel \/ evict \/ get \/ UNCHANGED vars
        PROVE  FALSE
    BY <1>6 DEF cancel, evict, get, vars
  <1>7. ASSUME crash
        PROVE  FALSE
    BY <1>7 DEF crash, Unsent, TypeOK
  <1>8. QED
    BY <1>1, <1>2, <1>3, <1>4, <1>5, <1>6, <1>7, Steps DEF AskStep

\* Once a cancellation is stored and cancel() has let go of the record, no message
\* of the task is enqueued ("immediately prevents the task from creating new
\* QueueFS work"), if the record stays in the cache.
THEOREM NoWorkAfterCancel == ASSUME ~Evicts PROVE Spec => NoNewWork
  <1>1. ASSUME SafeInv, [Next]_vars, store.status \in {"cancelling", "cancelled"},
               lock = None \/ call[lock].op # "cancel",
               NEW m \in Msg, queue[m] = "none"
        PROVE  queue'[m] # "writing"
    BY <1>1, OnlyEnqueueWrites, CancellationIsKnown DEF Cancellation
  <1> DEFINE Known == /\ store.status \in {"cancelling", "cancelled"}
                      /\ lock = None \/ call[lock].op # "cancel"
  <1>2. SafeInv /\ [Next]_vars
        => [Known => \A m \in Msg : queue[m] = "none" => queue'[m] # "writing"]_vars
    BY <1>1
  <1>3. QED
    BY <1>2, SafeInvariance, PTL DEF Spec, NoNewWork


-----------------------------------------------------------------------------
(***************************************************************************)
(* Tasks nobody cancels.                                                   *)
(***************************************************************************)

\* What SettleInv says of one message.
Accounted(m) == Delivered(m) /\ Indexed(m)

\* What SettleInv says of the records.
Answers == RootCalls /\ RootAnswers /\ DraftsAnswer /\ WorkersFinalize

\* The steps of a cancellation do not happen.
LEMMA NoCancellation ==
    ASSUME MaxCancels = 0, SettleInv
    PROVE  /\ ~cancel /\ ~is_cancellation_requested
           /\ \A m \in Msg : ~CancelledError(m) /\ ~abandon(m)
  <1> USE DEF SettleInv
  <1>1. ~cancel
    BY DEF cancel, Spend, Uncancelled
  <1>2. ~is_cancellation_requested
    BY DEF is_cancellation_requested, Uncancelled, Cancellation
  <1>3. \A m \in Msg : ~CancelledError(m)
    BY DEF CancelledError, Uncancelled
  <1>4. \A m \in Msg : ~abandon(m)
    BY Beginnings DEF abandon, RootCalls
  <1>5. QED
    BY <1>1, <1>2, <1>3, <1>4

\* A message is left alone.
Same(n) ==
    /\ pc'[n] = pc[n] /\ queue'[n] = queue[n]
    /\ n \in work' <=> n \in work
    /\ n \in active' <=> n \in active

\* Then what is known of it stays.
LEMMA SameKeeps ==
    ASSUME NEW n \in Msg, Accounted(n), Same(n)
    PROVE  Accounted(n)'
  BY DEF Accounted, Same, Delivered, Indexed

\* Where a message goes when the tracker is not asked.
Move(m) ==
    \/ /\ queue[m] = "none" /\ queue'[m] = "writing" /\ pc'[m] = pc[m] /\ m \in work'
       /\ m = Root \/ \E n \in Msg : Running(n)
    \/ queue[m] = "writing" /\ queue'[m] = "pending" /\ pc'[m] = pc[m]
    \/ queue[m] = "pending" /\ queue'[m] = "processing" /\ pc'[m] = "fetched"
    \/ pc[m] = "fetched" /\ pc'[m] = "register" /\ queue'[m] = queue[m]
    \/ pc[m] = "register" /\ pc'[m] = "handle" /\ queue'[m] = queue[m]
    \/ Running(m) /\ pc'[m] = "stuck" /\ queue'[m] = queue[m]
    \/ /\ Running(m) /\ pc'[m] = "ack" /\ queue'[m] = queue[m]
       /\ m = Root => pc[m] = "answered"
    \/ pc[m] = "write" /\ pc'[m] = "stuck" /\ queue'[m] = queue[m]
    \/ pc[m] = "write" /\ pc'[m] = "done" /\ queue'[m] = "acked"

\* The steps that do not ask the tracker, in a table.
LEMMA PlainTable ==
    ASSUME MaxCancels = 0, SettleInv, NEW m \in Msg, PlainStep(m)
    PROVE  /\ Move(m) /\ Accounted(m)'
           /\ \A n \in Msg \ {m} : Same(n)
           /\ Running(m) \/ UNCHANGED failure
           /\ work \subseteq work' /\ UNCHANGED cancelled
  <1> USE DEF SettleInv
  <1>0. ~is_cancellation_requested
    BY NoCancellation
  <1>1. queue \in [Msg -> {"none", "writing", "pending", "processing", "acked", "lost"}]
        /\ pc \in [Msg -> Labels]
    BY DEF SafeInv, TypeOK
  <1>2. Delivered(m) /\ Indexed(m)
    OBVIOUS
  <1>3. queue[m] \in {"none", "writing"} => pc[m] = "idle"
    BY DEF SafeInv, WorkersCall
  <1> USE DEF Move, Accounted, Delivered, Indexed, Same, Goto, Handling
  <1>4. CASE enqueue(m)
    BY <1>1, <1>2, <1>3, <1>4 DEF enqueue, register
  <1>5. CASE enqueue_written(m)
    BY <1>1, <1>2, <1>3, <1>5 DEF enqueue_written
  <1>6. CASE dequeue(m)
    BY <1>1, <1>2, <1>6 DEF dequeue
  <1>7. CASE process_dequeued(m)
    BY <1>0, <1>1, <1>2, <1>7 DEF process_dequeued
  <1>8. CASE register_active(m)
    BY <1>0, <1>1, <1>2, <1>8 DEF register_active
  <1>9. CASE ack_written(m)
    BY <1>1, <1>2, <1>9 DEF ack_written
  <1>10. CASE ack_fails(m)
    BY <1>1, <1>2, <1>10 DEF ack_fails, rollback_ack
  <1>11. CASE on_dequeue_raises(m)
    BY <1>1, <1>2, <1>11 DEF on_dequeue_raises, Escape, Running
  <1>12. CASE \E failed \in BOOLEAN : on_dequeue_returns(m, failed)
    BY <1>1, <1>2, <1>12 DEF on_dequeue_returns, Running
  <1>13. QED
    BY <1>4, <1>5, <1>6, <1>7, <1>8, <1>9, <1>10, <1>11, <1>12 DEF PlainStep

\* Enqueuers keep waiting for what they write.
LEMMA PlainEnqueued ==
    ASSUME MaxCancels = 0, SettleInv, NEW m \in Msg, PlainStep(m)
    PROVE  \A c \in Msg : Enqueued(c)'
  <1> USE DEF SettleInv
  <1>0. /\ queue \in [Msg -> {"none", "writing", "pending", "processing", "acked", "lost"}]
        /\ pc \in [Msg -> Labels] /\ child \in [Msg -> Msg \union {None}]
    BY DEF SafeInv, TypeOK
  <1>1. call' = call
    BY PlainMoves
  <1>2. SUFFICES ASSUME NEW c \in Msg
                 PROVE  Enqueued(c)'
    OBVIOUS
  <1>3. Enqueued(c) /\ None \notin Msg
    BY RootAssumption
  <1>4. CASE enqueue(m)
    <2>1. CASE m = Root
      BY <1>0, <1>1, <1>3, <1>4, <2>1 DEF enqueue, Enqueued
    <2>2. CASE m # Root
      <3>1. PICK n \in Msg : Running(n) /\ child' = [child EXCEPT ![n] = m]
        BY <1>4, <2>2 DEF enqueue
      <3>2. UNCHANGED pc /\ queue' = [queue EXCEPT ![m] = "writing"]
        BY <1>4 DEF enqueue
      <3>3. child'[c] = None \/ call'[Handler(c)] = NoCall
        BY <1>0, <1>1, <1>3, <3>1 DEF Enqueued, Running
      <3>4. CASE c = m
        BY <1>0, <3>1, <3>2, <3>3, <3>4 DEF Enqueued, Running
      <3>5. CASE c # m
        BY <1>0, <1>3, <3>1, <3>2, <3>3, <3>5 DEF Enqueued, Running
      <3>6. QED
        BY <3>4, <3>5
    <2>3. QED
      BY <2>1, <2>2
  <1>5. CASE enqueue_written(m)
    BY <1>0, <1>1, <1>3, <1>5 DEF enqueue_written, Resume, Enqueued
  <1>6. ASSUME UNCHANGED child, queue'[c] = "writing" => queue[c] = "writing",
               \A n \in Msg : pc[n] \in Handling => pc'[n] \in Handling \/ child[n] = None
        PROVE  Enqueued(c)'
    BY <1>1, <1>3, <1>6 DEF Enqueued
  <1>7. CASE dequeue(m) \/ ack_written(m)
    BY <1>0, <1>6, <1>7 DEF dequeue, ack_written, Goto, Handling, SafeInv, WorkersCall
  <1>8. CASE process_dequeued(m) \/ register_active(m)
    BY <1>0, <1>6, <1>8 DEF process_dequeued, register_active, Goto, Handling
  <1>9. CASE ack_fails(m)
    BY <1>0, <1>6, <1>9 DEF ack_fails, rollback_ack, Goto, Handling
  <1>10. CASE on_dequeue_raises(m)
    BY <1>0, <1>6, <1>10 DEF on_dequeue_raises, Escape, Running, Goto
  <1>11. CASE \E failed \in BOOLEAN : on_dequeue_returns(m, failed)
    BY <1>0, <1>6, <1>11 DEF on_dequeue_returns, Running, Goto
  <1>12. QED
    BY <1>4, <1>5, <1>7, <1>8, <1>9, <1>10, <1>11 DEF PlainStep


\* The bounds' counters keep their types when nobody cancels.
LEMMA SpendKeeps ==
    ASSUME SettleInv, NEW kind \in {"crashes", "faults"}, NEW bound, Spend(kind, bound)
    PROVE  spent' \in [cancels : {0}, crashes : Nat, faults : Nat]
  BY DEF SettleInv, Uncancelled, Spend

\* Steps without the lock keep what is known of the records on their way.
LEMMA MovesAnswer ==
    ASSUME SettleInv, Moves
    PROVE  DraftsAnswer'
  <1>1. \A a \in Actor : call'[a].step \in Held => call'[a] = call[a]
    BY DEF Moves
  <1>2. QED
    BY <1>1 DEF SettleInv, Moves, DraftsAnswer, Answered, Held

\* ... and, if they do not ask for a cancel, that nobody cancels.
LEMMA MovesUncancelled ==
    ASSUME SettleInv, Moves, UNCHANGED cancelled, call'[Client] = NoCall,
           \A a \in Actor : call'[a].op # "cancel",
           spent' \in [cancels : {0}, crashes : Nat, faults : Nat]
    PROVE  Uncancelled'
  <1>1. \A a \in Actor : call'[a].step \in Held => call'[a] = call[a]
    BY DEF Moves
  <1>2. QED
    BY <1>1 DEF SettleInv, Moves, Uncancelled, Held

\* A finalization that has the lock stays alone with settled work.
LEMMA MovesSettled ==
    ASSUME SettleInv, Moves, Settled => Settled' /\ (failure' => failure)
    PROVE  FinalizesSettled'
  <1>1. \A a \in Actor : call'[a].step \in Held => call'[a] = call[a]
    BY DEF Moves
  <1>2. QED
    BY <1>1 DEF SettleInv, Moves, FinalizesSettled, Held

\* SettleInv survives the steps that do not ask the tracker.
LEMMA PlainSettles ==
    ASSUME MaxCancels = 0, SettleInv, SafeInv', NEW m \in Msg, PlainStep(m)
    PROVE  SettleInv'
  <1> USE DEF SettleInv
  <1>1. Moves /\ call' = call /\ UNCHANGED <<store, cache, lock>>
    BY PlainMoves DEF Moves
  <1>2. /\ Move(m) /\ Accounted(m)'
        /\ \A n \in Msg \ {m} : Same(n)
        /\ Running(m) \/ UNCHANGED failure
        /\ work \subseteq work' /\ UNCHANGED cancelled
    BY PlainTable
  <1>3. \A n \in Msg : Delivered(n)' /\ Indexed(n)'
    BY <1>2, SameKeeps DEF Accounted
  <1>4. \A c \in Msg : Enqueued(c)'
    BY PlainEnqueued
  <1>5. Uncancelled'
    <2>1. spent' \in [cancels : {0}, crashes : Nat, faults : Nat]
      <3>1. CASE ack_fails(m)
        BY <3>1, SpendKeeps DEF ack_fails
      <3>2. CASE ~ack_fails(m)
        <4>1. UNCHANGED spent
          BY <3>2 DEF PlainStep, enqueue, enqueue_written, dequeue, process_dequeued,
                 register_active, ack_written, on_dequeue_raises, on_dequeue_returns
        <4>2. QED
          BY <4>1 DEF Uncancelled
      <3>3. QED
        BY <3>1, <3>2
    <2>2. QED
      BY <2>1, <1>1, <1>2, MovesUncancelled DEF Uncancelled
  <1>6. Root \in Msg
    BY RootAssumption
  <1>7. queue'[Root] # "none"
    <2>1. CASE queue[Root] # "none"
      BY <1>2, <1>6, <2>1 DEF Move, Same, Running
    <2>2. CASE queue[Root] = "none"
      <3>1. \A n \in Msg : queue[n] = "none" /\ pc[n] = "idle"
        BY <2>2 DEF RootIsFirst, SafeInv, WorkersCall
      <3>2. m = Root /\ queue'[m] = "writing"
        BY <1>2, <3>1 DEF Move, Running, Handling
      <3>3. QED
        BY <3>2
    <2>3. QED
      BY <2>1, <2>2
  <1>8. RootIsFirst'
    BY <1>7 DEF RootIsFirst
  <1>9. RootCalls'
    <2>1. \A n \in Msg : call[Handler(n)] # NoCall => pc'[n] = pc[n]
      <3>1. pc[m] \notin Handling \/ Running(m) \/ pc'[m] = pc[m]
        BY <1>2 DEF Move, Handling, Delivered
      <3>2. QED
        BY <1>2, <3>1 DEF Same, RootCalls, Running
    <2>2. QED
      BY <2>1, <1>1 DEF RootCalls
  <1>10. RootAnswers'
    <2>1. CASE m # Root
      BY <2>1, <1>1, <1>2, <1>6 DEF RootAnswers, Same, Answered
    <2>2. CASE m = Root
      <3>1. pc'[Root] \in {"answered", "ack", "finalize", "write"} =>
              \/ pc'[Root] = pc[Root]
              \/ pc'[Root] = "ack" /\ pc[Root] = "answered" /\ Running(Root)
        BY <1>2, <2>2 DEF Move
      <3>2. queue'[Root] = "acked" => queue[Root] = "acked" \/ pc[Root] = "write"
        BY <1>2, <2>2 DEF Move
      <3>3. Running(Root) => call[Handler(Root)].op = "none"
        BY Beginnings DEF Running
      <3>4. Answered(store)' <=> Answered(store)
        BY <1>1 DEF Answered
      <3>5. QED
        BY <1>1, <3>1, <3>2, <3>3, <3>4 DEF RootAnswers
    <2>3. QED
      BY <2>1, <2>2
  <1>11. FinalizesSettled'
    <2>1. ASSUME NEW a \in Actor, call[a].op = "finalize", call[a].step = "store"
          PROVE  Settled' /\ UNCHANGED failure
      <3>1. Settled /\ call[a] # NoCall
        BY <2>1, Beginnings DEF FinalizesSettled
      <3>2. \A n \in Msg : ~Running(n)
        BY <3>1 DEF Settled, Running
      <3>3. queue[Root] # "none"
        BY <3>1 DEF RootIsFirst
      <3>4. pc[m] = "write" /\ pc'[m] \in {"stuck", "done"} /\ queue'[m] \in {queue[m], "acked"}
        BY <1>2, <3>1, <3>2, <3>3 DEF Move, Settled
      <3>5. QED
        BY <1>2, <3>1, <3>2, <3>4 DEF Settled, Same, Handling
    <2>2. QED
      BY <1>1, <2>1 DEF FinalizesSettled
  <1>12. SomebodyFinalizes'
    <2>1. \A n \in Msg : pc[n] = "finalize" => pc'[n] = "finalize"
      BY <1>2 DEF Move, Same, Running, Handling, Delivered
    <2>2. CASE queue[Root] \in {"none", "lost"}
      BY <2>2, <1>2, <1>6 DEF SomebodyFinalizes, Move, Same, Running, Handling, Delivered
    <2>3. CASE queue[Root] \notin {"none", "lost"}
      BY <2>1, <2>3, <1>1, <1>2 DEF SomebodyFinalizes
    <2>4. QED
      BY <2>2, <2>3
  <1>13. WorkersFinalize'
    BY <1>1 DEF WorkersFinalize
  <1>14. DraftsAnswer'
    BY <1>1, MovesAnswer
  <1>15. QED
    BY <1>3, <1>4, <1>5, <1>8, <1>9, <1>10, <1>11, <1>12, <1>13, <1>14


\* Who has an operation under way: the root's handler, or a worker.
LEMMA Callers ==
    ASSUME SettleInv, NEW a \in Actor, call[a] # NoCall
    PROVE  \/ a = Handler(Root) /\ a.role = "handler" /\ a.msg = Root /\ pc[Root] \in Handling
           \/ /\ a.role = "worker" /\ a.msg \in Msg /\ a = Worker(a.msg)
              /\ call[a].op = "finalize" /\ pc[a.msg] \in {"discard", "finalize"}
  <1>1. a # Client
    BY DEF SettleInv, Uncancelled
  <1>2. CASE a.role = "worker"
    <2>1. a.msg \in Msg /\ a = Worker(a.msg)
      BY <1>2, Actors
    <2>2. pc[a.msg] \in {"discard", "finalize"}
      BY <2>1 DEF SettleInv, SafeInv, WorkersCall, Indexed
    <2>3. QED
      BY <1>2, <2>1, <2>2 DEF SettleInv, WorkersFinalize
  <1>3. CASE a.role # "worker"
    <2>1. PICK m \in Msg : a = Handler(m)
      BY <1>1, <1>3, Actors
    <2>2. QED
      BY <2>1, Actors DEF SettleInv, RootCalls
  <1>4. QED
    BY <1>2, <1>3

\* The parts of SettleInv that an operation ending or going on has to keep; the
\* others speak of records on their way.
Course ==
    /\ \A m \in Msg : Delivered(m) /\ Indexed(m) /\ Enqueued(m)
    /\ RootIsFirst /\ RootCalls /\ RootAnswers /\ SomebodyFinalizes /\ WorkersFinalize

\* The end of an operation: the worker that finalized is excused if work is left or
\* the task is over, and the root's handler if it has answered.
LEMMA FinishSettles ==
    ASSUME SettleInv, NEW a \in Actor, call[a] # NoCall, NEW ok \in BOOLEAN, Finish(a, ok),
           UNCHANGED <<store, queue, active, child>>,
           a.role = "handler" /\ pc[Root] = "answered" => Answered(store),
           a.role = "worker" /\ queue[Root] \notin {"none", "lost"} /\ ok
               => work # {} \/ store.status \in Terminal
    PROVE  Course'
  <1> USE DEF SettleInv
  <1>0. pc \in [Msg -> Labels] /\ call \in [Actor -> Operation] /\ Root \in Msg
    BY RootAssumption DEF SafeInv, TypeOK
  <1>1. /\ call' = [call EXCEPT ![a] = NoCall]
        /\ \A b \in Actor : call'[b] = call[b] \/ (b = a /\ call'[b] = NoCall)
    BY <1>0 DEF Finish
  <1>2. queue[Root] # "none"
    BY DEF RootIsFirst
  <1>3. RootIsFirst'
    BY <1>2 DEF RootIsFirst
  <1>4. WorkersFinalize'
    BY <1>1, Actors DEF WorkersFinalize
  <1>5. CASE a.role = "handler"
    <2>1. a = Handler(Root)
      BY <1>5, Callers
    <2>2. UNCHANGED <<pc, work>>
      BY <1>5 DEF Finish
    <2>3. call'[Handler(Root)].op = "none"
      BY <2>1, <1>1, <1>0, Beginnings
    <2>4. \A m \in Msg : Delivered(m)' /\ Indexed(m)'
      BY <2>2 DEF Delivered, Indexed
    <2>5. \A m \in Msg : Enqueued(m)'
      BY <2>2, <1>1, Actors DEF Enqueued
    <2>6. RootCalls'
      BY <2>2, <1>1, Actors DEF RootCalls
    <2>7. RootAnswers'
      BY <2>2, <2>3, <1>5 DEF RootAnswers, Answered
    <2>8. SomebodyFinalizes'
      BY <2>2 DEF SomebodyFinalizes
    <2>9. QED
      BY <1>3, <1>4, <2>4, <2>5, <2>6, <2>7, <2>8 DEF Course
  <1>6. CASE a.role = "worker"
    <2>1. a.msg \in Msg /\ a = Worker(a.msg) /\ pc[a.msg] \in {"discard", "finalize"}
      BY <1>6, Callers DEF Handling
    <2>2. \/ /\ pc[a.msg] = "discard" /\ pc' = [pc EXCEPT ![a.msg] = "done"] /\ work' = work
          \/ /\ pc[a.msg] = "finalize" /\ ok
             /\ pc' = [pc EXCEPT ![a.msg] = "write"] /\ work' = work
          \/ /\ pc[a.msg] = "finalize"
             /\ pc' = [pc EXCEPT ![a.msg] = "stuck"] /\ work' = work \union {a.msg}
      BY <1>6, <2>1 DEF Finish, Goto, rollback_ack
    <2>3. \A m \in Msg \ {a.msg} : Same(m)
      BY <1>0, <2>1, <2>2 DEF Same
    <2>4. Accounted(a.msg)'
      BY <1>0, <2>1, <2>2 DEF Accounted, Delivered, Indexed, Handling
    <2>5. \A m \in Msg : Delivered(m)' /\ Indexed(m)'
      BY <2>3, <2>4, SameKeeps DEF Accounted
    <2>6. \A m \in Msg : call'[Handler(m)] = call[Handler(m)]
      BY <1>1, <2>1, Actors
    <2>7. \A m \in Msg : pc[m] \in Handling => pc'[m] = pc[m]
      BY <1>0, <2>1, <2>2 DEF Handling
    <2>8. \A m \in Msg : Enqueued(m)'
      BY <2>6, <2>7 DEF Enqueued
    <2>9. RootCalls'
      BY <2>6, <2>7 DEF RootCalls
    <2>10. RootAnswers'
      <3>1. pc'[Root] \in {"answered", "ack", "finalize", "write"} =>
               pc'[Root] = pc[Root] \/ (pc'[Root] = "write" /\ pc[Root] = "finalize")
        BY <1>0, <2>1, <2>2
      <3>2. QED
        BY <3>1, <2>6, <1>0 DEF RootAnswers, Answered
    <2>11. SomebodyFinalizes'
      <3>1. work \subseteq work'
        BY <2>2
      <3>2. CASE pc[a.msg] = "discard"
        BY <1>0, <2>1, <2>2, <3>2 DEF SomebodyFinalizes
      <3>3. CASE pc[a.msg] = "finalize"
        BY <1>6, <2>1, <2>2, <3>1, <3>3 DEF SomebodyFinalizes
      <3>4. QED
        BY <2>1, <3>2, <3>3
    <2>12. QED
      BY <1>3, <1>4, <2>5, <2>8, <2>9, <2>10, <2>11 DEF Course
  <1>7. QED
    BY <1>5, <1>6, Callers

\* An operation of the root's handler goes on to finalize.
LEMMA BeginSettles ==
    ASSUME SettleInv, Begin(Handler(Root), "finalize", "check"), call[Handler(Root)] # NoCall,
           UNCHANGED <<store, queue, active, child, pc, work>>,
           pc[Root] = "answered" => Answered(store)
    PROVE  Course'
  <1> USE DEF SettleInv
  <1>0. call \in [Actor -> Operation] /\ Root \in Msg /\ Handler(Root) \in Actor
    BY RootAssumption, Actors DEF SafeInv, TypeOK
  <1>1. /\ call'[Handler(Root)] = [op |-> "finalize", step |-> "check", draft |-> None]
        /\ \A b \in Actor \ {Handler(Root)} : call'[b] = call[b]
    BY <1>0 DEF Begin
  <1>2. RootIsFirst'
    BY <1>0 DEF RootIsFirst
  <1>3. WorkersFinalize'
    BY <1>0, <1>1, Actors DEF WorkersFinalize
  <1>4. \A m \in Msg : Delivered(m)' /\ Indexed(m)'
    BY DEF Delivered, Indexed
  <1>5. \A m \in Msg : Enqueued(m)'
    BY <1>0, <1>1, Actors DEF Enqueued
  <1>6. RootCalls'
    BY <1>0, <1>1, Actors DEF RootCalls
  <1>7. RootAnswers'
    BY <1>1 DEF RootAnswers, Answered
  <1>8. SomebodyFinalizes'
    BY DEF SomebodyFinalizes
  <1>9. QED
    BY <1>2, <1>3, <1>4, <1>5, <1>6, <1>7, <1>8 DEF Course

\* Both: what follows the lock.
LEMMA ThenSettles ==
    ASSUME SettleInv, NEW a \in Actor, call[a] # NoCall, Then(a),
           UNCHANGED <<store, queue, active, child>>,
           a.role = "handler" /\ pc[Root] = "answered" => Answered(store),
           a.role = "worker" /\ queue[Root] \notin {"none", "lost"}
               => work # {} \/ store.status \in Terminal
    PROVE  Course'
  <1>1. CASE call[a].op \in {"complete", "fail", "cancel"}
    <2>1. a = Handler(Root)
      BY <1>1, Callers
    <2>2. a.role = "handler"
      BY <2>1, RootAssumption, Actors
    <2>3. QED
      BY <1>1, <2>1, <2>2, BeginSettles DEF Then
  <1>2. CASE call[a].op \notin {"complete", "fail", "cancel"}
    BY <1>2, FinishSettles DEF Then
  <1>3. QED
    BY <1>1, <1>2


\* The first message or the last one that is not written is discarded.
LEMMA EnqueueFailsSettles ==
    ASSUME SettleInv, SafeInv', NEW m \in Msg, enqueue_fails(m), Moves
    PROVE  SettleInv'
  <1> USE DEF SettleInv
  <1>0. /\ queue \in [Msg -> {"none", "writing", "pending", "processing", "acked", "lost"}]
        /\ pc \in [Msg -> Labels] /\ child \in [Msg -> Msg \union {None}]
        /\ call \in [Actor -> Operation] /\ Root \in Msg /\ None \notin Msg
    BY RootAssumption DEF SafeInv, TypeOK
  <1>1. /\ queue[m] = "writing" /\ pc[m] = "idle" /\ m \notin active
        /\ queue' = [queue EXCEPT ![m] = "lost"] /\ work' = work \ {m}
        /\ UNCHANGED <<store, cache, active, failure, lock, cancelled>>
    BY DEF enqueue_fails, SafeInv, WorkersCall, Indexed, Handling
  <1>2. m # Root => \E n \in Msg \ {m} : n \in active /\ n \in work
    BY <1>1 DEF Enqueued, Indexed, Handling
  <1>3. \/ /\ m = Root /\ pc' = [pc EXCEPT ![m] = "discard"]
           /\ call' = [call EXCEPT ![Worker(m)] = [op |-> "finalize", step |-> "check", draft |-> None]]
        \/ UNCHANGED <<call, pc>>
    BY <1>2 DEF enqueue_fails, became_idle, Begin, Goto
  <1>4. \A n \in Msg : call'[Handler(n)] = call[Handler(n)]
    BY <1>0, <1>3, Actors
  <1>5. /\ \A a \in Actor : call'[a].op \in {call[a].op, "finalize"}
        /\ call'[Client] = call[Client]
        /\ \A n \in Msg : call'[Worker(n)] = call[Worker(n)] \/ call'[Worker(n)].op = "finalize"
    BY <1>0, <1>3, Actors
  <1>6. \A n \in Msg : Delivered(n)' /\ Indexed(n)'
    <2>1. \A n \in Msg \ {m} : Same(n)
      BY <1>0, <1>1, <1>3 DEF Same
    <2>2. Accounted(m)'
      BY <1>0, <1>1, <1>3 DEF Accounted, Delivered, Indexed, Handling
    <2>3. QED
      BY <2>1, <2>2, SameKeeps DEF Accounted
  <1>7. \A c \in Msg : Enqueued(c)'
    <2>1. child' = [n \in Msg |-> IF child[n] = m THEN None ELSE child[n]]
      BY DEF enqueue_fails, Resume
    <2>2. \A n \in Msg : pc[n] \in Handling => pc'[n] = pc[n]
      BY <1>0, <1>1, <1>3 DEF Handling
    <2>3. QED
      BY <1>0, <1>1, <1>4, <2>1, <2>2 DEF Enqueued
  <1>8. Uncancelled'
    <2>1. spent' \in [cancels : {0}, crashes : Nat, faults : Nat]
      BY SpendKeeps DEF enqueue_fails
    <2>2. QED
      BY <2>1, <1>1, <1>5, MovesUncancelled DEF Uncancelled
  <1>9. RootIsFirst'
    BY <1>0, <1>1 DEF RootIsFirst
  <1>10. RootCalls'
    BY <1>0, <1>1, <1>3, <1>4 DEF RootCalls, Handling
  <1>11. RootAnswers'
    BY <1>0, <1>1, <1>3, <1>4 DEF RootAnswers, Answered
  <1>12. WorkersFinalize'
    BY <1>5 DEF WorkersFinalize
  <1>13. FinalizesSettled'
    BY <1>1, MovesSettled DEF Settled
  <1>14. SomebodyFinalizes'
    BY <1>0, <1>1, <1>2, <1>3 DEF SomebodyFinalizes
  <1>15. QED
    BY <1>6, <1>7, <1>8, <1>9, <1>10, <1>11, <1>12, <1>13, <1>14, MovesAnswer

\* prepare_ack: the worker that takes the last work out of the index finalizes.
LEMMA AckSettles ==
    ASSUME SettleInv, SafeInv', NEW m \in Msg, ack(m), Moves
    PROVE  SettleInv'
  <1> USE DEF SettleInv
  <1>0. /\ pc \in [Msg -> Labels] /\ call \in [Actor -> Operation] /\ Root \in Msg
    BY RootAssumption DEF SafeInv, TypeOK
  <1>1. /\ pc[m] = "ack" /\ queue[m] = "processing" /\ m \in work /\ m \notin active
        /\ work' = work \ {m}
        /\ UNCHANGED <<store, cache, queue, active, failure, lock, child, cancelled, spent>>
    BY DEF ack, Delivered, Indexed, Handling
  <1>2. \/ /\ pc' = [pc EXCEPT ![m] = "finalize"]
           /\ call' = [call EXCEPT ![Worker(m)] = [op |-> "finalize", step |-> "check", draft |-> None]]
        \/ /\ pc' = [pc EXCEPT ![m] = "write"] /\ call' = call
           /\ work \ {m} # {} \/ active # {}
    BY <1>1 DEF ack, became_idle, Begin, Goto
  <1>4. \A n \in Msg : call'[Handler(n)] = call[Handler(n)]
    BY <1>0, <1>2, Actors
  <1>5. /\ \A a \in Actor : call'[a].op \in {call[a].op, "finalize"}
        /\ call'[Client] = call[Client]
        /\ \A n \in Msg : call'[Worker(n)] = call[Worker(n)] \/ call'[Worker(n)].op = "finalize"
    BY <1>0, <1>2, Actors
  <1>6. \A n \in Msg : Delivered(n)' /\ Indexed(n)'
    <2>1. \A n \in Msg \ {m} : Same(n)
      BY <1>0, <1>1, <1>2 DEF Same
    <2>2. Accounted(m)'
      BY <1>0, <1>1, <1>2 DEF Accounted, Delivered, Indexed, Handling
    <2>3. QED
      BY <2>1, <2>2, SameKeeps DEF Accounted
  <1>7. \A n \in Msg : pc[n] \in Handling => pc'[n] = pc[n]
    BY <1>0, <1>1, <1>2 DEF Handling
  <1>8. \A c \in Msg : Enqueued(c)'
    BY <1>1, <1>4, <1>7 DEF Enqueued
  <1>9. Uncancelled'
    BY <1>1, <1>5, MovesUncancelled DEF Uncancelled
  <1>10. RootIsFirst'
    BY <1>1 DEF RootIsFirst
  <1>11. RootCalls'
    BY <1>4, <1>7 DEF RootCalls
  <1>12. RootAnswers'
    <2>1. pc'[Root] \in {"answered", "ack", "finalize", "write"} =>
             pc'[Root] = pc[Root] \/ (pc[Root] = "ack" /\ pc'[Root] # "answered")
      BY <1>0, <1>1, <1>2
    <2>2. QED
      BY <2>1, <1>1, <1>4, <1>0 DEF RootAnswers, Answered
  <1>13. WorkersFinalize'
    BY <1>5 DEF WorkersFinalize
  <1>14. FinalizesSettled'
    <2>1. Settled => Settled'
      BY <1>0, <1>1, <1>2 DEF Settled, Handling
    <2>2. QED
      BY <1>1, <2>1, MovesSettled
  <1>15. SomebodyFinalizes'
    <2>1. CASE pc' = [pc EXCEPT ![m] = "finalize"]
      BY <2>1, <1>0 DEF SomebodyFinalizes
    <2>2. CASE work \ {m} # {} \/ active # {}
      <3>1. \A n \in active : n \in work /\ n # m
        BY <1>1 DEF Indexed, SafeInv, TypeOK
      <3>2. QED
        BY <2>2, <3>1, <1>1 DEF SomebodyFinalizes
    <2>3. QED
      BY <2>1, <2>2, <1>2
  <1>16. QED
    BY <1>6, <1>8, <1>9, <1>10, <1>11, <1>12, <1>13, <1>14, <1>15, MovesAnswer

\* The root's handler looks at the record, or records an outcome.
LEMMA RootSettles ==
    ASSUME SettleInv, SafeInv', Moves, Running(Root), NEW l \in Handling, Goto(Root, l),
           UNCHANGED <<store, cache, lock, queue, work, active, failure, child, cancelled, spent>>,
           \/ UNCHANGED call /\ (l = "answered" => Answered(store))
           \/ Begin(Handler(Root), "start", "lock") /\ l # "answered"
           \/ \E op \in {"complete", "fail"} : Begin(Handler(Root), op, "lock")
    PROVE  SettleInv'
  <1> USE DEF SettleInv
  <1>0. /\ pc \in [Msg -> Labels] /\ call \in [Actor -> Operation] /\ Root \in Msg
        /\ Handler(Root) \in Actor
    BY RootAssumption, Actors DEF SafeInv, TypeOK
  <1>1. /\ pc[Root] \in Handling /\ child[Root] = None /\ call[Handler(Root)] = NoCall
        /\ pc' = [pc EXCEPT ![Root] = l]
    BY DEF Running, Goto
  <1> DEFINE Asks(x) ==
          /\ call'[Handler(Root)].op = x
          /\ x # "none" => call'[Handler(Root)].step = "lock"
          /\ x = "none" => call'[Handler(Root)] = NoCall
          /\ x \in {"none", "start"} /\ l = "answered" => x = "none" /\ Answered(store)
          /\ \A b \in Actor \ {Handler(Root)} : call'[b] = call[b]
  <1>2. \E x \in {"none", "start", "complete", "fail"} : Asks(x)
    <2>1. CASE UNCHANGED call /\ (l = "answered" => Answered(store))
      <3>1. Asks("none")
        BY <2>1, <1>0, <1>1, Beginnings
      <3>2. QED
        BY <3>1
    <2>2. CASE Begin(Handler(Root), "start", "lock") /\ l # "answered"
      <3>1. Asks("start")
        BY <2>2, <1>0 DEF Begin
      <3>2. QED
        BY <3>1
    <2>3. ASSUME NEW op \in {"complete", "fail"}, Begin(Handler(Root), op, "lock")
          PROVE  Asks(op)
      BY <2>3, <1>0 DEF Begin
    <2>4. QED
      BY <2>1, <2>2, <2>3
  <1>3. \A m \in Msg : Delivered(m)' /\ Indexed(m)'
    BY <1>0, <1>1 DEF Delivered, Indexed, Handling
  <1>4. \A c \in Msg : Enqueued(c)'
    BY <1>0, <1>1, <1>2, Actors DEF Enqueued
  <1>5. Uncancelled'
    <2>1. call'[Client] = NoCall /\ \A a \in Actor : call'[a].op # "cancel"
      BY <1>0, <1>2, Actors DEF Uncancelled
    <2>2. QED
      BY <2>1, MovesUncancelled DEF Uncancelled
  <1>6. RootIsFirst'
    BY <1>0, <1>1 DEF RootIsFirst, SafeInv, WorkersCall, Handling
  <1>7. RootCalls'
    BY <1>0, <1>1, <1>2, Actors DEF RootCalls
  <1>8. RootAnswers'
    BY <1>0, <1>1, <1>2 DEF RootAnswers, Answered, Handling
  <1>9. WorkersFinalize'
    BY <1>0, <1>2, Actors DEF WorkersFinalize
  <1>10. FinalizesSettled'
    BY <1>0, <1>1, MovesSettled DEF Settled
  <1>11. SomebodyFinalizes'
    BY <1>0, <1>1 DEF SomebodyFinalizes, Handling
  <1>12. QED
    BY <1>3, <1>4, <1>5, <1>6, <1>7, <1>8, <1>9, <1>10, <1>11, MovesAnswer


\* The root's handler looks at the record first.
LEMMA ReplaySettles ==
    ASSUME SettleInv, SafeInv', NEW m \in Msg, replay(m), Moves
    PROVE  SettleInv'
  <1> USE DEF SettleInv
  <1>1. /\ m = Root /\ Running(Root)
        /\ UNCHANGED <<store, cache, lock, queue, work, active, failure, child, cancelled, spent>>
    BY DEF replay
  <1>2. {"answered", "recorded", "started"} \subseteq Handling
    BY DEF Handling
  <1>3. CASE Loaded.status \notin Unanswered
    <2>1. Goto(Root, "answered") /\ UNCHANGED call
      BY <1>1, <1>3 DEF replay
    <2>2. Loaded \in Record /\ Loaded.status \notin Cancellation
      BY DEF Loaded, SafeInv, TypeOK, Uncancelled
    <2>3. Loaded.status \in Terminal
      BY <1>3, <2>2 DEF Record, ActiveStatus, Terminal, Cancellation, Unanswered
    <2>4. Answered(store)
      BY <2>3 DEF Loaded, DraftsAnswer, Answered
    <2>5. QED
      BY <1>1, <1>2, <2>1, <2>4, RootSettles
  <1>4. CASE Loaded.status \in Unanswered /\ Loaded.result
    <2>1. Goto(Root, "recorded") /\ UNCHANGED call
      BY <1>1, <1>4 DEF replay
    <2>2. QED
      BY <1>1, <1>2, <2>1, RootSettles
  <1>5. CASE Loaded.status \in Unanswered /\ ~Loaded.result
    <2>1. Goto(Root, "started") /\ Begin(Handler(Root), "start", "lock")
      BY <1>1, <1>5 DEF replay
    <2>2. QED
      BY <1>1, <1>2, <2>1, RootSettles
  <1>6. QED
    BY <1>3, <1>4, <1>5

\* The root's handler records an outcome.
LEMMA RecordSettles ==
    ASSUME SettleInv, SafeInv', NEW m \in Msg, NEW op \in {"complete", "fail"},
           record_outcome(m, op), Moves
    PROVE  SettleInv'
  <1>1. /\ m = Root /\ Running(Root) /\ Begin(Handler(Root), op, "lock")
        /\ UNCHANGED <<store, cache, lock, queue, work, active, failure, child, cancelled, spent>>
    BY DEF record_outcome
  <1>2. PICK l \in {"answered", "recorded"} : Goto(Root, l)
    BY <1>1 DEF record_outcome
  <1>3. l \in Handling
    BY DEF Handling
  <1>4. QED
    BY <1>1, <1>2, <1>3, RootSettles

\* A first message that is out of the index has left its answer in the store.
LEMMA RootDone ==
    ASSUME SettleInv, queue[Root] \notin {"none", "lost"}, work = {}
    PROVE  Answered(store)
  <1> USE DEF SettleInv
  <1>1. Root \in Msg /\ queue[Root] \in {"writing", "pending", "processing", "acked"}
        /\ pc[Root] \in Labels
    BY RootAssumption DEF SafeInv, TypeOK
  <1>2. Delivered(Root) /\ Indexed(Root)
    BY <1>1
  <1>3. pc[Root] \in {"finalize", "write"} \/ queue[Root] = "acked"
    BY <1>1, <1>2 DEF Delivered, Indexed, Labels
  <1>4. QED
    BY <1>3 DEF RootAnswers

\* An operation that finds nothing to write: the task is over, or has work left.
LEMMA NothingToWrite ==
    ASSUME SettleInv, lock = None, NEW a \in Actor, call[a].step = "lock",
           Draft(call[a].op, Loaded) = {}
    PROVE  /\ a.role = "handler" => store.status \in Terminal
           /\ a.role = "worker" /\ queue[Root] \notin {"none", "lost"}
                 => work # {} \/ store.status \in Terminal
  <1> USE DEF SettleInv
  <1>1. Loaded = store /\ call[a] # NoCall /\ store \in Record
    BY ReadsStored, Beginnings DEF SafeInv, TypeOK
  <1>2. store.status \notin Cancellation
    BY DEF Uncancelled
  <1>3. ASSUME a.role = "handler"
        PROVE  store.status \in Terminal
    <2>0. a = Handler(Root) /\ call[a] \in Operation
      BY <1>1, <1>3, Callers DEF SafeInv, TypeOK
    <2>1. a = Handler(Root) /\ call[a].op \in {"start", "complete", "fail"}
      BY <1>1, <2>0, RootAssumption DEF RootCalls, Uncancelled, Operation
    <2>2. ASSUME store.status \in Unanswered
          PROVE  FALSE
      <3>1. CASE call[a].op = "start"
        <4>1. [store EXCEPT !.status = "running"] \in Record
          BY <1>1 DEF Record, Unanswered, ActiveStatus
        <4>2. [store EXCEPT !.status = "running"] \in Draft(call[a].op, store)
          BY <3>1, <4>1, <2>2 DEF Draft
        <4>3. QED
          BY <4>2, <1>1
      <3>2. CASE call[a].op \in {"complete", "fail"}
        <4> DEFINE new == [store EXCEPT !.result = @ \/ call[a].op = "complete",
                                        !.error = @ \/ call[a].op = "fail" \/ failure]
        <4>1. new \in Record
          BY <1>1 DEF Record
        <4>2. new \in Draft(call[a].op, store)
          BY <3>2, <4>1, <2>2 DEF Draft
        <4>3. QED
          BY <4>2, <1>1
      <3>3. QED
        BY <2>1, <3>1, <3>2
    <2>3. QED
      BY <1>1, <1>2, <2>2 DEF Record, ActiveStatus, Unanswered, Cancellation, Terminal
  <1>4. ASSUME a.role = "worker", queue[Root] \notin {"none", "lost"}, work = {},
               store.status \notin Terminal
        PROVE  FALSE
    <2>1. call[a].op = "finalize"
      BY <1>1, <1>4, Callers, RootAssumption, Actors
    <2>2. ~has_work
      BY <1>4 DEF has_work, Indexed, SafeInv, TypeOK, Handling
    <2>3. store.result \/ store.error
      BY <1>4, RootDone DEF Answered
    <2>4. Final(store) \in Record
      BY <1>1 DEF Final, Record, Terminal
    <2>5. store.status \in ActiveStatus
      BY <1>1, <1>4 DEF Record
    <2>6. Final(store) \in Draft(call[a].op, store)
      BY <2>1, <2>2, <2>3, <2>4, <2>5 DEF Draft
    <2>7. QED
      BY <2>6, <1>1
  <1>5. QED
    BY <1>3, <1>4

\* The look at the index before a finalization.
LEMMA CheckSettles ==
    ASSUME SettleInv, SafeInv', NEW a \in Actor, finalize_check(a), Moves
    PROVE  SettleInv'
  <1> USE DEF SettleInv
  <1>0. call \in [Actor -> Operation] /\ call[a] # NoCall /\ Root \in Msg
    BY Beginnings, RootAssumption DEF SafeInv, TypeOK, finalize_check
  <1>1. UNCHANGED <<store, cache, queue, active, failure, lock, child, cancelled, spent>>
    BY DEF finalize_check
  <1>2. active \subseteq work
    BY DEF Indexed, SafeInv, TypeOK
  <1>3. /\ \A b \in Actor \ {a} : call'[b] = call[b]
        /\ call'[a].op \in {"none", "finalize"}
    BY <1>0, Beginnings DEF finalize_check, Finish, Begin
  <1>4. a # Client
    BY <1>0 DEF Uncancelled
  <1>5. Uncancelled'
    BY <1>1, <1>3, <1>4, Actors, MovesUncancelled DEF Uncancelled
  <1>6. CASE has_work
    <2>1. Finish(a, TRUE) /\ work # {}
      BY <1>6, <1>2 DEF finalize_check, has_work
    <2>2. a.role = "handler" /\ pc[Root] = "answered" => Answered(store)
      <3>1. ASSUME a.role = "handler"
            PROVE  a = Handler(Root) /\ call[Handler(Root)].op = "finalize"
        <4>1. a = Handler(Root) /\ call[a].step = "check"
          BY <3>1, <1>0, Callers DEF finalize_check
        <4>2. QED
          BY <4>1, <1>0 DEF RootCalls
      <3>2. QED
        BY <3>1 DEF RootAnswers
    <2>3. Course'
      BY <1>0, <1>1, <2>1, <2>2, FinishSettles
    <2>4. Settled => Settled'
      <3>1. \A m \in Msg : pc'[m] = pc[m] \/ pc'[m] \in {"done", "write", "stuck"}
        <4>1. CASE a.role # "worker"
          BY <2>1, <4>1 DEF Finish
        <4>2. CASE a.role = "worker"
          <5>1. PICK l \in {"done", "write", "stuck"} : pc' = [pc EXCEPT ![a.msg] = l]
            BY <2>1, <4>2, FinishEffect DEF SafeInv
          <5>2. QED
            BY <5>1 DEF SafeInv, TypeOK
        <4>3. QED
          BY <4>1, <4>2
      <3>2. QED
        BY <1>1, <3>1 DEF Settled, Handling
    <2>5. QED
      BY <1>1, <1>5, <2>3, <2>4, MovesSettled, MovesAnswer DEF Course
  <1>7. CASE ~has_work
    <2>1. /\ call' = [call EXCEPT ![a] = [op |-> "finalize", step |-> "lock", draft |-> None]]
          /\ UNCHANGED <<pc, work>>
      BY <1>7 DEF finalize_check, Begin
    <2>2. a.role = "worker"
      BY <1>0, <1>7, Callers DEF has_work, Indexed
    <2>3. \A n \in Msg : call'[Handler(n)] = call[Handler(n)]
      BY <1>0, <2>1, <2>2, Actors
    <2>4. \A n \in Msg : call'[Worker(n)] = call[Worker(n)] \/ call'[Worker(n)].op = "finalize"
      BY <1>0, <2>1, Actors
    <2>5. \A m \in Msg : Delivered(m)' /\ Indexed(m)' /\ Enqueued(m)'
      BY <1>1, <2>1, <2>3 DEF Delivered, Indexed, Enqueued
    <2>6. RootIsFirst' /\ RootCalls' /\ SomebodyFinalizes' /\ WorkersFinalize'
      BY <1>0, <1>1, <2>1, <2>3, <2>4 DEF RootIsFirst, RootCalls, SomebodyFinalizes, WorkersFinalize
    <2>7. RootAnswers'
      BY <1>0, <1>1, <2>1, <2>3 DEF RootAnswers, Answered
    <2>8. Settled => Settled'
      BY <1>1, <2>1 DEF Settled
    <2>9. QED
      BY <1>1, <1>5, <2>5, <2>6, <2>7, <2>8, MovesSettled, MovesAnswer
  <1>8. QED
    BY <1>6, <1>7


\* With the index empty nothing is on its way.
LEMMA IdleIsSettled ==
    ASSUME SettleInv, ~has_work
    PROVE  Settled
  BY DEF SettleInv, has_work, Settled, Indexed

\* What a record to be written is, of a task nobody cancels.
LEMMA DraftAnswers ==
    ASSUME NEW task \in Record, NEW op, NEW new \in Draft(op, task), failure \in BOOLEAN,
           task.status \notin Cancellation
    PROVE  /\ Answered(task) => Answered(new)
           /\ op \in {"complete", "fail"} => Answered(new)
           /\ op = "finalize" => new.status \in Terminal /\ ~has_work
           /\ op = "finalize" /\ new.status = "completed" => ~failure
  <1> USE DEF Record, Answered, Terminal, Unanswered, ActiveStatus, Cancellation
  <1>1. CASE op = "start"
    BY <1>1 DEF Draft
  <1>2. CASE op \in {"complete", "fail"}
    BY <1>2 DEF Draft
  <1>3. CASE op = "cancel"
    BY <1>3 DEF Draft, MayCancel
  <1>4. CASE op = "finalize"
    BY <1>4 DEF Draft, Final
  <1>5. QED
    BY <1>1, <1>2, <1>3, <1>4 DEF Draft

\* with_task_lock: a finalization takes the lock only with settled work.
LEMMA LockSettles ==
    ASSUME MaxCancels = 0, SettleInv, SafeInv', NEW a \in Actor, with_task_lock(a)
    PROVE  SettleInv'
  <1> USE DEF SettleInv
  <1>0. call \in [Actor -> Operation] /\ Root \in Msg /\ store \in Record /\ failure \in BOOLEAN
    BY RootAssumption DEF SafeInv, TypeOK
  <1>1. lock = None /\ call[a].step = "lock" /\ call[a] # NoCall
    BY Beginnings DEF with_task_lock, acquire
  <1>2. Loaded = store /\ \A b \in Actor : call[b].step \notin Held
    BY <1>1, ReadsStored
  <1>3. UNCHANGED <<store, cache, queue, active, failure, child, spent>>
    BY DEF with_task_lock
  <1>4. a # Client /\ call[a].op # "cancel"
    BY <1>1 DEF Uncancelled
  <1> DEFINE Goes ==
          /\ UNCHANGED <<lock, cancelled>>
          /\ Draft(call[a].op, Loaded) = {}
          /\ Then(a)
  <1> DEFINE Takes ==
          \E new \in Draft(call[a].op, Loaded) :
              /\ call' = [call EXCEPT ![a] = [op |-> call[a].op, step |-> "store", draft |-> new]]
              /\ lock' = a
              /\ UNCHANGED <<pc, work, cancelled>>
  <1>5. CASE Goes
    <2>1. Course'
      BY <1>0, <1>1, <1>3, <1>5, NothingToWrite, ThenSettles DEF Answered
    <2>2. /\ \A b \in Actor \ {a} : call'[b] = call[b]
          /\ call'[a].op \in {"none", "finalize"} /\ call'[a].step \notin Held
      BY <1>0, <1>5, Beginnings DEF Then, Finish, Begin, Held
    <2>3. \A b \in Actor : call'[b].step \notin Held
      BY <1>2, <2>2
    <2>4. Uncancelled'
      BY <1>3, <1>4, <1>5, <2>2, <2>3, Actors DEF Uncancelled, Held
    <2>5. FinalizesSettled' /\ DraftsAnswer'
      BY <1>3, <2>3 DEF FinalizesSettled, DraftsAnswer, Answered, Held
    <2>6. QED
      BY <2>1, <2>4, <2>5 DEF Course
  <1>6. CASE Takes
    <2>1. PICK new \in Draft(call[a].op, store) :
              call' = [call EXCEPT ![a] = [op |-> call[a].op, step |-> "store", draft |-> new]]
      BY <1>6, <1>2
    <2>2. UNCHANGED <<pc, work, cancelled>>
      BY <1>6
    <2>3. /\ Answered(store) => Answered(new)
          /\ call[a].op \in {"complete", "fail"} => Answered(new)
          /\ call[a].op = "finalize" => new.status \in Terminal /\ ~has_work
          /\ call[a].op = "finalize" /\ new.status = "completed" => ~failure
      BY <1>0, DraftAnswers DEF Uncancelled
    <2>4. /\ call'[a].op = call[a].op /\ call'[a].step = "store" /\ call'[a].draft = new
          /\ call'[a] # NoCall
          /\ \A b \in Actor \ {a} : call'[b] = call[b]
      BY <1>0, <2>1, Beginnings
    <2>5. \A b \in Actor \ {a} : call'[b].step \notin Held
      BY <1>2, <2>4
    <2>6. a.role = "handler" => call[a].op # "finalize"
      BY <1>0, <1>1, Callers DEF RootCalls
    <2>7. Uncancelled'
      <3>1. \A b \in Actor : call'[b].step = "store" /\ call'[b].op # "cancel"
                => call'[b].draft.status \notin Cancellation
        BY <1>3 DEF SafeInv, DraftsAreFresh, Uncancelled
      <3>2. \A b \in Actor : call'[b].op # "cancel"
        BY <1>4, <2>4 DEF Uncancelled
      <3>3. QED
        BY <1>3, <1>4, <2>2, <2>4, <3>1, <3>2, Actors DEF Uncancelled
    <2>8. \A m \in Msg : Delivered(m)' /\ Indexed(m)'
      BY <1>3, <2>2 DEF Delivered, Indexed
    <2>9. \A m \in Msg : call'[Handler(m)] = call[Handler(m)]
                         \/ (a = Handler(m) /\ call[Handler(m)] # NoCall)
      BY <1>1, <2>4, Actors
    <2>10. \A m \in Msg : Enqueued(m)'
      BY <1>3, <2>2, <2>9 DEF Enqueued
    <2>11. RootIsFirst'
      BY <1>1, <1>3 DEF RootIsFirst
    <2>12. RootCalls'
      <3>1. SUFFICES ASSUME NEW m \in Msg, call'[Handler(m)] # NoCall
                     PROVE  /\ m = Root /\ pc'[m] \in Handling
                            /\ call'[Handler(m)].op # "none"
                            /\ call'[Handler(m)].op = "finalize" <=> call'[Handler(m)].step = "check"
        BY DEF RootCalls
      <3>2. CASE a = Handler(m)
        BY <1>1, <2>2, <2>4, <2>6, <3>2, Actors DEF RootCalls
      <3>3. CASE a # Handler(m)
        BY <2>2, <2>9, <3>1, <3>3 DEF RootCalls
      <3>4. QED
        BY <3>2, <3>3
    <2>13. RootAnswers'
      <3>1. call'[Handler(Root)].op = call[Handler(Root)].op
        BY <1>0, <2>4, Actors
      <3>2. QED
        BY <1>3, <2>2, <3>1 DEF RootAnswers, Answered
    <2>14. DraftsAnswer'
      BY <1>3, <2>3, <2>4, <2>5 DEF DraftsAnswer, Answered, Held
    <2>15. FinalizesSettled'
      <3>1. call[a].op = "finalize" => Settled'
        BY <1>3, <2>2, <2>3, IdleIsSettled DEF Settled
      <3>2. QED
        BY <1>3, <2>3, <2>4, <2>5, <3>1 DEF FinalizesSettled, Held
    <2>16. SomebodyFinalizes'
      BY <1>3, <2>2 DEF SomebodyFinalizes
    <2>17. WorkersFinalize'
      BY <1>1, <2>4, Actors DEF WorkersFinalize
    <2>18. QED
      BY <2>7, <2>8, <2>10, <2>11, <2>12, <2>13, <2>14, <2>15, <2>16, <2>17
  <1>7. Takes \/ Goes
    <2> HIDE DEF Goes
    <2>1. Goes \/ Draft(call[a].op, Loaded) # {}
      BY <1>4 DEF with_task_lock, Goes, Interrupt
    <2>2. QED
      BY <2>1 DEF with_task_lock
  <1>8. QED
    BY <1>5, <1>6, <1>7


\* persist: what was answered stays answered.
LEMMA PersistSettles ==
    ASSUME SettleInv, SafeInv', NEW a \in Actor, persist(a)
    PROVE  SettleInv'
  <1> USE DEF SettleInv
  <1>0. call \in [Actor -> Operation] /\ Root \in Msg
    BY RootAssumption DEF SafeInv, TypeOK
  <1>1. /\ call[a].step = "store" /\ store' = call[a].draft
        /\ UNCHANGED <<cache, queue, work, active, failure, lock, pc, child, cancelled, spent>>
    BY DEF persist
  <1>2. \A b \in Actor \ {a} : call[b].step \notin Held
    BY <1>1 DEF SafeInv, TypeOK, LockHolder, Held
  <1>3. /\ call'[a].step = "publish" /\ call'[a].op = call[a].op /\ call'[a].draft = call[a].draft
        /\ call'[a] # NoCall /\ call[a] # NoCall
        /\ \A b \in Actor \ {a} : call'[b] = call[b]
    BY <1>0, <1>1, Beginnings DEF persist, Operation
  <1>4. Answered(store) => Answered(store)'
    BY <1>1 DEF DraftsAnswer, Answered
  <1>5. Uncancelled'
    BY <1>1, <1>2, <1>3, Actors DEF Uncancelled, Held
  <1>6. \A m \in Msg : Delivered(m)' /\ Indexed(m)'
    BY <1>1 DEF Delivered, Indexed
  <1>7. \A m \in Msg : call'[Handler(m)] = call[Handler(m)] \/ a = Handler(m)
    BY <1>3, Actors
  <1>8. \A m \in Msg : Enqueued(m)'
    BY <1>1, <1>3, <1>7 DEF Enqueued
  <1>9. RootIsFirst'
    BY <1>1, <1>3 DEF RootIsFirst
  <1>10. RootCalls'
    BY <1>1, <1>3, <1>7 DEF RootCalls
  <1>11. RootAnswers'
    <2>1. call'[Handler(Root)].op = call[Handler(Root)].op
      BY <1>0, <1>3, <1>7
    <2>2. QED
      BY <1>1, <1>4, <2>1 DEF RootAnswers
  <1>12. DraftsAnswer'
    <2>1. cache' # None /\ Answered(cache)' => Answered(store)'
      BY <1>1, <1>4 DEF DraftsAnswer, Answered
    <2>2. QED
      BY <1>1, <1>2, <1>3, <2>1 DEF DraftsAnswer, Answered, Held
  <1>13. FinalizesSettled'
    BY <1>2, <1>3 DEF FinalizesSettled, Held
  <1>14. SomebodyFinalizes'
    BY <1>1 DEF SomebodyFinalizes, SafeInv, DraftsAreFresh
  <1>15. WorkersFinalize'
    <2>1. \A m \in Msg : call'[Worker(m)] = call[Worker(m)]
                         \/ (a = Worker(m) /\ call'[Worker(m)].op = call[Worker(m)].op)
      BY <1>3, Actors
    <2>2. QED
      BY <1>3, <2>1 DEF WorkersFinalize
  <1>16. QED
    BY <1>5, <1>6, <1>8, <1>9, <1>10, <1>11, <1>12, <1>13, <1>14, <1>15

\* Nobody is left in the lock: the parts of SettleInv about it are void.
LEMMA LeftSettles ==
    ASSUME SettleInv, SafeInv', Course', NEW a \in Actor, call[a].step \in Held,
           \A b \in Actor \ {a} : call'[b] = call[b],
           a # Client, call'[a].op # "cancel", call'[a].step \notin Held,
           UNCHANGED <<store, cancelled>>, cache' \in {cache, store},
           spent' \in [cancels : {0}, crashes : Nat, faults : Nat]
    PROVE  SettleInv'
  <1> USE DEF SettleInv
  <1>1. \A b \in Actor : call'[b].step \notin Held
    BY DEF SafeInv, TypeOK, LockHolder, Held
  <1>2. Uncancelled'
    BY <1>1, Actors DEF Uncancelled, Held
  <1>3. DraftsAnswer' /\ FinalizesSettled'
    BY <1>1 DEF DraftsAnswer, FinalizesSettled, Answered, Held
  <1>4. QED
    BY <1>2, <1>3 DEF Course

\* persist_fails: the root answers with an error or is stuck; a worker puts its work
\* back into the index.
LEMMA PersistFailsSettles ==
    ASSUME SettleInv, SafeInv', NEW a \in Actor, persist_fails(a)
    PROVE  SettleInv'
  <1> USE DEF SettleInv
  <1>0. /\ call \in [Actor -> Operation] /\ Root \in Msg /\ pc \in [Msg -> Labels]
        /\ active \subseteq Msg
    BY RootAssumption DEF SafeInv, TypeOK
  <1>1. /\ call[a].step = "store" /\ lock' = None
        /\ UNCHANGED <<store, cache, queue, child, cancelled>>
    BY DEF persist_fails
  <1>2. call[a].step \in Held /\ call[a] # NoCall /\ a # Client
    BY <1>1, Beginnings DEF Held, Uncancelled
  <1>3. spent' \in [cancels : {0}, crashes : Nat, faults : Nat]
    BY SpendKeeps DEF persist_fails
  <1>4. ASSUME Course', \A b \in Actor \ {a} : call'[b] = call[b],
               call'[a].op # "cancel", call'[a].step \notin Held
        PROVE  SettleInv'
    BY <1>1, <1>2, <1>3, <1>4, LeftSettles
  <1>5. CASE a.role = "worker"
    <2>1. Finish(a, FALSE) /\ UNCHANGED active
      BY <1>5 DEF persist_fails
    <2>2. Course'
      BY <1>1, <1>2, <1>5, <2>1, FinishSettles
    <2>3. /\ \A b \in Actor \ {a} : call'[b] = call[b]
          /\ call'[a].op # "cancel" /\ call'[a].step \notin Held
      BY <1>0, <2>1, Beginnings DEF Finish
    <2>4. QED
      BY <1>4, <2>2, <2>3
  <1>6. CASE a.role = "handler"
    <2>1. a = Handler(Root) /\ a.msg = Root /\ pc[Root] \in Handling
      BY <1>2, <1>6, Callers
    <2>2. child[Root] = None
      BY <1>0, <1>2, <2>1 DEF Enqueued
    <2> DEFINE Retries ==
            /\ call' = [call EXCEPT ![a] = [op |-> "fail", step |-> "lock", draft |-> None]]
            /\ pc' = [pc EXCEPT ![Root] = "answered"] /\ UNCHANGED <<work, active>>
    <2> DEFINE Sticks ==
            /\ call' = [call EXCEPT ![a] = NoCall]
            /\ pc' = [pc EXCEPT ![Root] = "stuck"] /\ UNCHANGED work /\ active' = active \ {Root}
    <2>3. Retries \/ Sticks
      BY <1>6, <2>1 DEF persist_fails, Begin, Goto, Escape
    <2>4. /\ \A b \in Actor \ {a} : call'[b] = call[b]
          /\ call'[a].op # "cancel" /\ call'[a].step \notin Held
      BY <1>0, <2>3, Beginnings DEF Held
    <2>5. \A m \in Msg : Delivered(m)' /\ Indexed(m)'
      <3>1. \A m \in Msg \ {Root} : Same(m)
        BY <1>0, <1>1, <2>3 DEF Same
      <3>2. Accounted(Root)'
        BY <1>0, <1>1, <2>1, <2>3 DEF Accounted, Delivered, Indexed, Handling
      <3>3. QED
        BY <3>1, <3>2, SameKeeps DEF Accounted
    <2>6. \A m \in Msg : Enqueued(m)'
      <3>1. \A m \in Msg : pc[m] \in Handling => pc'[m] \in Handling \/ m = Root
        BY <1>0, <2>3
      <3>2. \A m \in Msg : m # Root => call'[Handler(m)] = call[Handler(m)]
        BY <1>0, <2>1, <2>4, Actors
      <3>3. QED
        BY <1>0, <1>1, <2>2, <3>1, <3>2, RootAssumption DEF Enqueued
    <2>7. RootIsFirst'
      BY <1>1, <1>2 DEF RootIsFirst
    <2>8. RootCalls'
      <3>1. \A m \in Msg : m # Root => call'[Handler(m)] = call[Handler(m)]
        BY <1>0, <2>1, <2>4, Actors
      <3>2. \A m \in Msg : call'[Handler(m)] # NoCall => m = Root
        BY <3>1 DEF RootCalls
      <3>3. call'[Handler(Root)] # NoCall =>
               /\ pc'[Root] \in Handling /\ call'[Handler(Root)].op = "fail"
               /\ call'[Handler(Root)].step = "lock"
        BY <1>0, <2>1, <2>3 DEF Handling
      <3>4. QED
        BY <3>2, <3>3 DEF RootCalls
    <2>9. RootAnswers'
      <3>1. pc'[Root] = "answered" => call'[Handler(Root)].op = "fail"
        BY <1>0, <2>1, <2>3
      <3>2. pc'[Root] \in {"answered", "stuck"}
        BY <1>0, <2>3
      <3>3. QED
        BY <1>1, <3>1, <3>2 DEF RootAnswers, Answered
    <2>10. SomebodyFinalizes'
      BY <1>0, <1>1, <2>1, <2>3 DEF SomebodyFinalizes, Handling
    <2>11. WorkersFinalize'
      BY <1>0, <2>1, <2>4, Actors DEF WorkersFinalize
    <2>12. QED
      BY <1>4, <2>4, <2>5, <2>6, <2>7, <2>8, <2>9, <2>10, <2>11 DEF Course
  <1>7. QED
    BY <1>2, <1>5, <1>6, Callers

\* publish: the answer of the root, or the end of the task, is in the store.
LEMMA PublishSettles ==
    ASSUME SettleInv, SafeInv', NEW a \in Actor, publish(a)
    PROVE  SettleInv'
  <1> USE DEF SettleInv
  <1>0. call \in [Actor -> Operation] /\ Root \in Msg
    BY RootAssumption DEF SafeInv, TypeOK
  <1>1. /\ call[a].step = "publish" /\ cache' = call[a].draft /\ Then(a)
        /\ UNCHANGED <<store, queue, active, child, spent>> /\ Interrupt(call[a].op)
    BY DEF publish
  <1>2. call[a].step \in Held /\ call[a] # NoCall /\ a # Client /\ call[a].op # "cancel"
    BY <1>1, Beginnings DEF Held, Uncancelled
  <1>3. store = call[a].draft /\ cache' = store
    BY <1>1 DEF SafeInv, PublicationsAgree
  <1>4. UNCHANGED cancelled
    BY <1>1, <1>2 DEF Interrupt
  <1>5. a.role = "handler" /\ pc[Root] = "answered" => Answered(store)
    <2>1. SUFFICES ASSUME a.role = "handler", pc[Root] = "answered"
                   PROVE  Answered(store)
      OBVIOUS
    <2>2. a = Handler(Root)
      BY <1>2, <2>1, Callers
    <2>3. call[a].op \in {"complete", "fail"} \/ Answered(store)
      BY <2>1, <2>2 DEF RootAnswers
    <2>4. QED
      BY <1>1, <1>3, <2>3 DEF DraftsAnswer
  <1>6. a.role = "worker" => store.status \in Terminal
    BY <1>1, <1>2, <1>3, Callers DEF DraftsAnswer
  <1>7. Course'
    BY <1>1, <1>2, <1>5, <1>6, ThenSettles
  <1>8. /\ \A b \in Actor \ {a} : call'[b] = call[b]
        /\ call'[a].op # "cancel" /\ call'[a].step \notin Held
    BY <1>0, <1>1, Beginnings DEF Then, Finish, Begin, Held
  <1>9. QED
    BY <1>1, <1>2, <1>3, <1>4, <1>7, <1>8, LeftSettles DEF Uncancelled

\* evict and get.
LEMMA CacheSettles ==
    ASSUME SettleInv, SafeInv', evict \/ get
    PROVE  SettleInv'
  <1> USE DEF SettleInv
  <1>1. /\ UNCHANGED <<store, queue, work, active, failure, lock, call, pc, child, cancelled, spent>>
        /\ cache' \in {None, store}
    BY DEF evict, get
  <1>2. Uncancelled'
    BY <1>1 DEF Uncancelled
  <1>3. DraftsAnswer'
    BY <1>1 DEF DraftsAnswer, Answered
  <1>4. RootIsFirst' /\ RootCalls' /\ RootAnswers' /\ WorkersFinalize'
    BY <1>1 DEF RootIsFirst, RootCalls, RootAnswers, WorkersFinalize, Answered
  <1>5. FinalizesSettled' /\ SomebodyFinalizes'
    BY <1>1 DEF FinalizesSettled, SomebodyFinalizes, Settled
  <1>6. \A m \in Msg : Delivered(m)' /\ Indexed(m)' /\ Enqueued(m)'
    BY <1>1 DEF Delivered, Indexed, Enqueued
  <1>7. QED
    BY <1>2, <1>3, <1>4, <1>5, <1>6

\* crash: the messages that are not acknowledged are the work again.
LEMMA CrashSettles ==
    ASSUME SettleInv, SafeInv', crash
    PROVE  SettleInv'
  <1> USE DEF SettleInv
  <1>0. /\ queue \in [Msg -> {"none", "writing", "pending", "processing", "acked", "lost"}]
        /\ Root \in Msg
    BY RootAssumption DEF SafeInv, TypeOK
  <1>1. /\ UNCHANGED store /\ cache' \in {store, None}
        /\ call' = [a \in Actor |-> NoCall] /\ pc' = [m \in Msg |-> "idle"]
        /\ active' = {} /\ cancelled' = {}
        /\ child' = [m \in Msg |-> None]
        /\ work' = {m \in Msg : queue'[m] = "pending"}
    BY DEF crash, Recovered
  <1>2. PICK ended \in SUBSET {m \in Msg : queue[m] = "writing"} :
            queue' = [m \in Msg |-> IF queue[m] = "processing" \/ m \in ended THEN "pending"
                                    ELSE IF queue[m] \in {"none", "writing"} THEN Unsent(m)
                                    ELSE queue[m]]
    BY DEF crash
  <1>3. /\ \A m \in Msg : queue'[m] \in {"none", "pending", "acked", "lost"}
        /\ \A m \in Msg : queue'[m] = "acked" => queue[m] = "acked"
        /\ \A m \in Msg : queue[m] \in {"pending", "processing"} => queue'[m] = "pending"
        /\ queue'[Root] # "none"
        /\ queue[Root] \in {"none", "writing", "lost"} => queue'[Root] \in {"pending", "lost"}
    BY <1>0, <1>2 DEF Unsent
  <1>4. /\ \A a \in Actor : call'[a] = NoCall
        /\ \A m \in Msg : pc'[m] = "idle" /\ child'[m] = None
    BY <1>1
  <1>5. \A m \in Msg : Delivered(m)' /\ Indexed(m)' /\ Enqueued(m)'
    BY <1>1, <1>3, <1>4 DEF Delivered, Indexed, Enqueued, Handling
  <1>6. Uncancelled'
    <2>1. spent' \in [cancels : {0}, crashes : Nat, faults : Nat]
      BY SpendKeeps DEF crash
    <2>2. QED
      BY <1>1, <1>4, <2>1, Actors, Beginnings DEF Uncancelled
  <1>7. RootIsFirst' /\ RootCalls' /\ WorkersFinalize'
    BY <1>3, <1>4, Actors DEF RootIsFirst, RootCalls, WorkersFinalize
  <1>8. RootAnswers'
    BY <1>0, <1>1, <1>3, <1>4 DEF RootAnswers, Answered
  <1>9. DraftsAnswer' /\ FinalizesSettled'
    BY <1>1, <1>4, Beginnings DEF DraftsAnswer, FinalizesSettled, Answered, Held
  <1>10. SomebodyFinalizes'
    <2>1. SUFFICES ASSUME store.status \notin Terminal, queue'[Root] \notin {"none", "lost"},
                          \A m \in Msg : queue'[m] # "pending"
                   PROVE  FALSE
      BY <1>1 DEF SomebodyFinalizes
    <2>2. queue[Root] = "acked"
      BY <1>0, <1>3, <2>1
    <2>3. \A m \in Msg : queue[m] \notin {"pending", "processing"}
      BY <1>3, <2>1
    <2>4. \A m \in Msg : queue[m] # "writing"
      BY <2>2, <2>3 DEF Enqueued, Delivered, Handling
    <2>5. work = {} /\ \A m \in Msg : pc[m] # "finalize"
      BY <2>3, <2>4 DEF Indexed, Delivered, SafeInv, TypeOK
    <2>6. QED
      BY <2>1, <2>2, <2>5 DEF SomebodyFinalizes
  <1>11. QED
    BY <1>5, <1>6, <1>7, <1>8, <1>9, <1>10

\* SettleInv survives every step.
LEMMA SettleStep ==
    ASSUME MaxCancels = 0, SettleInv, [Next]_vars
    PROVE  SettleInv'
  <1>0. SafeInv /\ SafeInv'
    BY SafeStep DEF SettleInv
  <1>1. ASSUME NEW m \in Msg, PlainStep(m)
        PROVE  SettleInv'
    BY <1>0, <1>1, PlainSettles
  <1>2. CASE AskStep
    <2>1. Moves
      BY <1>0, <1>2, AskKeeps DEF Kept
    <2>2. QED
      BY <1>0, <1>2, <2>1, NoCancellation, EnqueueFailsSettles, AckSettles, ReplaySettles,
         RecordSettles, CheckSettles DEF AskStep
  <1>3. CASE UNCHANGED vars
    <2> USE <1>3 DEF vars
    <2>1. Uncancelled' /\ RootIsFirst' /\ RootCalls' /\ RootAnswers' /\ DraftsAnswer'
      BY DEF SettleInv, Uncancelled, RootIsFirst, RootCalls, RootAnswers, DraftsAnswer, Answered
    <2>2. FinalizesSettled' /\ SomebodyFinalizes' /\ WorkersFinalize'
      BY DEF SettleInv, FinalizesSettled, SomebodyFinalizes, WorkersFinalize, Settled
    <2>3. \A m \in Msg : Delivered(m)' /\ Indexed(m)' /\ Enqueued(m)'
      BY DEF SettleInv, Delivered, Indexed, Enqueued
    <2>4. QED
      BY <1>0, <2>1, <2>2, <2>3 DEF SettleInv
  <1>4. QED
    BY <1>0, <1>1, <1>2, <1>3, Steps, LockSettles, PersistSettles, PublishSettles,
       PersistFailsSettles, CacheSettles, CrashSettles

\* SettleInv holds at the start.
LEMMA SettleInit ==
    ASSUME Init
    PROVE  SettleInv
  <1> USE DEF Init
  <1>1. \A a \in Actor : call[a] = NoCall
    OBVIOUS
  <1>2. Uncancelled
    BY <1>1, Actors, Beginnings DEF Uncancelled, Cancellation
  <1>3. RootIsFirst /\ RootCalls /\ WorkersFinalize
    BY <1>1, Actors DEF RootIsFirst, RootCalls, WorkersFinalize
  <1>4. RootAnswers /\ DraftsAnswer /\ FinalizesSettled
    BY <1>1, RootAssumption, Beginnings DEF RootAnswers, DraftsAnswer, FinalizesSettled, Answered
  <1>5. SomebodyFinalizes
    BY RootAssumption DEF SomebodyFinalizes
  <1>6. \A m \in Msg : Delivered(m) /\ Indexed(m) /\ Enqueued(m)
    BY DEF Delivered, Indexed, Enqueued, Handling
  <1>7. QED
    BY <1>2, <1>3, <1>4, <1>5, <1>6, SafeInit DEF SettleInv

\* SettleInv holds in every reachable state of a task nobody cancels.
THEOREM SettleInvariance == ASSUME MaxCancels = 0 PROVE Spec => []SettleInv
  BY SettleInit, SettleStep, PTL DEF Spec

\* Of a task nobody cancels the last message is deleted only after the terminal
\* record is stored (_finalize_before_ack, "Persist the terminal state before QueueFS
\* removes the last recovery message"), through crashes and failing writes.
THEOREM ClosedBeforeLastAck == ASSUME MaxCancels = 0 PROVE Spec => []LastMessage
  <1>1. SettleInv => LastMessage
    <2>1. SUFFICES ASSUME SettleInv, queue[Root] = "acked", store.status \notin Terminal,
                          \A m \in Msg : queue[m] \in {"none", "acked", "lost"}
                   PROVE  FALSE
      BY DEF LastMessage
    <2>2. work # {} \/ \E m \in Msg : pc[m] = "finalize"
      BY <2>1 DEF SettleInv, SomebodyFinalizes
    <2>3. QED
      BY <2>1, <2>2 DEF SettleInv, Indexed, Delivered, SafeInv, TypeOK
  <1>2. QED
    BY <1>1, SettleInvariance, PTL

\* A step that closes the record is the write of a finalization.
LEMMA OnlyFinalizationCloses ==
    ASSUME SettleInv, [Next]_vars, store.status \notin Terminal, store'.status \in Terminal
    PROVE  \E a \in Actor :
              /\ call[a].op = "finalize" /\ call[a].step = "store" /\ store' = call[a].draft
  <1>1. store' # store
    OBVIOUS
  <1>2. SafeInv
    BY DEF SettleInv
  <1>3. PICK a \in Actor : persist(a)
    <2>1. ASSUME NEW a \in Actor, with_task_lock(a) \/ publish(a) \/ persist_fails(a)
          PROVE  FALSE
      BY <1>1, <2>1 DEF with_task_lock, publish, persist_fails
    <2>2. ASSUME evict \/ get \/ crash \/ UNCHANGED vars
          PROVE  FALSE
      BY <1>1, <2>2 DEF evict, get, crash, vars
    <2>3. QED
      BY <1>1, <1>2, <2>1, <2>2, Steps, PlainMoves, AskKeeps DEF Kept, Moves
  <1>4. QED
    BY <1>2, <1>3 DEF persist, SafeInv, DraftsAreFresh

\* A task nobody cancels becomes terminal only after the work it owns has settled.
THEOREM SettledBeforeClosed == ASSUME MaxCancels = 0 PROVE Spec => SettledFirst
  <1>1. ASSUME SettleInv, [Next]_vars, store.status \notin Terminal, store'.status \in Terminal
        PROVE  Settled
    BY <1>1, OnlyFinalizationCloses DEF SettleInv, FinalizesSettled
  <1>2. SettleInv /\ [Next]_vars =>
          [store.status \notin Terminal /\ store'.status \in Terminal =>
            \A m \in Msg : /\ queue[m] \notin {"writing", "pending"}
                           /\ pc[m] \notin {"fetched", "register"} \union Handling]_vars
    BY <1>1 DEF Settled
  <1>3. QED
    BY <1>2, SettleInvariance, PTL DEF Spec, SettledFirst

\* A task nobody cancels is not reported as completed while the index remembers a
\* failure of one of its work items, that is, until the server restarts: rebuild
\* forgets the failures, and a task may complete afterwards.
THEOREM KnownFailureIsReported == ASSUME MaxCancels = 0 PROVE Spec => FailureWins
  <1>1. ASSUME SettleInv, [Next]_vars, store.status # "completed", store'.status = "completed"
        PROVE  ~failure
    <2>1. CASE store.status \in Terminal
      <3>1. ASSUME NEW a \in Actor, persist(a)
            PROVE  FALSE
        BY <2>1, <3>1, <1>1 DEF persist, SettleInv, SafeInv, DraftsAreFresh
      <3>2. ASSUME NEW a \in Actor, with_task_lock(a) \/ publish(a) \/ persist_fails(a)
            PROVE  store' = store
        BY <3>2 DEF with_task_lock, publish, persist_fails
      <3>3. ASSUME evict \/ get \/ crash \/ UNCHANGED vars
            PROVE  store' = store
        BY <3>3 DEF evict, get, crash, vars
      <3>4. store' = store
        BY <1>1, <3>1, <3>2, <3>3, Steps, PlainMoves, AskKeeps DEF Kept, Moves, SettleInv
      <3>5. QED
        BY <1>1, <3>4
    <2>2. CASE store.status \notin Terminal
      <3>1. store'.status \in Terminal
        BY <1>1 DEF Terminal
      <3>2. QED
        BY <1>1, <2>2, <3>1, OnlyFinalizationCloses DEF SettleInv, FinalizesSettled
    <2>3. QED
      BY <2>1, <2>2
  <1>2. SettleInv /\ [Next]_vars =>
          [store.status # "completed" /\ store'.status = "completed" => ~failure]_vars
    BY <1>1
  <1>3. QED
    BY <1>2, SettleInvariance, PTL DEF Spec, FailureWins

=============================================================================
