------------------------ MODULE SessionCommitProofs ------------------------
(***************************************************************************)
(* Proofs about sessions and commits, for every number of archives,        *)
(* workers, messages and faults: the type invariant first, then what each  *)
(* kind of step may do, then one lemma per part of the inductive invariant *)
(* IInv of SessionCommit, then the theorems that follow from it.           *)
(***************************************************************************)
EXTENDS SessionCommit, FiniteSetTheorems, WellFoundedInduction, TLAPS

----------------------------------------------------------------------------
(* Facts about the operators.                                              *)

\* The larger of two numbers is one of them, and not smaller than the other.
LEMMA MaxOfTwo ==
    ASSUME NEW a \in Nat, NEW b \in Nat
    PROVE  Max({a, b}) \in {a, b} /\ Max({a, b}) >= a /\ Max({a, b}) >= b
  <1>1. \E x \in {a, b} : \A y \in {a, b} : x >= y
    OBVIOUS
  <1>2. QED
    BY <1>1 DEF Max

\* A non-empty set of numbers has its minimum.
LEMMA MinIsMember ==
    ASSUME NEW S \in SUBSET Nat, S # {}
    PROVE  Min(S) \in S
  <1> DEFINE Less == {ss \in Nat \X Nat : ss[1] < ss[2]}
  <1>1. IsWellFoundedOn(Less, Nat)
    BY NatLessThanWellFounded DEF OpToRel
  <1>2. PICK x \in S : \A y \in S : <<y, x>> \notin Less
    BY <1>1, WFMin, Zenon
  <1>3. ASSUME NEW y \in S
        PROVE  x <= y
    <2>1. x \in Nat /\ y \in Nat
      OBVIOUS
    <2>2. <<y, x>> \in Nat \X Nat
      BY <2>1
    <2>3. ~(y < x)
      BY <1>2, <2>2
    <2>4. QED
      BY <2>1, <2>3
  <1>4. QED
    BY <1>3 DEF Min

\* The archive a commit chooses does not exist yet.
LEMMA NextIndexIsFree ==
    ASSUME TypeOK, NextIndex \in Archive
    PROVE  ~Exists(NextIndex)
  <1> DEFINE S == {n \in (count + 1)..(MaxArchives + 1) : n \notin Archive \/ ~Exists(n)}
  <1>1. S \in SUBSET Nat /\ MaxArchives + 1 \in S
    BY BoundsAssumption DEF TypeOK, Archive
  <1>2. NextIndex \in S
    BY <1>1, MinIsMember DEF NextIndex
  <1>3. QED
    BY <1>2

\* Cardinalities of sets of workers that differ in at most one of them.
LEMMA FewerWorkers ==
    ASSUME NEW A, NEW B \in SUBSET Worker, A \subseteq B
    PROVE  /\ Cardinality(A) \in Nat /\ Cardinality(B) \in Nat
           /\ Cardinality(A) <= Cardinality(B)
  BY WorkerAssumption, FS_Subset, FS_CardinalityType

\* A set of workers without one of its members is smaller by one at least.
LEMMA OneWorkerLess ==
    ASSUME NEW B \in SUBSET Worker, NEW p \in B, NEW A, A \subseteq B \ {p}
    PROVE  /\ Cardinality(A) \in Nat /\ Cardinality(B) \in Nat
           /\ Cardinality(A) + 1 <= Cardinality(B)
  <1>1. IsFiniteSet(B) /\ Cardinality(B) \in Nat
    BY WorkerAssumption, FS_Subset, FS_CardinalityType
  <1>2. Cardinality(B \ {p}) = Cardinality(B) - 1 /\ IsFiniteSet(B \ {p})
    BY <1>1, FS_RemoveElement
  <1>3. Cardinality(A) <= Cardinality(B \ {p}) /\ Cardinality(A) \in Nat
    BY <1>2, FS_Subset, FS_CardinalityType
  <1>4. QED
    BY <1>1, <1>2, <1>3

\* A set of workers with one more is larger by one at most.
LEMMA OneWorkerMore ==
    ASSUME NEW B \in SUBSET Worker, NEW p, NEW A, A \subseteq B \union {p}
    PROVE  /\ Cardinality(A) \in Nat /\ Cardinality(B) \in Nat
           /\ Cardinality(A) <= Cardinality(B) + 1
  <1>1. IsFiniteSet(B) /\ Cardinality(B) \in Nat
    BY WorkerAssumption, FS_Subset, FS_CardinalityType
  <1>2. Cardinality(B \union {p}) \in {Cardinality(B), Cardinality(B) + 1} /\ IsFiniteSet(B \union {p})
    BY <1>1, FS_AddElement
  <1>3. Cardinality(A) <= Cardinality(B \union {p}) /\ Cardinality(A) \in Nat
    BY <1>2, FS_Subset, FS_CardinalityType
  <1>4. QED
    BY <1>1, <1>2, <1>3

----------------------------------------------------------------------------
(* Types, and who is busy with what.                                       *)

\* A worker with nothing to do.
LEMMA IdleIsJob == Idle \in Job
  BY BoundsAssumption DEF Idle, Job

\* Archives are numbered from one.
LEMMA JobRange == \A n \in Archive : n \in 0..MaxArchives
  BY BoundsAssumption DEF Archive

\* The values at first.
LEMMA TypeInit == Init => TypeOK /\ BusyWithArchive
  BY BoundsAssumption, NoneAssumption
     DEF Init, TypeOK, BusyWithArchive, NoArchive, ArchiveFiles, Archive, Message,
         Holder, Idle, Job, TaskStatus, CommitAt

\* Writing one file of one archive directory keeps the type of arch.
LEMMA WriteType ==
    ASSUME arch \in [Archive -> ArchiveFiles], NEW k \in Archive
    PROVE  /\ [arch EXCEPT ![k].raw = TRUE] \in [Archive -> ArchiveFiles]
           /\ [arch EXCEPT ![k].done = TRUE] \in [Archive -> ArchiveFiles]
           /\ [arch EXCEPT ![k].failed = TRUE] \in [Archive -> ArchiveFiles]
           /\ [arch EXCEPT ![k].steps = TRUE] \in [Archive -> ArchiveFiles]
           /\ [arch EXCEPT ![k].summarised = TRUE] \in [Archive -> ArchiveFiles]
           /\ [arch EXCEPT ![k].phase1 = "ready"] \in [Archive -> ArchiveFiles]
  <1>1. [arch EXCEPT ![k].raw = TRUE] \in [Archive -> ArchiveFiles]
    BY DEF ArchiveFiles
  <1>2. [arch EXCEPT ![k].done = TRUE] \in [Archive -> ArchiveFiles]
    BY DEF ArchiveFiles
  <1>3. [arch EXCEPT ![k].failed = TRUE] \in [Archive -> ArchiveFiles]
    BY DEF ArchiveFiles
  <1>4. [arch EXCEPT ![k].steps = TRUE] \in [Archive -> ArchiveFiles]
    BY DEF ArchiveFiles
  <1>5. [arch EXCEPT ![k].summarised = TRUE] \in [Archive -> ArchiveFiles]
    BY DEF ArchiveFiles
  <1>6. [arch EXCEPT ![k].phase1 = "ready"] \in [Archive -> ArchiveFiles]
    BY DEF ArchiveFiles
  <1>7. QED
    BY <1>1, <1>2, <1>3, <1>4, <1>5, <1>6

\* Callers that append, hold, release and expire keep values in their sets.
LEMMA ClientType ==
    ASSUME TypeOK, BusyWithArchive, Hold \/ Append \/ Release \/ Expire
    PROVE  TypeOK' /\ BusyWithArchive'
  <1>1. CASE Hold \/ Release \/ Expire
    <2>1. TypeOK'
      BY <1>1 DEF Hold, Release, Expire, TypeOK, Holder
    <2>2. BusyWithArchive'
      BY <1>1, NoneAssumption DEF Hold, Release, Expire, TypeOK, BusyWithArchive
    <2>3. QED
      BY <2>1, <2>2
  <1>2. CASE Append
    <2>1. sent' \in 0..MaxMsgs /\ sent' \in Message
      BY <1>2, BoundsAssumption DEF Append, TypeOK, Message
    <2>2. live' \subseteq Message /\ acked' \subseteq Message
      BY <1>2, <2>1 DEF Append, TypeOK
    <2>3. count' \in 0..MaxArchives /\ faults' \in 0..MaxFaults
      BY <1>2, BoundsAssumption DEF Append, TypeOK
    <2>4. TypeOK'
      BY <1>2, <2>1, <2>2, <2>3 DEF Append, TypeOK, Holder
    <2>5. BusyWithArchive'
      BY <1>2, NoneAssumption DEF Append, TypeOK, BusyWithArchive
    <2>6. QED
      BY <2>4, <2>5
  <1>3. QED
    BY <1>1, <1>2

\* So does every step of a commit, failed ones included.
LEMMA CommitType ==
    ASSUME TypeOK, BusyWithArchive, CommitBegin \/ CommitStep \/ CommitFault
    PROVE  TypeOK' /\ BusyWithArchive'
  <1> USE DEF CommitStep
  <1>0. commit.pc # "idle" => commit.n \in Archive /\ commit.n \in Nat
    BY DEF BusyWithArchive, Archive
  <1>1. commit' \in CommitAt
    <2>1. CASE CommitBegin
      BY <2>1 DEF CommitBegin, CommitAt, CommitSteps, Archive
    <2>2. commit \in CommitAt /\ [pc |-> "idle", n |-> 0] \in CommitAt
      BY BoundsAssumption DEF TypeOK, CommitAt
    <2>3. ASSUME NEW s \in CommitSteps \union {"failed"}
          PROVE  [commit EXCEPT !.pc = s] \in CommitAt
      BY <2>2, <2>3 DEF CommitAt
    <2>4. CASE CommitFault
      BY <2>2, <2>3, <2>4 DEF CommitFault, Goto
    <2>5. CASE CommitStep
      <3>1. CASE WriteReady \/ MarkFailed
        BY <2>2, <3>1 DEF WriteReady, MarkFailed
      <3>2. CASE \E s \in CommitSteps : commit' = [commit EXCEPT !.pc = s]
        BY <2>3, <3>2
      <3>3. QED
        BY <2>5, <3>1, <3>2
           DEF WriteMarker, WriteRaw, Enqueue, CreateTask, RewriteRoot, WriteSidecars, SaveMeta,
               Goto, CommitSteps
    <2>6. QED
      BY <2>1, <2>4, <2>5
  <1>2. /\ commit'.pc # "idle" => commit'.n \in Archive
        /\ commit'.pc # "idle" <=> lock' = "commit"
        /\ lock' \in Holder
    <2>1. CASE CommitBegin
      BY <2>1, NoneAssumption DEF CommitBegin, Holder
    <2>2. CASE CommitFault
      BY <2>2, <1>0, NoneAssumption DEF CommitFault, Goto, TypeOK, CommitAt, BusyWithArchive, Holder, CommitSteps
    <2>3. CASE CommitStep
      <3>1. CASE WriteReady \/ MarkFailed
        BY <3>1, NoneAssumption DEF WriteReady, MarkFailed, Holder
      <3>2. CASE ~(WriteReady \/ MarkFailed)
        <4>1. commit.pc # "idle" /\ lock' = lock
          BY <2>3, <3>2 DEF WriteMarker, WriteRaw, Enqueue, CreateTask, RewriteRoot,
                            WriteSidecars, SaveMeta
        <4>2. commit'.n = commit.n /\ commit'.pc # "idle"
          BY <2>3, <3>2 DEF WriteMarker, WriteRaw, Enqueue, CreateTask, RewriteRoot,
                            WriteSidecars, SaveMeta, Goto, TypeOK, CommitAt
        <4>3. QED
          BY <1>0, <4>1, <4>2 DEF BusyWithArchive, TypeOK
      <3>3. QED
        BY <3>1, <3>2
    <2>4. QED
      BY <2>1, <2>2, <2>3
  <1>3. BusyWithArchive'
    BY <1>2 DEF CommitBegin, CommitFault, CommitStep, BusyWithArchive
  <1>4. CASE CommitBegin \/ CommitFault
    <2>1. faults' \in 0..MaxFaults
      BY <1>4, BoundsAssumption DEF CommitBegin, CommitFault, TypeOK
    <2>2. QED
      BY <1>1, <1>2, <1>3, <1>4, <2>1 DEF CommitBegin, CommitFault, TypeOK
  <1>5. CASE CommitStep
    <2>1. commit.n \in Archive /\ commit.n \in Nat
      BY <1>0, <1>5 DEF WriteMarker, WriteRaw, Enqueue, CreateTask, RewriteRoot, WriteSidecars,
                  SaveMeta, WriteReady, MarkFailed
    <2>2. arch' \in [Archive -> ArchiveFiles]
      <3>0. arch \in [Archive -> ArchiveFiles]
        BY DEF TypeOK
      <3>1. ASSUME NEW s \in Splits
            PROVE  s.archived \subseteq Message /\ s.retained \subseteq Message
        BY DEF Splits, Tails, TypeOK
      <3>2. CASE WriteMarker
        <4>1. PICK s \in Splits, policy \in Policies :
                 arch' = [arch EXCEPT ![commit.n].phase1 = "preparing",
                                      ![commit.n].archived = s.archived,
                                      ![commit.n].retained = s.retained,
                                      ![commit.n].asked = policy]
          BY <3>2 DEF WriteMarker
        <4>2. policy \subseteq Step
          BY PolicyAssumption
        <4>3. QED
          BY <2>1, <3>0, <3>1, <4>1, <4>2 DEF ArchiveFiles
      <3>3. CASE WriteRaw \/ WriteReady \/ MarkFailed
        <4>1. /\ [arch EXCEPT ![commit.n].raw = TRUE] \in [Archive -> ArchiveFiles]
              /\ [arch EXCEPT ![commit.n].failed = TRUE] \in [Archive -> ArchiveFiles]
              /\ [arch EXCEPT ![commit.n].phase1 = "ready"] \in [Archive -> ArchiveFiles]
          BY <2>1, <3>0, WriteType
        <4>2. QED
          BY <3>3, <4>1 DEF WriteRaw, WriteReady, MarkFailed
      <3>4. QED
        BY <1>5, <3>0, <3>2, <3>3 DEF Enqueue, CreateTask, RewriteRoot, WriteSidecars, SaveMeta
    <2>3. live' \subseteq Message
      <3>1. CASE RewriteRoot
        BY <2>1, <3>1 DEF RewriteRoot, TypeOK, ArchiveFiles
      <3>2. QED
        BY <1>5, <3>1 DEF WriteMarker, WriteRaw, Enqueue, CreateTask, WriteSidecars,
                    SaveMeta, WriteReady, MarkFailed, TypeOK
    <2>4. count' \in 0..MaxArchives
      <3>1. CASE SaveMeta
        <4>1. Max({count, commit.n}) \in {count, commit.n}
          BY <2>1, MaxOfTwo DEF TypeOK
        <4>2. QED
          BY <2>1, <3>1, <4>1 DEF SaveMeta, TypeOK, Archive
      <3>2. QED
        BY <1>5, <3>1 DEF WriteMarker, WriteRaw, Enqueue, CreateTask, RewriteRoot, WriteSidecars,
                    WriteReady, MarkFailed, TypeOK
    <2>5. queued' \in [Archive -> Nat]
      <3>1. CASE Enqueue
        BY <2>1, <3>1 DEF Enqueue, TypeOK
      <3>2. QED
        BY <1>5, <3>1 DEF WriteMarker, WriteRaw, CreateTask, RewriteRoot, WriteSidecars,
                    SaveMeta, WriteReady, MarkFailed, TypeOK
    <2>6. task' \in [Archive -> TaskStatus]
      <3>1. CASE CreateTask
        BY <2>1, <3>1 DEF CreateTask, TypeOK, TaskStatus
      <3>2. QED
        BY <1>5, <3>1 DEF WriteMarker, WriteRaw, Enqueue, RewriteRoot, WriteSidecars,
                    SaveMeta, WriteReady, MarkFailed, TypeOK
    <2>7. QED
      BY <1>1, <1>2, <1>3, <1>5, <2>2, <2>3, <2>4, <2>5, <2>6 DEF TypeOK
  <1>6. QED
    BY <1>3, <1>4, <1>5

JobStep == EarlySteps \union Extracting \union
           {"idle", "finalize", "fail", "complete", "reject", "ack", "cancelled"}

\* The worker goes on with its archive, and no other worker is touched.
GoesOn(p, pc) ==
    /\ job' \in [Worker -> Job]
    /\ \A q \in Worker \ {p} : job'[q] = job[q]
    /\ job'[p].pc = pc /\ job'[p].n = job[p].n

\* The worker is done with its message.
Stops(p) ==
    /\ job' \in [Worker -> Job]
    /\ \A q \in Worker \ {p} : job'[q] = job[q]
    /\ job'[p] = Idle

\* A worker that goes on keeps its archive and its results.
LEMMA BecomeEffect ==
    ASSUME TypeOK, NEW p \in Worker, NEW pc \in JobStep, Become(p, pc)
    PROVE  /\ GoesOn(p, pc)
           /\ job'[p].summary = job[p].summary /\ job'[p].longTerm = job[p].longTerm
  BY DEF TypeOK, Become, GoesOn, Job, JobStep

\* A worker that begins to extract skips what nobody asked for, and long-term
\* memories recorded before.
LEMMA BeginEffect ==
    ASSUME TypeOK, NEW p \in Worker, Begin(p)
    PROVE  /\ GoesOn(p, "extract") /\ job'[p].summary = Todo(p, "summary")
           /\ job'[p].longTerm = IF arch[job[p].n].steps THEN "ok" ELSE Todo(p, "longTerm")
  <1>1. Todo(p, "summary") \in {"todo", "ok"} /\ Todo(p, "longTerm") \in {"todo", "ok"}
    BY DEF Todo
  <1>2. QED
    BY <1>1 DEF TypeOK, Begin, GoesOn, Job, Extracting

\* A retry after the storing: the step is to be done again, and that is counted.
LEMMA AgainEffect ==
    ASSUME TypeOK, BusyWithArchive, NEW p \in Worker, StoreAgain(p)
    PROVE  /\ job[p].n \in Archive /\ job[p].pc = "extract" /\ GoesOn(p, "extract")
           /\ job'[p].summary = job[p].summary /\ job'[p].longTerm = "todo"
           /\ exposed' = [exposed EXCEPT ![job[p].n] = @ + 1]
           /\ UNCHANGED <<live, count, arch, queued, stuck, task, lock, commit, acked, sent,
                          applied, crashes, cancels>>
           /\ TypeOK' /\ BusyWithArchive'
  <1>1. job[p].n \in Archive /\ job[p].pc = "extract"
    BY DEF StoreAgain, BusyWithArchive
  <1>2. /\ UNCHANGED <<live, count, arch, queued, stuck, task, lock, commit, acked, sent,
                       applied, crashes, cancels>>
        /\ exposed' = [exposed EXCEPT ![job[p].n] = @ + 1]
    BY DEF StoreAgain
  <1>3. /\ GoesOn(p, "extract")
        /\ job'[p].summary = job[p].summary /\ job'[p].longTerm = "todo"
    BY <1>1 DEF StoreAgain, LongTermIs, GoesOn, TypeOK, Job
  <1>4. faults' \in 0..MaxFaults
    BY BoundsAssumption DEF StoreAgain, TypeOK
  <1>5. TypeOK'
    BY <1>1, <1>2, <1>3, <1>4 DEF TypeOK, GoesOn
  <1>6. BusyWithArchive'
    BY <1>1, <1>2, <1>3 DEF BusyWithArchive, GoesOn
  <1>7. QED
    BY <1>1, <1>2, <1>3, <1>5, <1>6

\* A worker that stops has nothing left in its hands.
LEMMA StopEffect ==
    ASSUME TypeOK, NEW p \in Worker, job' = [job EXCEPT ![p] = Idle]
    PROVE  Stops(p)
  BY IdleIsJob DEF TypeOK, Stops

\* A worker that raises leaves its message in delivery.
LEMMA RaiseEffect ==
    ASSUME TypeOK, NEW p \in Worker, job[p].n \in Archive, Raise(p)
    PROVE  /\ Stops(p) /\ stuck' \in [Archive -> Nat]
           /\ stuck' = [stuck EXCEPT ![job[p].n] = @ + 1]
  <1>1. Stops(p)
    BY StopEffect DEF Raise
  <1>2. QED
    BY <1>1 DEF Raise, TypeOK

\* A worker that requeues puts one message more into the queue.
LEMMA RequeueEffect ==
    ASSUME TypeOK, NEW p \in Worker, job[p].n \in Archive, Requeue(p)
    PROVE  /\ GoesOn(p, "ack") /\ queued' \in [Archive -> Nat]
           /\ queued' = [queued EXCEPT ![job[p].n] = @ + 1]
           /\ job'[p].summary = job[p].summary /\ job'[p].longTerm = job[p].longTerm
  <1>1. "ack" \in JobStep
    BY DEF JobStep
  <1>2. Become(p, "ack")
    BY DEF Requeue
  <1>3. QED
    BY <1>1, <1>2, BecomeEffect DEF Requeue, TypeOK

\* Failed writes are counted down.
LEMMA FaultsType ==
    ASSUME TypeOK, WriteOk \/ WriteFails
    PROVE  faults' \in 0..MaxFaults
  BY BoundsAssumption DEF TypeOK, WriteOk, WriteFails

\* The count of commits stays within the archives.
LEMMA CountType ==
    ASSUME TypeOK, NEW k \in Archive, count' \in {count, Max({count, k})}
    PROVE  count' \in 0..MaxArchives
  <1>1. k \in 0..MaxArchives /\ count \in 0..MaxArchives /\ k \in Nat /\ count \in Nat
    BY BoundsAssumption DEF TypeOK, Archive
  <1>2. Max({count, k}) \in {count, k}
    BY <1>1, MaxOfTwo
  <1>3. QED
    BY <1>1, <1>2

\* What every step of a worker does to the job: it goes on or stops.
WorkerMoves(p) ==
    \/ Stops(p)
    \/ \E pc \in JobStep \ {"idle"} :
         GoesOn(p, pc) /\ (pc = "orderRecover" => job[p].n - 1 \in Archive)

\* Types and the frame of each group of steps.
LEMMA EarlyType ==
    ASSUME TypeOK, BusyWithArchive, NEW p \in Worker, UNCHANGED Others,
           Finalize(p) \/ Check(p) \/ Recover(p) \/ Order(p) \/ OrderRecover(p)
    PROVE  TypeOK' /\ WorkerMoves(p)
  <1> DEFINE n == job[p].n
  <1>0. n \in Archive /\ arch \in [Archive -> ArchiveFiles] /\ job[p].pc # "idle"
    BY DEF Finalize, Check, Recover, Order, OrderRecover, BusyWithArchive, TypeOK
  <1>1. {"ack", "complete", "reject", "order", "recover", "orderRecover", "extract"}
           \subseteq JobStep \ {"idle"}
    BY DEF JobStep, EarlySteps, Extracting
  <1> HIDE DEF n
  <1>2. CASE Finalize(p)
    <2>1. CASE /\ WriteOk /\ Become(p, "ack")
               /\ arch' = [arch EXCEPT ![n].failed = TRUE] /\ UNCHANGED stuck
      <3>1. GoesOn(p, "ack")
        BY <1>1, <2>1, BecomeEffect
      <3>2. arch' \in [Archive -> ArchiveFiles]
        BY <1>0, <2>1, WriteType
      <3>3. QED
        BY <1>1, <1>2, <2>1, <3>1, <3>2, FaultsType
           DEF Finalize, Others, TypeOK, GoesOn, WorkerMoves
    <2>2. CASE WriteFails /\ Raise(p) /\ UNCHANGED arch
      BY <1>0, <1>2, <2>2, RaiseEffect, FaultsType
         DEF n, Finalize, Others, TypeOK, Stops, WorkerMoves
    <2>3. QED
      BY <1>2, <2>1, <2>2 DEF Finalize, n
  <1>3. CASE Check(p)
    <2>1. \E pc \in {"complete", "reject", "order", "recover"} : Become(p, pc)
      BY <1>3 DEF Check
    <2>2. \E pc \in {"complete", "reject", "order", "recover"} : GoesOn(p, pc)
      BY <1>1, <2>1, BecomeEffect
    <2>3. QED
      BY <1>1, <1>3, <2>2 DEF Check, Others, TypeOK, GoesOn, WorkerMoves
  <1>4. ASSUME NEW k \in Archive, PhaseOneReady(k) \/ PhaseOneLost(k)
        PROVE  /\ arch' \in [Archive -> ArchiveFiles] /\ count' \in 0..MaxArchives
               /\ task' \in [Archive -> TaskStatus]
    <2>1. arch' \in [Archive -> ArchiveFiles]
      <3>1. /\ [arch EXCEPT ![k].phase1 = "ready"] \in [Archive -> ArchiveFiles]
            /\ [arch EXCEPT ![k].failed = TRUE] \in [Archive -> ArchiveFiles]
        BY <1>0, WriteType
      <3>2. QED
        BY <1>4, <3>1 DEF PhaseOneReady, PhaseOneLost
    <2>2. count' \in 0..MaxArchives
      BY <1>4, CountType DEF PhaseOneReady, PhaseOneLost
    <2>3. task' \in [Archive -> TaskStatus]
      BY <1>4 DEF PhaseOneReady, PhaseOneLost, TypeOK, TaskStatus
    <2>4. QED
      BY <2>1, <2>2, <2>3
  <1>5. ASSUME NEW k \in Archive, RecoverFails(p, k)
        PROVE  /\ Stops(p) /\ stuck' \in [Archive -> Nat] /\ UNCHANGED <<arch, task>>
               /\ faults' \in 0..MaxFaults /\ count' \in 0..MaxArchives
    <2>1. Stops(p) /\ stuck' \in [Archive -> Nat]
      BY <1>0, <1>5, RaiseEffect DEF RecoverFails, n
    <2>2. count' \in 0..MaxArchives
      BY <1>5, CountType DEF RecoverFails
    <2>3. faults' \in 0..MaxFaults
      BY <1>5, BoundsAssumption DEF RecoverFails, TypeOK
    <2>4. QED
      BY <1>5, <2>1, <2>2, <2>3 DEF RecoverFails
  <1>6. CASE Recover(p)
    <2>1. CASE RecoverFails(p, n)
      BY <1>0, <1>5, <1>6, <2>1 DEF Recover, Others, TypeOK, Stops, WorkerMoves
    <2>2. CASE UNCHANGED <<stuck, faults>> /\ PhaseOneReady(n) /\ Become(p, "order")
      <3>1. GoesOn(p, "order")
        BY <1>1, <2>2, BecomeEffect
      <3>2. QED
        BY <1>0, <1>1, <1>4, <1>6, <2>2, <3>1 DEF Recover, Others, TypeOK, GoesOn, WorkerMoves
    <2>3. CASE UNCHANGED <<stuck, faults>> /\ PhaseOneLost(n) /\ Become(p, "reject")
      <3>1. GoesOn(p, "reject")
        BY <1>1, <2>3, BecomeEffect
      <3>2. QED
        BY <1>0, <1>1, <1>4, <1>6, <2>3, <3>1 DEF Recover, Others, TypeOK, GoesOn, WorkerMoves
    <2>4. QED
      BY <1>6, <2>1, <2>2, <2>3 DEF Recover, n
  <1>7. CASE OrderRecover(p)
    <2>0. n - 1 \in Archive
      BY <1>7 DEF OrderRecover, BusyWithArchive, n
    <2>1. CASE RecoverFails(p, n - 1) /\ UNCHANGED queued
      BY <2>0, <1>5, <1>7, <2>1 DEF OrderRecover, Others, TypeOK, Stops, WorkerMoves
    <2>2. CASE UNCHANGED <<stuck, faults>> /\ PhaseOneReady(n - 1) /\ Requeue(p)
      <3>1. GoesOn(p, "ack") /\ queued' \in [Archive -> Nat]
        BY <1>0, <2>2, RequeueEffect DEF n
      <3>2. QED
        BY <2>0, <1>1, <1>4, <1>7, <2>2, <3>1 DEF OrderRecover, Others, TypeOK, GoesOn, WorkerMoves
    <2>3. CASE UNCHANGED <<stuck, faults, queued>> /\ PhaseOneLost(n - 1) /\ Begin(p)
      <3>1. GoesOn(p, "extract")
        BY <2>3, BeginEffect
      <3>2. QED
        BY <2>0, <1>1, <1>4, <1>7, <2>3, <3>1 DEF OrderRecover, Others, TypeOK, GoesOn, WorkerMoves
    <2>4. QED
      BY <1>7, <2>1, <2>2, <2>3 DEF OrderRecover, n
  <1>8. CASE Order(p)
    <2>1. CASE Begin(p) /\ UNCHANGED <<arch, queued, stuck, task, faults>>
      <3>1. GoesOn(p, "extract")
        BY <2>1, BeginEffect
      <3>2. QED
        BY <1>1, <1>8, <2>1, <3>1 DEF Order, Others, TypeOK, GoesOn, WorkerMoves
    <2>2. CASE n - 1 \in Archive /\ Become(p, "orderRecover") /\ UNCHANGED <<arch, queued, stuck, task, faults>>
      <3>1. GoesOn(p, "orderRecover")
        BY <1>1, <2>2, BecomeEffect
      <3>2. QED
        BY <1>1, <1>8, <2>2, <3>1 DEF Order, Others, TypeOK, GoesOn, WorkerMoves, n
    <2>3. CASE Requeue(p) /\ UNCHANGED <<arch, stuck, task, faults>>
      <3>1. GoesOn(p, "ack") /\ queued' \in [Archive -> Nat]
        BY <1>0, <2>3, RequeueEffect DEF n
      <3>2. QED
        BY <1>1, <1>8, <2>3, <3>1 DEF Order, Others, TypeOK, GoesOn, WorkerMoves
    <2>4. CASE /\ n - 1 \in Archive /\ WriteOk /\ Begin(p)
               /\ arch' = [arch EXCEPT ![n - 1].failed = TRUE]
               /\ task' = [task EXCEPT ![n - 1] = IF @ = "open" THEN "failed" ELSE @]
               /\ UNCHANGED <<queued, stuck>>
      <3>1. GoesOn(p, "extract")
        BY <2>4, BeginEffect
      <3>2. arch' \in [Archive -> ArchiveFiles]
        BY <1>0, <2>4, WriteType
      <3>3. task' \in [Archive -> TaskStatus]
        BY <2>4 DEF TypeOK, TaskStatus
      <3>4. QED
        BY <1>1, <1>8, <2>4, <3>1, <3>2, <3>3, FaultsType DEF Order, Others, TypeOK, GoesOn, WorkerMoves
    <2>5. CASE WriteFails /\ Raise(p) /\ UNCHANGED <<arch, queued, task>>
      BY <1>0, <1>8, <2>5, RaiseEffect, FaultsType
         DEF n, Order, Others, TypeOK, Stops, WorkerMoves
    <2>6. QED
      BY <1>8, <2>1, <2>2, <2>3, <2>4, <2>5 DEF Order, n
  <1>9. QED
    BY <1>2, <1>3, <1>6, <1>7, <1>8

\* Steps of a worker from the extraction to .done: types, and where it goes.
LEMMA ExtractType ==
    ASSUME TypeOK, BusyWithArchive, NEW p \in Worker, UNCHANGED Others,
           \/ ApplyMemories(p) \/ RecordStep(p) \/ Summarise(p) \/ Gather(p)
           \/ MergeMeta(p) \/ WriteDone(p)
    PROVE  TypeOK' /\ WorkerMoves(p)
  <1>0. job[p].n \in Archive /\ arch \in [Archive -> ArchiveFiles] /\ job \in [Worker -> Job]
    BY DEF ApplyMemories, RecordStep, Summarise, Gather, MergeMeta, WriteDone, BusyWithArchive, TypeOK
  <1>1. {"extract", "merge", "done", "fail", "complete"} \subseteq JobStep \ {"idle"}
    BY DEF JobStep, Extracting
  <1>2. CASE ApplyMemories(p)
    <2>1. GoesOn(p, "extract")
      BY <1>0, <1>2 DEF ApplyMemories, LongTermIs, GoesOn, Job
    <2>2. applied' \in [Archive -> Nat]
      BY <1>0, <1>2 DEF ApplyMemories, TypeOK
    <2>3. QED
      BY <1>1, <1>2, <2>1, <2>2 DEF ApplyMemories, Others, TypeOK, GoesOn, WorkerMoves
  <1>3. CASE RecordStep(p)
    <2>1. GoesOn(p, "extract")
      BY <1>0, <1>3 DEF RecordStep, LongTermIs, GoesOn, Job
    <2>2. [arch EXCEPT ![job[p].n].steps = TRUE] \in [Archive -> ArchiveFiles]
      BY <1>0, WriteType
    <2>3. QED
      BY <1>0, <1>1, <1>3, <2>1, <2>2, FaultsType DEF RecordStep, Others, TypeOK, GoesOn, WorkerMoves
  <1>4. CASE Summarise(p)
    <2>1. GoesOn(p, "extract")
      BY <1>0, <1>4 DEF Summarise, GoesOn, Job
    <2>2. [arch EXCEPT ![job[p].n].summarised = TRUE] \in [Archive -> ArchiveFiles]
      BY <1>0, WriteType
    <2>3. faults' \in 0..MaxFaults
      BY <1>4 DEF Summarise, TypeOK
    <2>4. QED
      BY <1>0, <1>1, <1>4, <2>1, <2>2, <2>3 DEF Summarise, Others, TypeOK, GoesOn, WorkerMoves
  <1>5. CASE Gather(p)
    <2>1. GoesOn(p, "merge") \/ GoesOn(p, "fail")
      BY <1>0, <1>5, BoundsAssumption DEF Gather, GoesOn, Job, Idle, Extracting, Archive
    <2>2. QED
      BY <1>1, <1>5, <2>1 DEF Gather, Others, TypeOK, GoesOn, WorkerMoves
  <1>6. CASE MergeMeta(p)
    <2>1. GoesOn(p, "done") \/ GoesOn(p, "fail")
      BY <1>1, <1>6, BecomeEffect DEF MergeMeta
    <2>2. count' \in 0..MaxArchives
      BY <1>0, <1>6, CountType DEF MergeMeta
    <2>3. QED
      BY <1>1, <1>6, <2>1, <2>2, FaultsType DEF MergeMeta, Others, TypeOK, GoesOn, WorkerMoves
  <1>7. CASE WriteDone(p)
    <2>1. GoesOn(p, "complete") \/ GoesOn(p, "fail")
      BY <1>1, <1>7, BecomeEffect DEF WriteDone
    <2>2. [arch EXCEPT ![job[p].n].done = TRUE] \in [Archive -> ArchiveFiles]
      BY <1>0, WriteType
    <2>3. QED
      BY <1>0, <1>1, <1>7, <2>1, <2>2, FaultsType DEF WriteDone, Others, TypeOK, GoesOn, WorkerMoves
  <1>8. QED
    BY <1>2, <1>3, <1>4, <1>5, <1>6, <1>7

\* The last steps of a worker: types, and where it goes.
LEMMA SettleType ==
    ASSUME TypeOK, BusyWithArchive, NEW p \in Worker, UNCHANGED Others,
           WriteFailed(p) \/ Settle(p) \/ Ack(p) \/ WriteCancelled(p)
    PROVE  TypeOK' /\ WorkerMoves(p)
  <1>0. job[p].n \in Archive /\ arch \in [Archive -> ArchiveFiles] /\ job \in [Worker -> Job]
    BY DEF WriteFailed, Settle, Ack, WriteCancelled, BusyWithArchive, TypeOK
  <1>1. {"ack", "reject"} \subseteq JobStep \ {"idle"}
    BY DEF JobStep
  <1>2. [arch EXCEPT ![job[p].n].failed = TRUE] \in [Archive -> ArchiveFiles]
    BY <1>0, WriteType
  <1>3. CASE WriteFailed(p)
    <2>1. \/ GoesOn(p, "reject") /\ UNCHANGED stuck
          \/ Stops(p) /\ stuck' \in [Archive -> Nat]
      BY <1>0, <1>1, <1>3, BecomeEffect, RaiseEffect DEF WriteFailed
    <2>2. QED
      BY <1>0, <1>1, <1>2, <1>3, <2>1, FaultsType
         DEF WriteFailed, Others, TypeOK, GoesOn, Stops, WorkerMoves
  <1>4. CASE Settle(p)
    <2>1. GoesOn(p, "ack")
      BY <1>1, <1>4, BecomeEffect DEF Settle
    <2>2. task' \in [Archive -> TaskStatus]
      BY <1>0, <1>4 DEF Settle, TypeOK, TaskStatus
    <2>3. QED
      BY <1>1, <1>4, <2>1, <2>2 DEF Settle, Others, TypeOK, GoesOn, WorkerMoves
  <1>5. CASE Ack(p)
    BY <1>5, StopEffect DEF Ack, Others, TypeOK, Stops, WorkerMoves
  <1>6. CASE WriteCancelled(p)
    <2>1. Stops(p)
      BY <1>6, StopEffect DEF WriteCancelled
    <2>2. QED
      BY <1>0, <1>2, <1>6, <2>1, FaultsType DEF WriteCancelled, Others, TypeOK, Stops, WorkerMoves
  <1>7. QED
    BY <1>3, <1>4, <1>5, <1>6

\* Every step of a worker: types, and where it goes.
LEMMA WorkerType ==
    ASSUME TypeOK, BusyWithArchive, NEW p \in Worker, UNCHANGED Others, WorkerStep(p)
    PROVE  TypeOK' /\ BusyWithArchive' /\ WorkerMoves(p) /\ job[p].n \in Archive
  <1>1. TypeOK' /\ WorkerMoves(p)
    BY EarlyType, ExtractType, SettleType DEF WorkerStep
  <1>2. job[p].pc # "idle"
    BY DEF WorkerStep, Finalize, Check, Recover, Order, OrderRecover, ApplyMemories, RecordStep,
           Summarise, Gather, MergeMeta, WriteDone, WriteFailed, Settle, Ack, WriteCancelled
  <1>3. job[p].n \in Archive
    BY <1>2 DEF BusyWithArchive
  <1>4. BusyWithArchive'
    <2>1. \A q \in Worker :
            /\ IF job'[q].pc = "idle" THEN job'[q] = Idle ELSE job'[q].n \in Archive
            /\ job'[q].pc = "orderRecover" => job'[q].n - 1 \in Archive
      BY <1>1, <1>3 DEF WorkerMoves, GoesOn, Stops, BusyWithArchive, Idle
    <2>2. QED
      BY <2>1 DEF BusyWithArchive, Others
  <1>5. QED
    BY <1>1, <1>3, <1>4

\* Delivery, cancellation and the crash of the process keep types.
LEMMA QueueType ==
    ASSUME TypeOK, BusyWithArchive,
           \/ \E p \in Worker, n \in Archive : Dequeue(p, n) /\ UNCHANGED Others
           \/ \E n \in Archive : Cancel(n)
           \/ Crash
    PROVE  TypeOK' /\ BusyWithArchive'
  <1>1. ASSUME NEW p \in Worker, NEW n \in Archive, Dequeue(p, n), UNCHANGED Others
        PROVE  TypeOK' /\ BusyWithArchive'
    <2>1. job' \in [Worker -> Job]
      <3>1. \A pc \in {"finalize", "check"} : [Idle EXCEPT !.pc = pc, !.n = n] \in Job
        BY JobRange DEF Idle, Job, EarlySteps
      <3>2. \E pc \in {"finalize", "check"} : job' = [job EXCEPT ![p] = [Idle EXCEPT !.pc = pc, !.n = n]]
        BY <1>1 DEF Dequeue
      <3>3. QED
        BY <3>1, <3>2 DEF TypeOK
    <2>2. queued' \in [Archive -> Nat]
      <3>1. queued[n] - 1 \in Nat
        <4>1. queued[n] > 0
          BY <1>1 DEF Dequeue
        <4>2. queued[n] \in Nat
          BY DEF TypeOK
        <4> QED BY <4>1, <4>2
      <3>2. QED
        BY <1>1, <3>1 DEF Dequeue, TypeOK
    <2>3. task' \in [Archive -> TaskStatus]
      BY <1>1 DEF Dequeue, TypeOK, TaskStatus
    <2>4. TypeOK'
      BY <1>1, <2>1, <2>2, <2>3 DEF Dequeue, Others, TypeOK
    <2>5. job'[p].n \in Archive /\ job'[p].pc \in {"finalize", "check"}
      BY <1>1 DEF Dequeue, Idle, TypeOK
    <2>6. \A q \in Worker \ {p} : job'[q] = job[q]
      BY <1>1 DEF Dequeue, TypeOK
    <2>7. BusyWithArchive'
      BY <1>1, <2>5, <2>6 DEF BusyWithArchive, Others
    <2>8. QED
      BY <2>4, <2>7
  <1>2. ASSUME NEW n \in Archive, Cancel(n)
        PROVE  TypeOK' /\ BusyWithArchive'
    <2>1. \A q \in Worker : job'[q] \in {job[q], Idle, [Idle EXCEPT !.pc = "cancelled", !.n = n]}
      BY <1>2 DEF Cancel
    <2>2. [Idle EXCEPT !.pc = "cancelled", !.n = n] \in Job
      BY JobRange DEF Idle, Job
    <2>3. job' \in [Worker -> Job]
      BY <1>2, <2>1, <2>2, IdleIsJob DEF Cancel, TypeOK
    <2>4. cancels' \in 0..MaxCancels
      <3>1. cancels < MaxCancels /\ cancels' = cancels + 1
        BY <1>2 DEF Cancel
      <3>2. cancels \in 0..MaxCancels
        BY DEF TypeOK
      <3>3. QED
        BY <3>1, <3>2, BoundsAssumption
    <2>5. task' \in [Archive -> TaskStatus]
      BY <1>2 DEF Cancel, TypeOK, TaskStatus
    <2>6. TypeOK'
      BY <1>2, <2>3, <2>4, <2>5 DEF Cancel, TypeOK
    <2>7. \A q \in Worker :
            /\ IF job'[q].pc = "idle" THEN job'[q] = Idle ELSE job'[q].n \in Archive
            /\ job'[q].pc = "orderRecover" => job'[q].n - 1 \in Archive
      <3>1. [Idle EXCEPT !.pc = "cancelled", !.n = n].pc = "cancelled"
            /\ [Idle EXCEPT !.pc = "cancelled", !.n = n].n = n /\ Idle.pc = "idle"
        BY DEF Idle
      <3>2. QED
        BY <2>1, <3>1 DEF BusyWithArchive
    <2>8. BusyWithArchive'
      BY <1>2, <2>7 DEF Cancel, BusyWithArchive
    <2>9. QED
      BY <2>6, <2>8
  <1>3. ASSUME Crash
        PROVE  TypeOK' /\ BusyWithArchive'
    <2>1. \A n \in Archive : Copies(n) \in Nat /\ Repeats(n) \in Nat
      <3> TAKE n \in Archive
      <3>1. Cardinality(Claims(n)) \in Nat
        BY FewerWorkers DEF Claims
      <3>2. Copies(n) \in Nat
        BY <3>1 DEF Copies, TypeOK
      <3>3. Max({Copies(n), 1}) \in Nat /\ Max({Copies(n), 1}) >= 1
        BY <3>2, MaxOfTwo
      <3>4. QED
        BY <3>2, <3>3 DEF Repeats
    <2>2. queued' \in [Archive -> Nat] /\ stuck' \in [Archive -> Nat] /\ exposed' \in [Archive -> Nat]
      BY <1>3, <2>1 DEF Crash, TypeOK
    <2>3. crashes' \in 0..MaxCrashes
      BY <1>3, BoundsAssumption DEF Crash, TypeOK
    <2>4. job' \in [Worker -> Job]
      BY <1>3, IdleIsJob DEF Crash
    <2>5. commit' \in CommitAt /\ lock' \in Holder
      BY <1>3, BoundsAssumption DEF Crash, CommitAt, Holder
    <2>6. TypeOK'
      BY <1>3, <2>2, <2>3, <2>4, <2>5 DEF Crash, TypeOK
    <2>7. BusyWithArchive'
      BY <1>3, NoneAssumption DEF Crash, BusyWithArchive, Idle
    <2>8. QED
      BY <2>6, <2>7
  <1>4. QED
    BY <1>1, <1>2, <1>3

\* Every step keeps types.
LEMMA TypeStep ==
    ASSUME TypeOK, BusyWithArchive, [Next]_vars
    PROVE  TypeOK' /\ BusyWithArchive'
  <1>1. CASE UNCHANGED vars
    BY <1>1 DEF vars, TypeOK, BusyWithArchive
  <1>2. CASE Next
    BY <1>2, ClientType, CommitType, WorkerType, QueueType, AgainEffect DEF Next
  <1>3. QED
    BY <1>1, <1>2

\* Every variable keeps its type, in every session and whatever fails: a queue
\* message, a worker and a commit always name an archive that can exist.
THEOREM SessionTypes == Spec => []TypeOK
  <1>1. Init => TypeOK /\ BusyWithArchive
    BY TypeInit
  <1>2. (TypeOK /\ BusyWithArchive) /\ [Next]_vars => (TypeOK /\ BusyWithArchive)'
    BY TypeStep
  <1>3. QED
    BY <1>1, <1>2, PTL DEF Spec

----------------------------------------------------------------------------
(* What a step may write.                                                  *)

\* A worker counts up, and only the numbers of its own archive.
CountsUp(p) ==
    \A k \in Archive :
        /\ queued'[k] >= queued[k] /\ stuck'[k] >= stuck[k] /\ applied'[k] >= applied[k]
        /\ k # job[p].n =>
             queued'[k] = queued[k] /\ stuck'[k] = stuck[k] /\ applied'[k] = applied[k]

\* A worker writes one file of one archive at a time, with the lock free (but for a
\* summary that is empty).
WritesOneFile(p) ==
    \/ arch' = arch
    \/ \E k \in Archive : arch' = [arch EXCEPT ![k].summarised = TRUE]
    \/ /\ lock = None
       /\ \E k \in Archive :
            \/ arch' = [arch EXCEPT ![k].failed = TRUE]
            \/ /\ arch' = [arch EXCEPT ![k].phase1 = "ready"]
               /\ \/ arch[k].phase1 = "ready"
                  \/ arch[k].phase1 = "preparing" /\ Recoverable(k)
            \/ /\ arch' = [arch EXCEPT ![k].steps = TRUE]
               /\ k = job[p].n /\ job[p].pc = "extract" /\ job[p].longTerm = "applied"
            \/ /\ arch' = [arch EXCEPT ![k].done = TRUE]
               /\ k = job[p].n /\ job[p].pc = "done"

\* What a step of a worker may do to the counters.
LEMMA WorkerCounts ==
    ASSUME TypeOK, BusyWithArchive, NEW p \in Worker, WorkerStep(p)
    PROVE  CountsUp(p)
  <1>0. CASE UNCHANGED <<queued, stuck, applied>>
    BY <1>0 DEF CountsUp, TypeOK
  <1>1. CASE /\ stuck' = [stuck EXCEPT ![job[p].n] = @ + 1]
             /\ UNCHANGED <<queued, applied>>
    BY <1>1 DEF CountsUp, TypeOK
  <1>2. CASE /\ queued' = [queued EXCEPT ![job[p].n] = @ + 1]
             /\ UNCHANGED <<stuck, applied>>
    BY <1>2 DEF CountsUp, TypeOK
  <1>3. CASE /\ applied' = [applied EXCEPT ![job[p].n] = @ + 1]
             /\ UNCHANGED <<queued, stuck>>
    BY <1>3 DEF CountsUp, TypeOK
  <1>4. CASE Finalize(p) \/ WriteFailed(p)
    BY <1>0, <1>1, <1>4 DEF Finalize, WriteFailed, Raise
  <1>5. CASE \/ Check(p) \/ RecordStep(p) \/ Summarise(p) \/ Gather(p) \/ MergeMeta(p)
             \/ WriteDone(p) \/ Settle(p) \/ Ack(p) \/ WriteCancelled(p)
    BY <1>0, <1>5 DEF Check, RecordStep, Summarise, Gather, MergeMeta, WriteDone, Settle, Ack,
                      WriteCancelled
  <1>6. CASE Recover(p)
    BY <1>0, <1>1, <1>6 DEF Recover, RecoverFails, Raise
  <1>7. CASE Order(p)
    BY <1>0, <1>1, <1>2, <1>7 DEF Order, Raise, Requeue
  <1>8. CASE OrderRecover(p)
    BY <1>0, <1>1, <1>2, <1>8 DEF OrderRecover, RecoverFails, Raise, Requeue
  <1>9. CASE ApplyMemories(p)
    BY <1>0, <1>3, <1>9 DEF ApplyMemories
  <1>10. QED
    BY <1>4, <1>5, <1>6, <1>7, <1>8, <1>9 DEF WorkerStep

\* A step of a worker writes at most one file, and only of its own archive.
LEMMA WorkerWrites ==
    ASSUME TypeOK, BusyWithArchive, NEW p \in Worker, WorkerStep(p)
    PROVE  WritesOneFile(p)
  <1>0. job[p].n \in Archive
    BY DEF WorkerStep, Finalize, Check, Recover, Order, OrderRecover, ApplyMemories, RecordStep,
           Summarise, Gather, MergeMeta, WriteDone, WriteFailed, Settle, Ack, WriteCancelled,
           BusyWithArchive
  <1>1. CASE \/ Check(p) \/ ApplyMemories(p) \/ Gather(p) \/ MergeMeta(p) \/ Settle(p) \/ Ack(p)
    BY <1>1 DEF Check, ApplyMemories, Gather, MergeMeta, Settle, Ack, WritesOneFile
  <1>2. CASE \/ Finalize(p) \/ WriteFailed(p) \/ WriteCancelled(p)
    BY <1>0, <1>2 DEF Finalize, WriteFailed, WriteCancelled, WriteOk, WritesOneFile
  <1>3. CASE RecordStep(p)
    BY <1>0, <1>3 DEF RecordStep, WriteOk, WritesOneFile
  <1>4. CASE Summarise(p)
    BY <1>0, <1>4 DEF Summarise, WritesOneFile
  <1>5. CASE WriteDone(p)
    BY <1>0, <1>5 DEF WriteDone, WriteOk, WritesOneFile
  <1>6. ASSUME NEW k \in Archive, lock = None, PhaseOneReady(k) \/ PhaseOneLost(k)
        PROVE  WritesOneFile(p)
    BY <1>6 DEF PhaseOneReady, PhaseOneLost, WritesOneFile
  <1>7. CASE Recover(p)
    BY <1>0, <1>6, <1>7 DEF Recover, RecoverFails, WritesOneFile
  <1>8. CASE OrderRecover(p)
    <2>1. job[p].n - 1 \in Archive
      BY <1>8 DEF OrderRecover, BusyWithArchive
    <2>2. QED
      BY <2>1, <1>6, <1>8 DEF OrderRecover, RecoverFails, WritesOneFile
  <1>9. CASE Order(p)
    BY <1>9 DEF Order, WriteOk, WritesOneFile
  <1>10. QED
    BY <1>1, <1>2, <1>3, <1>4, <1>5, <1>7, <1>8, <1>9 DEF WorkerStep

\* What is in an archive directory stays there.
Keeps(k) ==
    /\ arch[k].raw => arch'[k].raw
    /\ arch[k].done => arch'[k].done
    /\ arch[k].failed => arch'[k].failed
    /\ arch[k].steps => arch'[k].steps
    /\ arch[k].summarised => arch'[k].summarised
    /\ arch[k].phase1 # "none" => arch'[k].asked = arch[k].asked
    /\ arch[k].phase1 = "ready" => arch'[k].phase1 = "ready"
    /\ arch[k].phase1 # "none" => arch'[k].phase1 # "none"

\* No step of a worker takes a file away or touches the raw messages.
LEMMA WorkerKeeps ==
    ASSUME TypeOK, NEW p \in Worker, WritesOneFile(p), NEW k \in Archive
    PROVE  /\ Keeps(k)
           /\ arch'[k].raw = arch[k].raw /\ arch'[k].archived = arch[k].archived
           /\ arch'[k].retained = arch[k].retained /\ arch'[k].asked = arch[k].asked
  <1>1. arch \in [Archive -> ArchiveFiles]
    BY DEF TypeOK
  <1>2. CASE arch' = arch
    BY <1>2 DEF Keeps
  <1>3. ASSUME NEW j \in Archive, arch' = [arch EXCEPT ![j].phase1 = "ready"]
        PROVE  Keeps(k) /\ arch'[k].raw = arch[k].raw /\ arch'[k].archived = arch[k].archived
               /\ arch'[k].retained = arch[k].retained /\ arch'[k].asked = arch[k].asked
    BY <1>1, <1>3 DEF Keeps, ArchiveFiles
  <1>4. ASSUME NEW j \in Archive, \/ arch' = [arch EXCEPT ![j].failed = TRUE]
                                  \/ arch' = [arch EXCEPT ![j].summarised = TRUE]
        PROVE  Keeps(k) /\ arch'[k].raw = arch[k].raw /\ arch'[k].archived = arch[k].archived
               /\ arch'[k].retained = arch[k].retained /\ arch'[k].asked = arch[k].asked
    BY <1>1, <1>4 DEF Keeps, ArchiveFiles
  <1>5. ASSUME NEW j \in Archive, \/ arch' = [arch EXCEPT ![j].steps = TRUE]
                                  \/ arch' = [arch EXCEPT ![j].done = TRUE]
        PROVE  Keeps(k) /\ arch'[k].raw = arch[k].raw /\ arch'[k].archived = arch[k].archived
               /\ arch'[k].retained = arch[k].retained /\ arch'[k].asked = arch[k].asked
    BY <1>1, <1>5 DEF Keeps, ArchiveFiles
  <1>6. QED
    BY <1>2, <1>3, <1>4, <1>5 DEF WritesOneFile

\* The order of the steps of phase 1.
NextCommitStep ==
    [marker |-> "raw", raw |-> "enqueue", enqueue |-> "create", create |-> "root",
     root |-> "sidecars", sidecars |-> "meta", meta |-> "ready"]

\* A commit goes through its steps in order, or is given up.
LEMMA CommitMoves ==
    ASSUME TypeOK, BusyWithArchive, CommitStep
    PROVE  /\ commit.n \in Archive /\ UNCHANGED <<stuck, job, applied, exposed, acked>>
           /\ \/ /\ commit.pc \in CommitSteps \ {"ready"} /\ commit'.n = commit.n
                 /\ commit'.pc = NextCommitStep[commit.pc]
              \/ commit.pc \in {"ready", "failed"} /\ commit'.pc = "idle" /\ commit'.n = 0
  <1>1. ASSUME NEW x, Goto(x)
        PROVE  commit'.pc = x /\ commit'.n = commit.n
    BY <1>1 DEF Goto, TypeOK, CommitAt
  <1>2. commit.n \in Archive /\ UNCHANGED <<stuck, job, applied, exposed, acked>>
    BY DEF CommitStep, WriteMarker, WriteRaw, Enqueue, CreateTask, RewriteRoot,
           WriteSidecars, SaveMeta, WriteReady, MarkFailed, BusyWithArchive
  <1>3. CASE WriteReady \/ MarkFailed
    BY <1>2, <1>3 DEF WriteReady, MarkFailed
  <1>4. CASE \E x \in CommitSteps \ {"ready"} : commit.pc = x /\ Goto(NextCommitStep[x])
    BY <1>1, <1>2, <1>4
  <1>5. CASE WriteMarker \/ WriteRaw \/ Enqueue
    BY <1>4, <1>5 DEF WriteMarker, WriteRaw, Enqueue, NextCommitStep, CommitSteps
  <1>6. CASE CreateTask \/ RewriteRoot
    BY <1>4, <1>6 DEF CreateTask, RewriteRoot, NextCommitStep, CommitSteps
  <1>7. CASE WriteSidecars \/ SaveMeta
    BY <1>4, <1>7 DEF WriteSidecars, SaveMeta, NextCommitStep, CommitSteps
  <1>8. QED
    BY <1>3, <1>5, <1>6, <1>7 DEF CommitStep

\* A step of the commit writes at most into its own directory.
LEMMA CommitKeeps ==
    ASSUME TypeOK, BusyWithArchive, FreshDirectory, CommitStep, NEW k \in Archive
    PROVE  Keeps(k) /\ (k # commit.n => arch'[k] = arch[k])
  <1>1. arch \in [Archive -> ArchiveFiles]
    BY DEF TypeOK
  <1>2. CASE WriteMarker
    <2>1. arch[commit.n].phase1 = "none"
      BY <1>2 DEF WriteMarker, FreshDirectory, Exists
    <2>2. QED
      BY <1>1, <1>2, <2>1 DEF WriteMarker, Keeps, ArchiveFiles
  <1>3. CASE WriteRaw
    BY <1>1, <1>3 DEF WriteRaw, Keeps, ArchiveFiles
  <1>4. CASE WriteReady
    BY <1>1, <1>4 DEF WriteReady, Keeps, ArchiveFiles
  <1>5. CASE MarkFailed
    BY <1>1, <1>5 DEF MarkFailed, Keeps, ArchiveFiles
  <1>6. CASE UNCHANGED arch
    BY <1>6 DEF Keeps
  <1>7. QED
    BY <1>2, <1>3, <1>4, <1>5, <1>6
       DEF CommitStep, Enqueue, CreateTask, RewriteRoot, WriteSidecars, SaveMeta

----------------------------------------------------------------------------
(* A commit writes into a directory that nobody has used before.           *)

Quiet == UNCHANGED <<arch, queued, stuck, task, commit, job, applied, exposed>>

\* Callers leave archives, tasks and workers alone.
LEMMA ClientIsQuiet ==
    ASSUME Hold \/ Append \/ Release \/ Expire \/ UNCHANGED vars
    PROVE  Quiet
  BY DEF Hold, Append, Release, Expire, vars, Quiet

\* What an idle worker and one with a new message hold.
LEMMA IdleFields ==
    ASSUME NEW pc, NEW n
    PROVE  /\ [Idle EXCEPT !.pc = pc, !.n = n].pc = pc
           /\ [Idle EXCEPT !.pc = pc, !.n = n].n = n
           /\ [Idle EXCEPT !.pc = pc, !.n = n].summary = "todo"
           /\ [Idle EXCEPT !.pc = pc, !.n = n].longTerm = "todo"
           /\ Idle.pc = "idle" /\ Idle.n = 0
           /\ Idle.summary = "todo" /\ Idle.longTerm = "todo"
  BY DEF Idle

\* A cancellation interrupts the claims of its archive, before the
\* acknowledgement, and nobody else.
LEMMA CancelEffect ==
    ASSUME TypeOK, NEW n \in Archive, Cancel(n), NEW q \in Worker
    PROVE  \/ job'[q] = job[q]
           \/ job[q].n = n /\ job'[q] = Idle
           \/ job[q].n = n /\ job'[q] = [Idle EXCEPT !.pc = "cancelled", !.n = n]
  <1>1. CASE q \notin Claims(n) \/ job[q].pc = "ack"
    BY <1>1 DEF Cancel
  <1>2. CASE ~(q \notin Claims(n) \/ job[q].pc = "ack")
    <2>1. job[q].n = n
      BY <1>2 DEF Claims
    <2>2. QED
      BY <1>2, <2>1 DEF Cancel
  <1>3. QED
    BY <1>1, <1>2

\* A cancellation reaches only the worker of its archive.
LEMMA CancelMoves ==
    ASSUME TypeOK, NEW n \in Archive, Cancel(n), NEW q \in Worker
    PROVE  \/ job'[q] = job[q]
           \/ /\ job'[q].pc \in {"idle", "cancelled"}
              /\ job'[q].summary = "todo" /\ job'[q].longTerm = "todo"
              /\ job[q].n = n /\ job'[q].n \in {0, n}
  <1> DEFINE c == [Idle EXCEPT !.pc = "cancelled", !.n = n]
  <1>1. /\ c.pc = "cancelled" /\ c.n = n /\ c.summary = "todo" /\ c.longTerm = "todo"
        /\ Idle.pc = "idle" /\ Idle.n = 0 /\ Idle.summary = "todo" /\ Idle.longTerm = "todo"
    BY IdleFields
  <1>2. \/ job'[q] = job[q]
        \/ job[q].n = n /\ (job'[q] = Idle \/ job'[q] = c)
    BY CancelEffect
  <1> HIDE DEF c
  <1>3. QED
    BY <1>1, <1>2

\* FreshDirectory is kept: a commit in progress has its archive to itself.
LEMMA FreshStep ==
    ASSUME IInv, [Next]_vars
    PROVE  FreshDirectory'
  <1> USE DEF IInv
  <1>1. CASE Quiet
    BY <1>1 DEF Quiet, FreshDirectory, Untouched, Exists
  <1>2. CASE CommitBegin
    <2>1. ~Exists(NextIndex)
      BY <1>2, NextIndexIsFree DEF CommitBegin
    <2>2. QED
      BY <1>2, <2>1 DEF CommitBegin, FreshDirectory, Untouched, Exists
  <1>3. CASE CommitFault
    BY <1>3 DEF CommitFault, Goto, TypeOK, CommitAt, FreshDirectory, Untouched, Exists
  <1>4. CASE CommitStep
    <2>1. commit.n \in Archive /\ UNCHANGED <<stuck, job, applied>>
      BY <1>4, CommitMoves
    <2>2. ASSUME NEW n \in Archive, ~Exists(n)'
          PROVE  Untouched(n)'
      <3>1. ~Exists(n)
        BY <1>4, <2>2, CommitKeeps DEF Keeps, Exists
      <3>2. queued'[n] = queued[n]
        <4>1. CASE Enqueue
          <5>1. Exists(commit.n)
            BY <4>1 DEF Enqueue, RootIsCovered, Exists, CommitSteps
          <5>2. QED
            BY <3>1, <4>1, <5>1 DEF Enqueue, TypeOK
        <4>2. QED
          BY <1>4, <4>1 DEF CommitStep, WriteMarker, WriteRaw, CreateTask, RewriteRoot,
                  WriteSidecars, SaveMeta, WriteReady, MarkFailed
      <3>3. QED
        BY <2>1, <3>1, <3>2 DEF FreshDirectory, Untouched
    <2>3. commit'.pc # "marker"
      BY <1>4, CommitMoves DEF NextCommitStep, CommitSteps
    <2>4. ASSUME commit'.pc \in {"raw", "enqueue"}
          PROVE  Untouched(commit.n)' /\ commit'.n = commit.n
      <3>1. commit'.n = commit.n /\ commit.pc \in {"marker", "raw"}
        BY <1>4, <2>4, CommitMoves DEF NextCommitStep, CommitSteps
      <3>2. UNCHANGED queued
        BY <1>4, <3>1 DEF CommitStep, WriteMarker, WriteRaw, Enqueue, CreateTask, RewriteRoot,
                  WriteSidecars, SaveMeta, WriteReady, MarkFailed
      <3>3. Untouched(commit.n)
        BY <2>1, <3>1 DEF FreshDirectory
      <3>4. QED
        BY <2>1, <3>1, <3>2, <3>3 DEF Untouched
    <2>5. QED
      BY <2>2, <2>3, <2>4 DEF FreshDirectory
  <1>5. ASSUME NEW p \in Worker, WorkerStep(p), UNCHANGED Others
        PROVE  FreshDirectory'
    <2>1. job[p].n \in Archive /\ WorkerMoves(p) /\ CountsUp(p) /\ WritesOneFile(p)
      BY <1>5, WorkerType, WorkerCounts, WorkerWrites
    <2>2. ASSUME NEW n \in Archive, Untouched(n)
          PROVE  Untouched(n)'
      BY <2>1, <2>2 DEF Untouched, WorkerMoves, GoesOn, Stops, Idle, CountsUp, Archive
    <2>3. \A n \in Archive : Exists(n) => Exists(n)'
      BY <2>1, WorkerKeeps DEF Keeps, Exists
    <2>4. commit'.pc = "marker" => ~Exists(commit.n)'
      <3>1. commit.pc = "marker" =>
              arch' = arch \/ \E k \in Archive : arch' = [arch EXCEPT ![k].summarised = TRUE]
        BY <2>1, NoneAssumption DEF BusyWithArchive, WritesOneFile
      <3>2. commit.pc = "marker" => commit.n \in Archive
        BY DEF BusyWithArchive
      <3>3. ASSUME NEW k \in Archive, arch' = [arch EXCEPT ![k].summarised = TRUE],
                   commit.n \in Archive
            PROVE  /\ arch'[commit.n].phase1 = arch[commit.n].phase1
                   /\ arch'[commit.n].raw = arch[commit.n].raw
                   /\ arch'[commit.n].failed = arch[commit.n].failed
        BY <3>3 DEF TypeOK, ArchiveFiles
      <3>4. QED
        BY <1>5, <3>1, <3>2, <3>3 DEF Others, FreshDirectory, Exists
    <2>5. commit.pc # "idle" => commit.n \in Archive
      BY DEF BusyWithArchive
    <2>6. QED
      BY <1>5, <2>2, <2>3, <2>4, <2>5 DEF FreshDirectory, Others
  <1>6. ASSUME NEW p \in Worker, NEW n \in Archive, Dequeue(p, n), UNCHANGED Others
        PROVE  FreshDirectory'
    <2>1. ~Untouched(n) /\ UNCHANGED <<arch, stuck, applied>>
      BY <1>6 DEF Dequeue, Untouched
    <2>2. ASSUME NEW k \in Archive, Untouched(k)
          PROVE  Untouched(k)'
      <3>1. k # n
        BY <2>1, <2>2
      <3>2. queued'[k] = queued[k] /\ \A q \in Worker : job'[q].n \in {job[q].n, n}
        BY <1>6, <3>1 DEF Dequeue, TypeOK, Idle
      <3>3. QED
        BY <2>1, <2>2, <3>1, <3>2 DEF Untouched
    <2>3. commit.pc # "idle" => commit.n \in Archive
      BY DEF BusyWithArchive
    <2>4. QED
      BY <1>6, <2>1, <2>2, <2>3 DEF FreshDirectory, Others, Exists
  <1>7. ASSUME NEW n \in Archive, Cancel(n)
        PROVE  FreshDirectory'
    <2>1. \A q \in Worker : job'[q].n \in {job[q].n, 0}
      <3>1. Idle.n = 0 /\ [Idle EXCEPT !.pc = "cancelled", !.n = n].n = n
        BY IdleFields
      <3>2. QED
        BY <1>7, <3>1, CancelEffect
    <2>2. UNCHANGED <<arch, queued, stuck, applied, commit>>
      BY <1>7 DEF Cancel
    <2>3. \A k \in Archive : Untouched(k) => Untouched(k)'
      BY <2>1, <2>2 DEF Untouched, Archive
    <2>4. commit.pc # "idle" => commit.n \in Archive
      BY DEF BusyWithArchive
    <2>5. QED
      BY <2>2, <2>3, <2>4 DEF FreshDirectory, Exists
  <1>8. CASE Crash
    <2>1. ASSUME NEW n \in Archive, ~Exists(n)'
          PROVE  Untouched(n)'
      <3>1. Untouched(n)
        BY <1>8, <2>1 DEF Crash, FreshDirectory, Exists
      <3>2. Claims(n) = {}
        BY <3>1 DEF Claims, Untouched
      <3>3. Copies(n) = 0
        BY <3>1, <3>2, FS_EmptySet DEF Copies, Untouched
      <3>4. QED
        BY <1>8, <3>1, <3>3 DEF Crash, Untouched, Idle, Archive
    <2>2. QED
      BY <1>8, <2>1 DEF Crash, FreshDirectory
  <1>again. ASSUME NEW p \in Worker, StoreAgain(p)
            PROVE  FreshDirectory'
    <2>1. /\ UNCHANGED <<arch, queued, stuck, applied, commit>> /\ job[p].pc = "extract"
          /\ job'[p].n = job[p].n /\ job'[p].pc = job[p].pc
          /\ \A q \in Worker \ {p} : job'[q] = job[q]
      BY <1>again, AgainEffect DEF GoesOn
    <2>2. QED
      BY <2>1 DEF FreshDirectory, Untouched, Exists
  <1>9. QED
    BY <1>again, <1>1, <1>2, <1>3, <1>4, <1>5, <1>6, <1>7, <1>8, ClientIsQuiet DEF Next

----------------------------------------------------------------------------
(* No message is lost on its way from the root to an archive.              *)

\* What a split does not retain it archives.
LEMMA SplitCovers ==
    ASSUME NEW s \in Splits
    PROVE  live \subseteq s.archived \union s.retained
  BY DEF Splits

\* RootIsCovered is kept: the live messages a commit cut off are in an archive.
LEMMA CoverStep ==
    ASSUME IInv, [Next]_vars
    PROVE  RootIsCovered'
  <1> USE DEF IInv
  <1>1. CASE Hold \/ Append \/ Release \/ Expire \/ UNCHANGED vars
    <2>1. UNCHANGED <<arch, commit>> /\ (commit.pc = "idle" \/ live' = live)
      BY <1>1, NoneAssumption DEF Hold, Append, Release, Expire, vars, BusyWithArchive
    <2>2. QED
      BY <2>1 DEF RootIsCovered, CommitSteps
  <1>2. CASE CommitBegin \/ CommitFault \/ Crash
    <2>1. commit'.pc \in {"marker", "failed", "idle"}
      BY <1>2 DEF CommitBegin, CommitFault, Crash, Goto, TypeOK, CommitAt
    <2>2. QED
      BY <2>1 DEF RootIsCovered, CommitSteps
  <1>3. CASE CommitStep
    <2>1. commit.n \in Archive /\ arch \in [Archive -> ArchiveFiles]
      BY <1>3, CommitMoves DEF TypeOK
    <2>2. CASE WriteMarker
      <3>1. commit'.pc = "raw" /\ commit'.n = commit.n /\ live' = live
        BY <2>2 DEF WriteMarker, Goto, TypeOK, CommitAt
      <3>2. ~arch[commit.n].raw
        BY <2>2 DEF WriteMarker, FreshDirectory, Exists
      <3>3. PICK s \in Splits, policy \in Policies :
                 arch' = [arch EXCEPT ![commit.n].phase1 = "preparing",
                                      ![commit.n].archived = s.archived,
                                      ![commit.n].retained = s.retained,
                                      ![commit.n].asked = policy]
        BY <2>2 DEF WriteMarker
      <3>4. /\ arch'[commit.n].archived = s.archived /\ arch'[commit.n].retained = s.retained
            /\ ~arch'[commit.n].raw
        BY <2>1, <3>2, <3>3 DEF ArchiveFiles
      <3>5. QED
        BY <3>1, <3>4, SplitCovers DEF RootIsCovered, CommitSteps
    <2>3. CASE WriteRaw
      <3>1. commit'.pc = "enqueue" /\ commit'.n = commit.n /\ live' = live
        BY <2>3 DEF WriteRaw, Goto, TypeOK, CommitAt
      <3>2. /\ arch'[commit.n].raw /\ arch'[commit.n].archived = arch[commit.n].archived
            /\ arch'[commit.n].retained = arch[commit.n].retained
        BY <2>1, <2>3 DEF WriteRaw, ArchiveFiles
      <3>3. QED
        BY <2>3, <3>1, <3>2 DEF WriteRaw, RootIsCovered
    <2>4. CASE WriteReady \/ MarkFailed
      BY <2>4 DEF WriteReady, MarkFailed, RootIsCovered, CommitSteps
    <2>5. CASE \/ Enqueue \/ CreateTask \/ RewriteRoot \/ WriteSidecars \/ SaveMeta
      <3>1. arch' = arch /\ (live' = live \/ commit.pc = "root")
            /\ commit.pc \in {"enqueue", "create", "root", "sidecars", "meta"}
        BY <2>5 DEF Enqueue, CreateTask, RewriteRoot, WriteSidecars, SaveMeta
      <3>2. commit'.n = commit.n /\ commit'.pc = NextCommitStep[commit.pc]
        BY <1>3, <3>1, CommitMoves DEF CommitSteps
      <3>3. /\ commit'.pc \in {"create", "root", "sidecars", "meta", "ready"}
            /\ commit'.pc \in {"create", "root"} => commit.pc \in {"enqueue", "create"}
        BY <3>1, <3>2 DEF NextCommitStep
      <3>4. arch[commit.n].raw
        BY <3>1 DEF RootIsCovered, CommitSteps
      <3>5. QED
        BY <3>1, <3>2, <3>3, <3>4 DEF RootIsCovered
    <2>6. QED
      BY <1>3, <2>2, <2>3, <2>4, <2>5 DEF CommitStep
  <1>4. ASSUME NEW p \in Worker, WorkerStep(p), UNCHANGED Others
        PROVE  RootIsCovered'
    <2>1. \A k \in Archive :
            /\ arch'[k].raw = arch[k].raw /\ arch'[k].archived = arch[k].archived
            /\ arch'[k].retained = arch[k].retained
      BY <1>4, WorkerWrites, WorkerKeeps
    <2>2. commit.pc = "idle" \/ commit.n \in Archive
      BY DEF BusyWithArchive
    <2>3. QED
      BY <1>4, <2>1, <2>2 DEF RootIsCovered, Others, CommitSteps
  <1>5. CASE \/ \E p \in Worker, n \in Archive : Dequeue(p, n) /\ UNCHANGED Others
             \/ \E n \in Archive : Cancel(n)
    <2>1. UNCHANGED <<arch, live, commit>>
      BY <1>5 DEF Dequeue, Others, Cancel
    <2>2. QED
      BY <2>1 DEF RootIsCovered
  <1>again. ASSUME NEW p \in Worker, StoreAgain(p)
            PROVE  RootIsCovered'
    BY <1>again DEF StoreAgain, RootIsCovered
  <1>6. QED
    BY <1>again, <1>1, <1>2, <1>3, <1>4, <1>5 DEF Next

\* Nothing is lost by a step that keeps the raw files and moves root messages
\* only into them.
LEMMA KeptIsNotLost ==
    ASSUME NothingLost, acked' \subseteq acked,
           \A n \in Archive : Raw(n) \subseteq Raw(n)',
           live \subseteq live' \union UNION {Raw(n)' : n \in Archive}
    PROVE  NothingLost'
  BY DEF NothingLost

\* NothingLost is kept, from the two parts before.
LEMMA NothingLostStep ==
    ASSUME IInv, [Next]_vars
    PROVE  NothingLost'
  <1> USE DEF IInv
  <1>1. CASE Append
    BY <1>1 DEF Append, NothingLost, Raw
  <1>2. CASE UNCHANGED <<live, acked, arch>>
    BY <1>2 DEF NothingLost, Raw
  <1>3. CASE Hold \/ Release \/ Expire \/ CommitBegin \/ CommitFault \/ Crash \/ UNCHANGED vars
    BY <1>2, <1>3 DEF Hold, Release, Expire, CommitBegin, CommitFault, Crash, vars
  <1>4. CASE CommitStep
    <2>1. commit.n \in Archive /\ arch \in [Archive -> ArchiveFiles] /\ acked' = acked
      BY <1>4, CommitMoves DEF TypeOK
    <2>2. ASSUME NEW n \in Archive
          PROVE  Raw(n) \subseteq Raw(n)'
      <3>1. CASE n # commit.n
        BY <1>4, <3>1, CommitKeeps DEF Raw
      <3>2. CASE n = commit.n
        <4>1. CASE WriteMarker
          BY <3>2, <4>1 DEF WriteMarker, FreshDirectory, Exists, Raw
        <4>2. CASE WriteRaw \/ WriteReady \/ MarkFailed
          BY <2>1, <3>2, <4>2 DEF WriteRaw, WriteReady, MarkFailed, Raw, ArchiveFiles
        <4>3. CASE UNCHANGED arch
          BY <4>3 DEF Raw
        <4>4. QED
          BY <1>4, <4>1, <4>2, <4>3
             DEF CommitStep, Enqueue, CreateTask, RewriteRoot, WriteSidecars, SaveMeta
      <3>3. QED
        BY <3>1, <3>2
    <2>3. CASE RewriteRoot
      <3>1. live \subseteq arch[commit.n].archived \union live' /\ arch' = arch /\ arch[commit.n].raw
        BY <2>3 DEF RewriteRoot, RootIsCovered, CommitSteps
      <3>2. PICK c \in Archive : c = commit.n
        BY <2>1
      <3>3. live \subseteq live' \union UNION {Raw(n)' : n \in Archive}
        <4>1. Raw(c)' = arch[c].archived
          BY <3>1, <3>2 DEF Raw
        <4>2. QED
          BY <3>1, <3>2, <4>1
      <3>4. QED
        BY <2>1, <2>2, <3>3, KeptIsNotLost
    <2>4. CASE live' = live
      BY <2>1, <2>2, <2>4, KeptIsNotLost
    <2>5. QED
      BY <1>4, <2>3, <2>4 DEF CommitStep, WriteMarker, WriteRaw, Enqueue, CreateTask,
                              WriteSidecars, SaveMeta, WriteReady, MarkFailed
  <1>5. ASSUME NEW p \in Worker, WorkerStep(p), UNCHANGED Others
        PROVE  NothingLost'
    <2>1. \A n \in Archive : Raw(n)' = Raw(n)
      BY <1>5, WorkerWrites, WorkerKeeps DEF Raw
    <2>2. QED
      BY <1>5, <2>1 DEF Others, NothingLost
  <1>6. CASE \/ \E p \in Worker, n \in Archive : Dequeue(p, n) /\ UNCHANGED Others
             \/ \E n \in Archive : Cancel(n)
    BY <1>2, <1>6 DEF Dequeue, Others, Cancel
  <1>again. ASSUME NEW p \in Worker, StoreAgain(p)
            PROVE  NothingLost'
    BY <1>again DEF StoreAgain, NothingLost, Raw
  <1>7. QED
    BY <1>again, <1>1, <1>3, <1>4, <1>5, <1>6 DEF Next

----------------------------------------------------------------------------
(* What a worker's step does, by the place it starts from.                 *)

SameProgress(p) ==
    /\ job'[p].summary = job[p].summary /\ job'[p].longTerm = job[p].longTerm
    /\ UNCHANGED applied

\* Steps before the extraction.
EarlyMove(p, n) ==
    \/ /\ SameProgress(p) /\ UNCHANGED queued
       /\ \/ job[p].pc = "finalize" /\ GoesOn(p, "ack") /\ arch'[n].failed
          \/ job[p].pc = "check" /\ GoesOn(p, "complete") /\ arch'[n].done
          \/ job[p].pc = "check" /\ GoesOn(p, "reject") /\ arch'[n].failed
          \/ job[p].pc = "check" /\ GoesOn(p, "recover") /\ ~IsTerminal(n)
          \/ /\ job[p].pc = "check" /\ GoesOn(p, "order") /\ ~IsTerminal(n)
             /\ arch'[n].phase1 = "ready"
          \/ job[p].pc = "recover" /\ GoesOn(p, "order") /\ arch'[n].phase1 = "ready"
          \/ job[p].pc = "recover" /\ GoesOn(p, "reject") /\ arch'[n].failed
          \/ job[p].pc = "order" /\ GoesOn(p, "orderRecover")
    \/ /\ SameProgress(p) /\ queued' = [queued EXCEPT ![n] = @ + 1]
       /\ job[p].pc \in {"order", "orderRecover"} /\ GoesOn(p, "ack")
    \/ /\ job[p].pc \in {"order", "orderRecover"} /\ GoesOn(p, "extract")
       /\ job'[p].summary = Todo(p, "summary") /\ UNCHANGED <<queued, applied>>
       /\ job'[p].longTerm = IF arch[n].steps THEN "ok" ELSE Todo(p, "longTerm")

\* The two steps of the extraction and their end.
ExtractMove(p, n) ==
    /\ job[p].pc = "extract" /\ UNCHANGED <<queued, stuck>>
    /\ \/ /\ GoesOn(p, "extract") /\ job'[p].summary = job[p].summary
          /\ \/ /\ job[p].longTerm = "todo" /\ job'[p].longTerm = "applied"
                /\ applied' = [applied EXCEPT ![n] = @ + 1]
             \/ job'[p].longTerm = "bad" /\ UNCHANGED applied
             \/ job'[p].longTerm = "ok" /\ arch'[n].steps /\ UNCHANGED applied
       \/ /\ GoesOn(p, "extract") /\ job'[p].longTerm = job[p].longTerm /\ UNCHANGED applied
          /\ \/ job'[p].summary = "ok" /\ arch'[n].summarised
             \/ job'[p].summary = "bad"
       \/ /\ job'[p].summary = "todo" /\ job'[p].longTerm = "todo" /\ UNCHANGED applied
          /\ \/ GoesOn(p, "fail")
             \/ GoesOn(p, "merge") /\ job[p].summary = "ok" /\ job[p].longTerm = "ok"

\* Steps after it.
LateMove(p, n) ==
    /\ SameProgress(p) /\ UNCHANGED <<queued, stuck>>
    /\ \/ job[p].pc = "merge" /\ GoesOn(p, "done")
       \/ job[p].pc \in {"merge", "done"} /\ GoesOn(p, "fail")
       \/ job[p].pc = "done" /\ GoesOn(p, "complete") /\ arch'[n].done
       \/ job[p].pc = "fail" /\ GoesOn(p, "reject") /\ arch'[n].failed
       \/ job[p].pc \in {"complete", "reject"} /\ GoesOn(p, "ack")

\* The end of a message: not acknowledged, acknowledged, or given up.
LastMove(p, n) ==
    /\ Stops(p) /\ UNCHANGED <<queued, applied>>
    /\ \/ stuck' = [stuck EXCEPT ![n] = @ + 1]
       \/ job[p].pc \in {"ack", "cancelled"} /\ UNCHANGED stuck

\* Where a worker goes before it extracts.
LEMMA EarlyMoves ==
    ASSUME TypeOK, BusyWithArchive, NEW p \in Worker, NEW n \in Archive, n = job[p].n,
           Finalize(p) \/ Check(p) \/ Recover(p) \/ Order(p) \/ OrderRecover(p)
    PROVE  EarlyMove(p, n) \/ LastMove(p, n)
  <1>1. arch \in [Archive -> ArchiveFiles]
    BY DEF TypeOK
  <1>2. {"ack", "complete", "reject", "order", "recover", "orderRecover"} \subseteq JobStep
    BY DEF JobStep, EarlySteps
  <1>3. ASSUME Raise(p), UNCHANGED <<queued, applied>>
        PROVE  LastMove(p, n)
    BY <1>3, RaiseEffect DEF LastMove
  <1>4. ASSUME Requeue(p), UNCHANGED applied, job[p].pc \in {"order", "orderRecover"}
        PROVE  EarlyMove(p, n)
    BY <1>4, RequeueEffect DEF EarlyMove, SameProgress
  <1>5. ASSUME Begin(p), UNCHANGED <<queued, applied>>, job[p].pc \in {"order", "orderRecover"}
        PROVE  EarlyMove(p, n)
    BY <1>5, BeginEffect DEF EarlyMove
  <1>6. ASSUME NEW pc \in JobStep, Become(p, pc), UNCHANGED applied
        PROVE  GoesOn(p, pc) /\ SameProgress(p)
    BY <1>6, BecomeEffect DEF SameProgress
  <1>7. CASE Finalize(p)
    <2>1. CASE /\ WriteOk /\ Become(p, "ack")
               /\ arch' = [arch EXCEPT ![n].failed = TRUE]
      <3>1. GoesOn(p, "ack") /\ SameProgress(p)
        BY <1>2, <1>6, <1>7, <2>1 DEF Finalize
      <3>2. arch'[n].failed
        BY <1>1, <2>1 DEF ArchiveFiles
      <3>3. QED
        BY <1>7, <3>1, <3>2 DEF Finalize, EarlyMove
    <2>2. QED
      BY <1>3, <1>7, <2>1 DEF Finalize
  <1>8. CASE Check(p)
    <2>1. \A pc \in JobStep : Become(p, pc) => GoesOn(p, pc) /\ SameProgress(p)
      BY <1>6, <1>8 DEF Check
    <2>2. CASE arch[n].done /\ Become(p, "complete")
      BY <1>2, <1>8, <2>1, <2>2 DEF Check, EarlyMove
    <2>3. CASE arch[n].failed /\ Become(p, "reject")
      BY <1>2, <1>8, <2>1, <2>3 DEF Check, EarlyMove
    <2>4. CASE ~IsTerminal(n) /\ arch[n].phase1 = "ready" /\ Become(p, "order")
      BY <1>2, <1>8, <2>1, <2>4 DEF Check, EarlyMove
    <2>5. CASE ~IsTerminal(n) /\ Become(p, "recover")
      BY <1>2, <1>8, <2>1, <2>5 DEF Check, EarlyMove
    <2>6. QED
      BY <1>8, <2>2, <2>3, <2>4, <2>5 DEF Check, IsTerminal
  <1>9. CASE Recover(p)
    <2>1. CASE RecoverFails(p, n)
      BY <1>3, <1>9, <2>1 DEF Recover, RecoverFails
    <2>2. CASE PhaseOneReady(n) /\ Become(p, "order")
      <3>1. GoesOn(p, "order") /\ SameProgress(p)
        BY <1>2, <1>6, <1>9, <2>2 DEF Recover
      <3>2. arch'[n].phase1 = "ready"
        BY <1>1, <2>2 DEF PhaseOneReady, ArchiveFiles
      <3>3. QED
        BY <1>9, <3>1, <3>2 DEF Recover, EarlyMove
    <2>3. CASE PhaseOneLost(n) /\ Become(p, "reject")
      <3>1. GoesOn(p, "reject") /\ SameProgress(p)
        BY <1>2, <1>6, <1>9, <2>3 DEF Recover
      <3>2. arch'[n].failed
        BY <1>1, <2>3 DEF PhaseOneLost, ArchiveFiles
      <3>3. QED
        BY <1>9, <3>1, <3>2 DEF Recover, EarlyMove
    <2>4. QED
      BY <1>9, <2>1, <2>2, <2>3 DEF Recover
  <1>10. CASE Order(p)
    <2>1. CASE Become(p, "orderRecover") /\ UNCHANGED queued
      <3>1. GoesOn(p, "orderRecover") /\ SameProgress(p)
        BY <1>2, <1>6, <1>10, <2>1 DEF Order
      <3>2. QED
        BY <1>10, <2>1, <3>1 DEF Order, EarlyMove
    <2>2. QED
      BY <1>3, <1>4, <1>5, <1>10, <2>1 DEF Order
  <1>11. CASE OrderRecover(p)
    BY <1>3, <1>4, <1>5, <1>11 DEF OrderRecover, RecoverFails
  <1>12. QED
    BY <1>7, <1>8, <1>9, <1>10, <1>11

\* Where a worker goes while it extracts.
LEMMA ExtractMoves ==
    ASSUME TypeOK, BusyWithArchive, NEW p \in Worker, NEW n \in Archive, n = job[p].n,
           ApplyMemories(p) \/ RecordStep(p) \/ Summarise(p) \/ Gather(p)
    PROVE  ExtractMove(p, n)
  <1>1. arch \in [Archive -> ArchiveFiles] /\ job \in [Worker -> Job]
    BY DEF TypeOK
  <1>2. CASE ApplyMemories(p)
    <2>1. GoesOn(p, "extract") /\ job'[p].summary = job[p].summary
      BY <1>1, <1>2 DEF ApplyMemories, LongTermIs, GoesOn, Job
    <2>2. \/ job'[p].longTerm = "applied" /\ applied' = [applied EXCEPT ![n] = @ + 1]
          \/ job'[p].longTerm = "bad" /\ UNCHANGED applied
      BY <1>1, <1>2 DEF ApplyMemories, LongTermIs, Job
    <2>3. QED
      BY <1>2, <2>1, <2>2 DEF ApplyMemories, ExtractMove
  <1>3. CASE RecordStep(p)
    <2>1. GoesOn(p, "extract") /\ job'[p].summary = job[p].summary
      BY <1>1, <1>3 DEF RecordStep, LongTermIs, GoesOn, Job
    <2>2. \/ job'[p].longTerm = "ok" /\ arch'[n].steps
          \/ job'[p].longTerm = "bad"
      BY <1>1, <1>3 DEF RecordStep, LongTermIs, Job, ArchiveFiles
    <2>3. QED
      BY <1>3, <2>1, <2>2 DEF RecordStep, ExtractMove
  <1>4. CASE Summarise(p)
    <2>1. GoesOn(p, "extract") /\ job'[p].longTerm = job[p].longTerm
      BY <1>1, <1>4 DEF Summarise, GoesOn, Job
    <2>2. \/ job'[p].summary = "ok" /\ arch'[n].summarised
          \/ job'[p].summary = "bad"
      BY <1>1, <1>4 DEF Summarise, Job, ArchiveFiles
    <2>3. QED
      BY <1>4, <2>1, <2>2 DEF Summarise, ExtractMove
  <1>5. CASE Gather(p)
    <2>1. CASE "bad" \in {job[p].summary, job[p].longTerm}
      <3>1. job' = [job EXCEPT ![p] = [Idle EXCEPT !.pc = "fail", !.n = job[p].n]]
        BY <1>5, <2>1 DEF Gather
      <3>2. GoesOn(p, "fail") /\ job'[p].summary = "todo" /\ job'[p].longTerm = "todo"
        BY <1>1, <3>1 DEF GoesOn, Job, Idle
      <3>3. QED
        BY <1>5, <3>2 DEF Gather, ExtractMove
    <2>2. CASE "bad" \notin {job[p].summary, job[p].longTerm}
      <3>1. job' = [job EXCEPT ![p] = [Idle EXCEPT !.pc = "merge", !.n = job[p].n]]
        BY <1>5, <2>2 DEF Gather
      <3>2. GoesOn(p, "merge") /\ job'[p].summary = "todo" /\ job'[p].longTerm = "todo"
        BY <1>1, <3>1 DEF GoesOn, Job, Idle, Extracting
      <3>3. job[p].summary = "ok" /\ job[p].longTerm = "ok"
        BY <1>1, <1>5, <2>2 DEF Gather, Job
      <3>4. QED
        BY <1>5, <3>2, <3>3 DEF Gather, ExtractMove
    <2>3. QED
      BY <2>1, <2>2
  <1>6. QED
    BY <1>2, <1>3, <1>4, <1>5

\* Where a worker goes once the results are gathered.
LEMMA LateMoves ==
    ASSUME TypeOK, BusyWithArchive, NEW p \in Worker, NEW n \in Archive, n = job[p].n,
           \/ MergeMeta(p) \/ WriteDone(p) \/ WriteFailed(p) \/ Settle(p) \/ Ack(p)
           \/ WriteCancelled(p)
    PROVE  LateMove(p, n) \/ LastMove(p, n)
  <1>1. arch \in [Archive -> ArchiveFiles]
    BY DEF TypeOK
  <1>2. {"done", "fail", "complete", "reject", "ack"} \subseteq JobStep
    BY DEF JobStep, Extracting
  <1>3. ASSUME NEW pc \in JobStep, Become(p, pc), UNCHANGED applied
        PROVE  GoesOn(p, pc) /\ SameProgress(p)
    BY <1>3, BecomeEffect DEF SameProgress
  <1>4. CASE MergeMeta(p)
    <2>1. (GoesOn(p, "done") \/ GoesOn(p, "fail")) /\ SameProgress(p)
      BY <1>2, <1>3, <1>4 DEF MergeMeta
    <2>2. QED
      BY <1>4, <2>1 DEF MergeMeta, LateMove
  <1>5. CASE WriteDone(p)
    <2>1. /\ \/ GoesOn(p, "complete") /\ arch' = [arch EXCEPT ![n].done = TRUE]
             \/ GoesOn(p, "fail")
          /\ SameProgress(p)
      BY <1>2, <1>3, <1>5 DEF WriteDone
    <2>2. arch' = [arch EXCEPT ![n].done = TRUE] => arch'[n].done
      BY <1>1 DEF ArchiveFiles
    <2>3. QED
      BY <1>5, <2>1, <2>2 DEF WriteDone, LateMove
  <1>6. CASE WriteFailed(p)
    <2>1. CASE Become(p, "reject") /\ UNCHANGED stuck /\ arch' = [arch EXCEPT ![n].failed = TRUE]
      <3>1. GoesOn(p, "reject") /\ SameProgress(p)
        BY <1>2, <1>3, <1>6, <2>1 DEF WriteFailed
      <3>2. arch'[n].failed
        BY <1>1, <2>1 DEF ArchiveFiles
      <3>3. QED
        BY <1>6, <2>1, <3>1, <3>2 DEF WriteFailed, LateMove
    <2>2. CASE Raise(p)
      BY <1>6, <2>2, RaiseEffect DEF WriteFailed, LastMove
    <2>3. QED
      BY <1>6, <2>1, <2>2 DEF WriteFailed
  <1>7. CASE Settle(p)
    <2>1. GoesOn(p, "ack") /\ SameProgress(p)
      BY <1>2, <1>3, <1>7 DEF Settle
    <2>2. QED
      BY <1>7, <2>1 DEF Settle, LateMove
  <1>8. CASE Ack(p) \/ WriteCancelled(p)
    BY <1>8, StopEffect DEF Ack, WriteCancelled, LastMove
  <1>9. QED
    BY <1>4, <1>5, <1>6, <1>7, <1>8

\* Every step of a worker is one of these moves.
LEMMA WorkerMove ==
    ASSUME TypeOK, BusyWithArchive, NEW p \in Worker, NEW n \in Archive, n = job[p].n,
           WorkerStep(p)
    PROVE  EarlyMove(p, n) \/ ExtractMove(p, n) \/ LateMove(p, n) \/ LastMove(p, n)
  BY EarlyMoves, ExtractMoves, LateMoves DEF WorkerStep

\* The common part of the following proofs: a step of a worker.
LEMMA WorkerFacts ==
    ASSUME IInv, NEW p \in Worker, WorkerStep(p), UNCHANGED Others
    PROVE  /\ job[p].n \in Archive /\ job[p].pc # "idle"
           /\ \A q \in Worker \ {p} : job'[q] = job[q]
           /\ job'[p] = Idle \/ job'[p].n = job[p].n
           /\ CountsUp(p) /\ WritesOneFile(p)
           /\ \A k \in Archive : Keeps(k) /\ arch'[k].raw = arch[k].raw
           /\ UNCHANGED <<commit, exposed, live, acked>>
  <1> USE DEF IInv
  <1>1. job[p].n \in Archive /\ WorkerMoves(p) /\ CountsUp(p) /\ WritesOneFile(p)
    BY WorkerType, WorkerCounts, WorkerWrites
  <1>2. job[p].pc # "idle"
    BY <1>1, IdleFields DEF BusyWithArchive, Archive
  <1>3. \A k \in Archive : Keeps(k) /\ arch'[k].raw = arch[k].raw
    BY <1>1, WorkerKeeps
  <1>4. QED
    BY <1>1, <1>2, <1>3 DEF WorkerMoves, GoesOn, Stops, Others

----------------------------------------------------------------------------
(* Work is about archives with a raw file.                                 *)

\* WorkHasRaw is kept: whoever works on an archive finds its messages.
LEMMA RawStep ==
    ASSUME IInv, [Next]_vars
    PROVE  WorkHasRaw'
  <1> USE DEF IInv
  <1>1. CASE Quiet
    BY <1>1 DEF Quiet, WorkHasRaw
  <1>2. CASE CommitBegin \/ CommitFault
    BY <1>2 DEF CommitBegin, CommitFault, WorkHasRaw
  <1>3. CASE CommitStep
    <2>1. /\ commit.n \in Archive /\ UNCHANGED <<stuck, job>>
          /\ \A k \in Archive : Keeps(k) /\ (k # commit.n => arch'[k] = arch[k])
      BY <1>3, CommitMoves, CommitKeeps
    <2>2. ASSUME NEW n \in Archive,
                 arch'[n].phase1 = "ready" \/ queued'[n] > 0 \/ stuck'[n] > 0
          PROVE  arch'[n].raw
      <3>1. CASE n # commit.n
        <4>1. queued'[n] = queued[n]
          BY <1>3, <3>1 DEF CommitStep, WriteMarker, WriteRaw, Enqueue, CreateTask, RewriteRoot,
                            WriteSidecars, SaveMeta, WriteReady, MarkFailed, TypeOK
        <4>2. QED
          BY <2>1, <2>2, <3>1, <4>1 DEF WorkHasRaw
      <3>2. CASE n = commit.n /\ commit.pc \in {"enqueue", "ready"}
        <4>1. arch[n].raw
          BY <3>2 DEF RootIsCovered, CommitSteps
        <4>2. QED
          BY <2>1, <4>1 DEF Keeps
      <3>3. CASE n = commit.n /\ commit.pc \notin {"enqueue", "ready"}
        <4>1. queued'[n] = queued[n]
          BY <1>3, <3>3 DEF CommitStep, WriteMarker, WriteRaw, Enqueue, CreateTask, RewriteRoot,
                            WriteSidecars, SaveMeta, WriteReady, MarkFailed
        <4>2. arch \in [Archive -> ArchiveFiles]
          BY DEF TypeOK
        <4>3. arch'[n].phase1 \in {arch[n].phase1, "preparing"}
          <5>1. CASE WriteMarker
            BY <3>3, <4>2, <5>1 DEF WriteMarker, ArchiveFiles
          <5>2. CASE WriteRaw \/ MarkFailed
            BY <3>3, <4>2, <5>2 DEF WriteRaw, MarkFailed, ArchiveFiles
          <5>3. QED
            BY <1>3, <3>3, <5>1, <5>2
               DEF CommitStep, Enqueue, CreateTask, RewriteRoot, WriteSidecars, SaveMeta, WriteReady
        <4>4. QED
          BY <2>1, <2>2, <4>1, <4>3 DEF WorkHasRaw, Keeps
      <3>4. QED
        BY <3>1, <3>2, <3>3
    <2>3. \A p \in Worker : job[p].pc # "idle" => job[p].n \in Archive
      BY DEF BusyWithArchive
    <2>4. QED
      BY <2>1, <2>2, <2>3 DEF WorkHasRaw, Keeps, Extracting
  <1>4. ASSUME NEW p \in Worker, WorkerStep(p), UNCHANGED Others
        PROVE  WorkHasRaw'
    <2>1. PICK m \in Archive : m = job[p].n
      BY <1>4, WorkerFacts
    <2>2. arch[m].raw
      BY <1>4, <2>1, WorkerFacts DEF WorkHasRaw
    <2>3. ASSUME NEW n \in Archive,
                 arch'[n].phase1 = "ready" \/ queued'[n] > 0 \/ stuck'[n] > 0
          PROVE  arch'[n].raw
      <3>1. CASE arch'[n].phase1 = "ready"
        <4>1. arch[n].phase1 = "ready" \/ has_work(n)
          <5>1. WritesOneFile(p) /\ arch \in [Archive -> ArchiveFiles]
            BY <1>4, WorkerFacts DEF TypeOK
          <5>2. QED
            BY <3>1, <5>1 DEF WritesOneFile, ArchiveFiles, Recoverable
        <4>2. has_work(n) => arch[n].raw
          BY DEF has_work, Claims, WorkHasRaw, TypeOK
        <4>3. QED
          BY <1>4, <4>1, <4>2, WorkerFacts DEF WorkHasRaw
      <3>2. CASE n = m
        BY <1>4, <2>2, <3>2, WorkerFacts
      <3>3. CASE n # m /\ arch'[n].phase1 # "ready"
        BY <1>4, <2>1, <2>3, <3>3, WorkerFacts DEF CountsUp, WorkHasRaw
      <3>4. QED
        BY <3>1, <3>2, <3>3
    <2>4. ASSUME NEW q \in Worker, job'[q].pc # "idle"
          PROVE  arch'[job'[q].n].raw
      <3>1. CASE q # p
        <4>1. job'[q] = job[q] /\ job[q].n \in Archive
          BY <1>4, <2>4, <3>1, WorkerFacts DEF BusyWithArchive
        <4>2. QED
          BY <1>4, <2>4, <4>1, WorkerFacts DEF WorkHasRaw
      <3>2. CASE q = p
        <4>1. job'[p].n = m
          BY <1>4, <2>1, <2>4, <3>2, WorkerFacts, IdleFields
        <4>2. QED
          BY <1>4, <2>2, <3>2, <4>1, WorkerFacts
      <3>3. QED
        BY <3>1, <3>2
    <2>5. ASSUME NEW q \in Worker, job'[q].pc \in {"order", "orderRecover"} \union Extracting
          PROVE  arch'[job'[q].n].phase1 = "ready"
      <3>1. CASE q # p
        <4>1. job'[q] = job[q]
          BY <1>4, <3>1, WorkerFacts
        <4>2. job[q].n \in Archive
          BY <2>5, <4>1 DEF BusyWithArchive, Extracting
        <4>3. QED
          BY <1>4, <2>5, <4>1, <4>2, WorkerFacts DEF WorkHasRaw, Keeps
      <3>2. CASE q = p
        <4>1. job'[p].n = m
          BY <1>4, <2>1, <2>5, <3>2, WorkerFacts, IdleFields DEF Extracting
        <4>2. Keeps(m)
          BY <1>4, WorkerFacts
        <4>3. \/ job[p].pc \in {"order", "orderRecover"} \union Extracting
              \/ arch'[m].phase1 = "ready" \/ job'[p] = Idle
          BY <1>4, <2>1, <2>5, <3>2, WorkerMove
             DEF EarlyMove, ExtractMove, LateMove, LastMove, GoesOn, Stops, Extracting
        <4>4. job'[p] # Idle
          BY <2>5, <3>2, IdleFields DEF Extracting
        <4>5. QED
          BY <2>1, <3>2, <4>1, <4>2, <4>3, <4>4 DEF WorkHasRaw, Keeps
      <3>3. QED
        BY <3>1, <3>2
    <2>6. QED
      BY <2>3, <2>4, <2>5 DEF WorkHasRaw
  <1>5. ASSUME NEW p \in Worker, NEW n \in Archive, Dequeue(p, n), UNCHANGED Others
        PROVE  WorkHasRaw'
    <2>1. UNCHANGED <<arch, stuck>> /\ \A k \in Archive : queued'[k] > 0 => queued[k] > 0
      BY <1>5 DEF Dequeue, TypeOK
    <2>2. arch[n].raw
      BY <1>5 DEF Dequeue, WorkHasRaw
    <2>3. job'[p].n = n /\ job'[p].pc \in {"finalize", "check"}
          /\ \A q \in Worker \ {p} : job'[q] = job[q]
      BY <1>5 DEF Dequeue, Idle, TypeOK
    <2>4. QED
      BY <2>1, <2>2, <2>3 DEF WorkHasRaw, Extracting
  <1>6. ASSUME NEW n \in Archive, Cancel(n)
        PROVE  WorkHasRaw'
    <2>1. UNCHANGED <<arch, queued, stuck>>
      BY <1>6 DEF Cancel
    <2>2. ASSUME NEW q \in Worker, job'[q].pc # "idle"
          PROVE  /\ arch[job'[q].n].raw
                 /\ job'[q].pc \in {"order", "orderRecover"} \union Extracting =>
                      arch[job'[q].n].phase1 = "ready"
      <3>1. CASE job'[q] = job[q]
        BY <2>2, <3>1 DEF WorkHasRaw
      <3>2. CASE job[q].n = n /\ job'[q] = [Idle EXCEPT !.pc = "cancelled", !.n = n]
        <4>1. job'[q].n = n /\ job'[q].pc = "cancelled"
          BY <3>2, IdleFields
        <4>2. job[q].pc # "idle"
          BY <3>2, IdleFields DEF BusyWithArchive, Archive
        <4>3. QED
          BY <3>2, <4>1, <4>2 DEF WorkHasRaw, Extracting
      <3>3. QED
        BY <1>6, <2>2, <3>1, <3>2, CancelEffect, IdleFields
    <2>3. QED
      BY <2>1, <2>2 DEF WorkHasRaw, Extracting
  <1>7. CASE Crash
    <2>1. ASSUME NEW n \in Archive, Copies(n) > 0
          PROVE  arch[n].raw
      <3>1. CASE Claims(n) = {}
        BY <2>1, <3>1, FS_EmptySet DEF Copies, WorkHasRaw, TypeOK
      <3>2. CASE Claims(n) # {}
        BY <3>2 DEF Claims, WorkHasRaw
      <3>3. QED
        BY <3>1, <3>2
    <2>2. /\ arch' = arch /\ \A n \in Archive : queued'[n] = Copies(n) /\ stuck'[n] = 0
          /\ \A q \in Worker : job'[q] = Idle
      BY <1>7 DEF Crash
    <2>3. QED
      BY <2>1, <2>2, IdleFields DEF WorkHasRaw, Extracting
  <1>again. ASSUME NEW p \in Worker, StoreAgain(p)
            PROVE  WorkHasRaw'
    <2>1. /\ UNCHANGED <<arch, queued, stuck>> /\ job[p].pc = "extract"
          /\ job'[p].n = job[p].n /\ job'[p].pc = job[p].pc
          /\ \A q \in Worker \ {p} : job'[q] = job[q]
      BY <1>again, AgainEffect DEF GoesOn
    <2>2. QED
      BY <2>1 DEF WorkHasRaw
  <1>8. QED
    BY <1>again, <1>1, <1>2, <1>3, <1>4, <1>5, <1>6, <1>7, ClientIsQuiet DEF Next

----------------------------------------------------------------------------
(* What is recorded was done.                                              *)

\* Phase 1 touches no file of phase 2, nor what was asked of an archive in use.
LEMMA CommitFiles ==
    ASSUME TypeOK, CommitStep, NEW k \in Archive
    PROVE  /\ arch'[k].done = arch[k].done /\ arch'[k].steps = arch[k].steps
           /\ arch'[k].summarised = arch[k].summarised
           /\ BusyWithArchive /\ FreshDirectory /\ ~Untouched(k) =>
                arch'[k].asked = arch[k].asked
  <1>1. arch \in [Archive -> ArchiveFiles]
    BY DEF TypeOK
  <1>2. CASE WriteMarker
    <2>1. BusyWithArchive /\ FreshDirectory => Untouched(commit.n)
      BY <1>2 DEF WriteMarker, BusyWithArchive, FreshDirectory
    <2>2. QED
      BY <1>1, <1>2, <2>1 DEF WriteMarker, ArchiveFiles
  <1>3. CASE WriteRaw
    BY <1>1, <1>3 DEF WriteRaw, ArchiveFiles
  <1>4. CASE WriteReady \/ MarkFailed
    BY <1>1, <1>4 DEF WriteReady, MarkFailed, ArchiveFiles
  <1>5. QED
    BY <1>2, <1>3, <1>4
       DEF CommitStep, Enqueue, CreateTask, RewriteRoot, WriteSidecars, SaveMeta

\* StepsAreReal is kept: a recorded step has been taken.
LEMMA StepsStep ==
    ASSUME IInv, [Next]_vars
    PROVE  StepsAreReal'
  <1> USE DEF IInv
  <1>0. \A q \in Worker : job[q] = Idle \/ job[q].n \in Archive
    BY DEF BusyWithArchive
  <1>1. CASE Quiet
    BY <1>1 DEF Quiet, StepsAreReal, SummaryIsMade, MemoriesAreRecorded
  <1>2. CASE CommitBegin \/ CommitFault
    BY <1>2 DEF CommitBegin, CommitFault, StepsAreReal, SummaryIsMade, MemoriesAreRecorded
  <1>3. CASE CommitStep
    <2>1. UNCHANGED <<job, applied>>
      BY <1>3, CommitMoves
    <2>2. \A k \in Archive : /\ arch'[k].steps = arch[k].steps
                             /\ arch'[k].summarised = arch[k].summarised
                             /\ ~Untouched(k) => arch'[k].asked = arch[k].asked
      BY <1>3, CommitFiles
    <2>3. \A q \in Worker : job[q] = Idle \/ arch'[job[q].n].asked = arch[job[q].n].asked
      BY <1>0, <2>2 DEF Untouched
    <2>4. QED
      BY <1>0, <2>1, <2>2, <2>3, IdleFields
         DEF StepsAreReal, SummaryIsMade, MemoriesAreRecorded
  <1>4. ASSUME NEW p \in Worker, WorkerStep(p), UNCHANGED Others
        PROVE  StepsAreReal'
    <2>1. PICK m \in Archive : m = job[p].n
      BY <1>4, WorkerFacts
    <2>2. /\ arch \in [Archive -> ArchiveFiles] /\ applied \in [Archive -> Nat]
          /\ applied' \in [Archive -> Nat]
      BY <1>4, WorkerType DEF TypeOK
    <2>3. /\ WritesOneFile(p) /\ \A k \in Archive : Keeps(k)
          /\ \A k \in Archive : applied'[k] >= applied[k]
          /\ \A k \in Archive : arch'[k].asked = arch[k].asked
      BY <1>4, WorkerFacts, WorkerKeeps DEF CountsUp
    <2>made. ASSUME NEW k \in Archive
             PROVE  /\ SummaryIsMade(k) => SummaryIsMade(k)'
                    /\ MemoriesAreRecorded(k) => MemoriesAreRecorded(k)'
      BY <2>2, <2>3 DEF Keeps, SummaryIsMade, MemoriesAreRecorded
    <2>4. ASSUME NEW n \in Archive, arch'[n].steps
          PROVE  applied'[n] > 0
      <3>1. arch[n].steps \/ (n = m /\ job[p].longTerm = "applied")
        BY <2>1, <2>2, <2>3, <2>4 DEF WritesOneFile, ArchiveFiles
      <3>2. applied[n] > 0
        BY <2>1, <3>1 DEF StepsAreReal
      <3>3. QED
        BY <2>2, <2>3, <3>2
    <2>5. ASSUME NEW q \in Worker, q # p
          PROVE  /\ job'[q].summary = "ok" => SummaryIsMade(job[q].n)'
                 /\ job'[q].longTerm = "ok" => MemoriesAreRecorded(job[q].n)'
                 /\ job'[q].longTerm = "applied" => applied'[job'[q].n] > 0
                 /\ job'[q].pc \in {"merge", "done"} =>
                      SummaryIsMade(job[q].n)' /\ MemoriesAreRecorded(job[q].n)'
      <3>1. job'[q] = job[q]
        BY <1>4, <2>5, WorkerFacts
      <3>2. CASE job[q] = Idle
        BY <3>1, <3>2, IdleFields
      <3>3. CASE job[q].n \in Archive
        <4>1. applied[job[q].n] > 0 => applied'[job[q].n] > 0
          BY <2>2, <2>3, <3>3
        <4>2. /\ SummaryIsMade(job[q].n) => SummaryIsMade(job[q].n)'
              /\ MemoriesAreRecorded(job[q].n) => MemoriesAreRecorded(job[q].n)'
          BY <2>2, <2>3, <3>1, <3>3 DEF Keeps, SummaryIsMade, MemoriesAreRecorded
        <4>3. QED
          BY <3>1, <4>1, <4>2 DEF StepsAreReal, SummaryIsMade, MemoriesAreRecorded
      <3>4. QED
        BY <1>0, <3>2, <3>3
    <2>6. /\ job'[p] = Idle \/ job'[p].n = m
          /\ job'[p].summary = "ok" => SummaryIsMade(m)'
          /\ job'[p].longTerm = "ok" => MemoriesAreRecorded(m)'
          /\ job'[p].longTerm = "applied" => applied'[m] > 0
          /\ job'[p].pc \in {"merge", "done"} =>
               SummaryIsMade(m)' /\ MemoriesAreRecorded(m)'
      <3>1. CASE job'[p] = Idle
        BY <3>1, IdleFields
      <3>2. CASE job'[p] # Idle
        <4>1. job'[p].n = m /\ Keeps(m) /\ (applied[m] > 0 => applied'[m] > 0)
          BY <1>4, <2>1, <2>2, <2>3, <3>2, WorkerFacts
        <4>2. EarlyMove(p, m) \/ ExtractMove(p, m) \/ LateMove(p, m)
          BY <1>4, <2>1, <3>2, WorkerMove DEF LastMove, Stops
        <4>3. job'[p].summary = "ok" =>
                job[p].summary = "ok" \/ arch'[m].summarised \/ "summary" \notin arch[m].asked
          BY <2>1, <4>2 DEF EarlyMove, ExtractMove, LateMove, SameProgress, Todo
        <4>4. job'[p].longTerm = "ok" =>
                \/ job[p].longTerm = "ok" \/ arch[m].steps \/ arch'[m].steps
                \/ "longTerm" \notin arch[m].asked
          BY <2>1, <4>2 DEF EarlyMove, ExtractMove, LateMove, SameProgress, Todo
        <4>5. job'[p].longTerm = "applied" => job[p].longTerm = "applied" \/ applied'[m] > 0
          BY <2>2, <4>2 DEF EarlyMove, ExtractMove, LateMove, SameProgress, Todo
        <4>6. job'[p].pc \in {"merge", "done"} =>
                \/ job[p].pc \in {"merge", "done"}
                \/ job[p].summary = "ok" /\ job[p].longTerm = "ok"
          BY <4>2 DEF EarlyMove, ExtractMove, LateMove, GoesOn
        <4>7. /\ job[p].summary = "ok" => SummaryIsMade(m)'
              /\ job[p].longTerm = "ok" => MemoriesAreRecorded(m)'
              /\ job[p].pc \in {"merge", "done"} =>
                   SummaryIsMade(m)' /\ MemoriesAreRecorded(m)'
          <5>1. /\ job[p].summary = "ok" => SummaryIsMade(m)
                /\ job[p].longTerm = "ok" => MemoriesAreRecorded(m)
                /\ job[p].pc \in {"merge", "done"} => SummaryIsMade(m) /\ MemoriesAreRecorded(m)
            BY <2>1 DEF StepsAreReal
          <5>2. QED
            BY <2>made, <5>1
        <4>8. job'[p].summary = "ok" => SummaryIsMade(m)'
          BY <2>3, <4>3, <4>7 DEF SummaryIsMade
        <4>9. arch[m].steps => arch'[m].steps
          BY <2>3 DEF Keeps
        <4>10. job'[p].longTerm = "ok" => MemoriesAreRecorded(m)'
          BY <2>3, <2>4, <4>4, <4>7, <4>9 DEF MemoriesAreRecorded
        <4>11. job[p].longTerm = "applied" => applied[m] > 0
          BY <2>1 DEF StepsAreReal
        <4>12. QED
          BY <4>1, <4>5, <4>6, <4>7, <4>8, <4>10, <4>11
      <3>3. QED
        BY <3>1, <3>2
    <2>7. \A q \in Worker \ {p} : job'[q].n = job[q].n
      BY <1>4, WorkerFacts
    <2>8. \A q \in Worker :
            /\ job'[q].summary = "ok" => SummaryIsMade(job[q].n)'
            /\ job'[q].longTerm = "ok" => MemoriesAreRecorded(job[q].n)'
            /\ job'[q].longTerm = "applied" => applied'[job'[q].n] > 0
            /\ job'[q].pc \in {"merge", "done"} =>
                 SummaryIsMade(job[q].n)' /\ MemoriesAreRecorded(job[q].n)'
      <3>1. CASE job'[p] = Idle
        BY <2>5, <3>1, IdleFields DEF SummaryIsMade, MemoriesAreRecorded
      <3>2. CASE job'[p].n = m
        BY <2>5, <2>6, <3>2 DEF SummaryIsMade, MemoriesAreRecorded
      <3>3. QED
        BY <2>6, <3>1, <3>2
    <2>9. QED
      BY <2>4, <2>8 DEF StepsAreReal, SummaryIsMade, MemoriesAreRecorded
  <1>5. ASSUME NEW p \in Worker, NEW n \in Archive, Dequeue(p, n), UNCHANGED Others
        PROVE  StepsAreReal'
    <2>1. /\ UNCHANGED <<arch, applied>> /\ \A q \in Worker \ {p} : job'[q] = job[q]
          /\ job'[p].pc \in {"finalize", "check"}
          /\ job'[p].summary = "todo" /\ job'[p].longTerm = "todo"
      BY <1>5 DEF Dequeue, Idle, TypeOK
    <2>2. QED
      BY <2>1 DEF StepsAreReal, SummaryIsMade, MemoriesAreRecorded
  <1>6. ASSUME NEW n \in Archive, Cancel(n)
        PROVE  StepsAreReal'
    <2>1. /\ UNCHANGED <<arch, applied>>
          /\ \A q \in Worker : \/ job'[q] = job[q]
                               \/ /\ job'[q].pc \in {"idle", "cancelled"}
                                  /\ job'[q].summary = "todo" /\ job'[q].longTerm = "todo"
      BY <1>6, CancelMoves DEF Cancel
    <2>2. QED
      BY <2>1 DEF StepsAreReal, SummaryIsMade, MemoriesAreRecorded
  <1>7. CASE Crash
    BY <1>7, IdleFields DEF Crash, StepsAreReal, SummaryIsMade, MemoriesAreRecorded
  <1>again. ASSUME NEW p \in Worker, StoreAgain(p)
            PROVE  StepsAreReal'
    <2>1. /\ UNCHANGED <<arch, applied>> /\ job'[p].pc = "extract" /\ job'[p].n = job[p].n
          /\ job'[p].summary = job[p].summary /\ job'[p].longTerm = "todo"
          /\ \A q \in Worker \ {p} : job'[q] = job[q]
      BY <1>again, AgainEffect DEF GoesOn
    <2>2. QED
      BY <2>1 DEF StepsAreReal, SummaryIsMade, MemoriesAreRecorded
  <1>8. QED
    BY <1>again, <1>1, <1>2, <1>3, <1>4, <1>5, <1>6, <1>7, ClientIsQuiet DEF Next

\* OutcomeIsWritten is kept: a worker past its outcome has written it.
LEMMA OutcomeStep ==
    ASSUME IInv, [Next]_vars
    PROVE  OutcomeIsWritten'
  <1> USE DEF IInv
  <1>0. \A q \in Worker : job[q].pc = "idle" \/ job[q].n \in Archive
    BY DEF BusyWithArchive
  <1>1. CASE Quiet
    BY <1>1 DEF Quiet, OutcomeIsWritten, IsTerminal
  <1>2. CASE CommitBegin \/ CommitFault
    BY <1>2 DEF CommitBegin, CommitFault, OutcomeIsWritten, IsTerminal
  <1>3. CASE CommitStep
    <2>1. UNCHANGED job /\ \A k \in Archive : Keeps(k)
      BY <1>3, CommitMoves, CommitKeeps
    <2>2. QED
      BY <1>0, <2>1 DEF OutcomeIsWritten, IsTerminal, Keeps
  <1>4. ASSUME NEW p \in Worker, WorkerStep(p), UNCHANGED Others
        PROVE  OutcomeIsWritten'
    <2>1. PICK m \in Archive : m = job[p].n
      BY <1>4, WorkerFacts
    <2>2. /\ \A k \in Archive : Keeps(k)
          /\ \A q \in Worker \ {p} : job'[q] = job[q]
      BY <1>4, WorkerFacts
    <2>3. CASE job'[p] = Idle
      BY <1>0, <2>2, <2>3, IdleFields DEF OutcomeIsWritten, IsTerminal, Keeps
    <2>4. CASE job'[p] # Idle
      <3>1. job'[p].n = m /\ Keeps(m)
        BY <1>4, <2>1, <2>2, <2>4, WorkerFacts
      <3>2. EarlyMove(p, m) \/ ExtractMove(p, m) \/ LateMove(p, m)
        BY <1>4, <2>1, <2>4, WorkerMove DEF LastMove, Stops
      <3>3. job'[p].pc = "complete" => arch'[m].done
        BY <3>2 DEF EarlyMove, ExtractMove, LateMove, GoesOn
      <3>4. job'[p].pc = "reject" => arch'[m].failed
        BY <3>2 DEF EarlyMove, ExtractMove, LateMove, GoesOn
      <3>5. job'[p].pc = "ack" =>
              arch'[m].failed \/ job[p].pc \in {"order", "orderRecover", "complete", "reject"}
        BY <3>2 DEF EarlyMove, ExtractMove, LateMove, GoesOn
      <3>6. job'[p].pc = "ack" => arch'[m].failed \/ arch'[m].done \/ arch'[m].phase1 = "ready"
        BY <2>1, <3>1, <3>5 DEF WorkHasRaw, OutcomeIsWritten, Keeps
      <3>7. QED
        BY <1>0, <2>2, <3>1, <3>3, <3>4, <3>6 DEF OutcomeIsWritten, IsTerminal, Keeps
    <2>5. QED
      BY <2>3, <2>4
  <1>5. ASSUME NEW p \in Worker, NEW n \in Archive, Dequeue(p, n), UNCHANGED Others
        PROVE  OutcomeIsWritten'
    <2>1. /\ UNCHANGED arch /\ \A q \in Worker \ {p} : job'[q] = job[q]
          /\ job'[p].pc \in {"finalize", "check"}
      BY <1>5 DEF Dequeue, Idle, TypeOK
    <2>2. QED
      BY <2>1 DEF OutcomeIsWritten, IsTerminal
  <1>6. ASSUME NEW n \in Archive, Cancel(n)
        PROVE  OutcomeIsWritten'
    <2>1. /\ UNCHANGED arch
          /\ \A q \in Worker : job'[q] = job[q] \/ job'[q].pc \in {"idle", "cancelled"}
      BY <1>6, CancelMoves DEF Cancel
    <2>2. QED
      BY <2>1 DEF OutcomeIsWritten, IsTerminal
  <1>7. CASE Crash
    BY <1>7, IdleFields DEF Crash, OutcomeIsWritten
  <1>again. ASSUME NEW p \in Worker, StoreAgain(p)
            PROVE  OutcomeIsWritten'
    <2>1. /\ UNCHANGED <<arch>> /\ job[p].pc = "extract"
          /\ job'[p].n = job[p].n /\ job'[p].pc = job[p].pc
          /\ \A q \in Worker \ {p} : job'[q] = job[q]
      BY <1>again, AgainEffect DEF GoesOn
    <2>2. QED
      BY <2>1 DEF OutcomeIsWritten, IsTerminal
  <1>8. QED
    BY <1>again, <1>1, <1>2, <1>3, <1>4, <1>5, <1>6, <1>7, ClientIsQuiet DEF Next

\* DoneIsWhole is kept.
LEMMA DoneStep ==
    ASSUME IInv, [Next]_vars
    PROVE  DoneIsWhole'
  <1> USE DEF IInv
  <1>1. CASE UNCHANGED <<arch, applied>>
    BY <1>1 DEF DoneIsWhole, SummaryIsMade, MemoriesAreRecorded
  <1>2. CASE CommitStep
    <2>1. /\ UNCHANGED applied
          /\ \A k \in Archive : Keeps(k) /\ arch'[k].done = arch[k].done
      BY <1>2, CommitMoves, CommitKeeps, CommitFiles
    <2>2. QED
      BY <2>1 DEF DoneIsWhole, Keeps, SummaryIsMade, MemoriesAreRecorded
  <1>3. ASSUME NEW p \in Worker, WorkerStep(p), UNCHANGED Others
        PROVE  DoneIsWhole'
    <2>1. PICK m \in Archive : m = job[p].n
      BY <1>3, WorkerFacts
    <2>2. /\ arch \in [Archive -> ArchiveFiles] /\ applied \in [Archive -> Nat]
          /\ applied' \in [Archive -> Nat]
      BY <1>3, WorkerType DEF TypeOK
    <2>3. /\ WritesOneFile(p) /\ \A k \in Archive : Keeps(k)
          /\ \A k \in Archive : applied'[k] >= applied[k]
      BY <1>3, WorkerFacts DEF CountsUp
    <2>4. ASSUME NEW n \in Archive, arch'[n].done
          PROVE  /\ arch'[n].phase1 = "ready" /\ arch'[n].raw
                 /\ SummaryIsMade(n)' /\ MemoriesAreRecorded(n)'
      <3>1. arch[n].done \/ (n = m /\ job[p].pc = "done")
        BY <2>1, <2>2, <2>3, <2>4 DEF WritesOneFile, ArchiveFiles
      <3>2. arch[n].phase1 = "ready" /\ SummaryIsMade(n) /\ MemoriesAreRecorded(n)
        BY <2>1, <3>1 DEF DoneIsWhole, WorkHasRaw, StepsAreReal, Extracting
      <3>3. arch[n].raw
        BY <3>2 DEF WorkHasRaw
      <3>4. applied[n] > 0 => applied'[n] > 0
        BY <2>2, <2>3
      <3>5. QED
        BY <2>3, <3>2, <3>3, <3>4 DEF Keeps, SummaryIsMade, MemoriesAreRecorded
    <2>5. QED
      BY <2>4 DEF DoneIsWhole
  <1>4. CASE \/ \E p \in Worker, n \in Archive : Dequeue(p, n) /\ UNCHANGED Others
             \/ \E n \in Archive : Cancel(n)
    BY <1>1, <1>4 DEF Dequeue, Cancel
  <1>5. CASE CommitBegin \/ CommitFault \/ Crash \/ Quiet
    BY <1>1, <1>5 DEF CommitBegin, CommitFault, Crash, Quiet
  <1>again. ASSUME NEW p \in Worker, StoreAgain(p)
            PROVE  DoneIsWhole'
    BY <1>1, <1>again DEF StoreAgain
  <1>6. QED
    BY <1>again, <1>2, <1>3, <1>4, <1>5, ClientIsQuiet DEF Next

----------------------------------------------------------------------------
(* The task record follows the markers.                                    *)

\* A worker settles a task of which the marker is, or is being, written.
LEMMA WorkerTasks ==
    ASSUME IInv, NEW p \in Worker, WorkerStep(p), UNCHANGED Others, NEW k \in Archive
    PROVE  \/ task'[k] = task[k]
           \/ task[k] = "open" /\ task'[k] = "failed" /\ arch'[k].failed
           \/ task[k] = "open" /\ task'[k] = "completed" /\ arch'[k].done
  <1> USE DEF IInv
  <1>1. arch \in [Archive -> ArchiveFiles] /\ task \in [Archive -> TaskStatus] /\ job[p].n \in Archive
    BY WorkerFacts DEF TypeOK
  <1>2. ASSUME NEW j \in Archive, PhaseOneReady(j) \/ PhaseOneLost(j)
        PROVE  task'[k] = task[k] \/ (task[k] = "open" /\ task'[k] = "failed" /\ arch'[k].failed)
    <2>1. CASE PhaseOneReady(j)
      BY <2>1 DEF PhaseOneReady
    <2>2. CASE PhaseOneLost(j)
      <3>1. arch'[j].failed
        BY <1>1, <2>2 DEF PhaseOneLost, ArchiveFiles
      <3>2. QED
        BY <1>1, <2>2, <3>1 DEF PhaseOneLost
    <2>3. QED
      BY <1>2, <2>1, <2>2
  <1>3. CASE Recover(p)
    BY <1>1, <1>2, <1>3 DEF Recover, RecoverFails
  <1>4. CASE OrderRecover(p)
    <2>1. job[p].n - 1 \in Archive
      BY <1>4 DEF OrderRecover, BusyWithArchive
    <2>2. QED
      BY <1>2, <1>4, <2>1 DEF OrderRecover, RecoverFails
  <1>5. CASE Order(p)
    <2>1. CASE UNCHANGED task
      BY <2>1
    <2>2. CASE /\ job[p].n - 1 \in Archive
               /\ arch' = [arch EXCEPT ![job[p].n - 1].failed = TRUE]
               /\ task' = [task EXCEPT ![job[p].n - 1] = IF @ = "open" THEN "failed" ELSE @]
      <3>1. arch'[job[p].n - 1].failed
        BY <1>1, <2>2 DEF ArchiveFiles
      <3>2. QED
        BY <1>1, <2>2, <3>1
    <2>3. QED
      BY <1>5, <2>1, <2>2 DEF Order
  <1>6. CASE Settle(p)
    <2>1. \A j \in Archive : Keeps(j)
      BY WorkerFacts
    <2>2. CASE job[p].pc = "complete"
      <3>1. arch'[job[p].n].done
        BY <1>1, <2>1, <2>2 DEF OutcomeIsWritten, Keeps
      <3>2. task' = [task EXCEPT ![job[p].n] = IF @ = "open" THEN "completed" ELSE @]
        BY <1>1, <1>6, <2>2 DEF Settle
      <3>3. QED
        BY <1>1, <3>1, <3>2
    <2>3. CASE job[p].pc = "reject"
      <3>1. arch'[job[p].n].failed
        BY <1>1, <2>1, <2>3 DEF OutcomeIsWritten, Keeps
      <3>2. task' = [task EXCEPT ![job[p].n] = IF @ = "open" THEN "failed" ELSE @]
        BY <1>1, <1>6, <2>3 DEF Settle
      <3>3. QED
        BY <1>1, <3>1, <3>2
    <2>4. QED
      BY <1>6, <2>2, <2>3 DEF Settle
  <1>7. CASE UNCHANGED task
    BY <1>7
  <1>8. QED
    BY <1>3, <1>4, <1>5, <1>6, <1>7
       DEF WorkerStep, Finalize, Check, ApplyMemories, RecordStep, Summarise, Gather, MergeMeta,
           WriteDone, WriteFailed, Ack, WriteCancelled

\* TaskTellsTruth is kept, and a cancelled task stays cancelled.
LEMMA TaskStep ==
    ASSUME IInv, [Next]_vars
    PROVE  /\ TaskTellsTruth'
           /\ \A k \in Archive : task[k] = "cancelled" => task'[k] = "cancelled"
  <1> USE DEF IInv
  <1>1. CASE UNCHANGED <<arch, task>>
    BY <1>1 DEF TaskTellsTruth
  <1>2. CASE CommitStep
    <2>1. \A k \in Archive : Keeps(k)
      BY <1>2, CommitKeeps
    <2>2. \A k \in Archive : task'[k] = task[k] \/ (task[k] = "none" /\ task'[k] = "open")
      BY <1>2 DEF CommitStep, WriteMarker, WriteRaw, Enqueue, CreateTask, RewriteRoot,
                  WriteSidecars, SaveMeta, WriteReady, MarkFailed, TypeOK
    <2>3. QED
      BY <2>1, <2>2 DEF TaskTellsTruth, Keeps
  <1>3. ASSUME NEW p \in Worker, WorkerStep(p), UNCHANGED Others
        PROVE  /\ TaskTellsTruth'
               /\ \A k \in Archive : task[k] = "cancelled" => task'[k] = "cancelled"
    <2>1. \A k \in Archive : Keeps(k)
      BY <1>3, WorkerFacts
    <2>2. \A k \in Archive :
             \/ task'[k] = task[k]
             \/ task[k] = "open" /\ task'[k] = "failed" /\ arch'[k].failed
             \/ task[k] = "open" /\ task'[k] = "completed" /\ arch'[k].done
      BY <1>3, WorkerTasks
    <2>3. QED
      BY <2>1, <2>2 DEF TaskTellsTruth, Keeps
  <1>4. ASSUME NEW p \in Worker, NEW n \in Archive, Dequeue(p, n)
        PROVE  /\ TaskTellsTruth'
               /\ \A k \in Archive : task[k] = "cancelled" => task'[k] = "cancelled"
    <2>1. \A k \in Archive : task'[k] = task[k] \/ (task[k] = "none" /\ task'[k] = "open")
      BY <1>4 DEF Dequeue, TypeOK
    <2>2. arch' = arch
      BY <1>4 DEF Dequeue
    <2>3. QED
      BY <2>1, <2>2 DEF TaskTellsTruth
  <1>5. ASSUME NEW n \in Archive, Cancel(n)
        PROVE  /\ TaskTellsTruth'
               /\ \A k \in Archive : task[k] = "cancelled" => task'[k] = "cancelled"
    <2>1. \A k \in Archive : task'[k] = task[k] \/ task'[k] = "cancelled"
      BY <1>5 DEF Cancel, TypeOK
    <2>2. arch' = arch
      BY <1>5 DEF Cancel
    <2>3. QED
      BY <2>1, <2>2 DEF TaskTellsTruth
  <1>6. CASE CommitBegin \/ CommitFault \/ Crash \/ Quiet
    BY <1>1, <1>6 DEF CommitBegin, CommitFault, Crash, Quiet
  <1>again. ASSUME NEW p \in Worker, StoreAgain(p)
            PROVE  /\ TaskTellsTruth'
                   /\ \A k \in Archive : task[k] = "cancelled" => task'[k] = "cancelled"
    BY <1>1, <1>again DEF StoreAgain
  <1>7. QED
    BY <1>again, <1>2, <1>3, <1>4, <1>5, <1>6, ClientIsQuiet DEF Next

----------------------------------------------------------------------------
(* Work is not given up.                                                   *)

\* KeepsWork is kept: an archive without an outcome has a message or a worker.
LEMMA KeepsWorkStep ==
    ASSUME IInv, [Next]_vars
    PROVE  KeepsWork'
  <1> USE DEF IInv
  <1>0. \A k \in Archive : task'[k] # "cancelled" => task[k] # "cancelled"
    BY TaskStep
  <1>1. CASE Quiet
    BY <1>1 DEF Quiet, KeepsWork, WillBeRun, IsTerminal
  <1>2. CASE CommitBegin \/ CommitFault
    <2>1. commit'.pc \in {"marker", "failed", "idle"} /\ UNCHANGED <<arch, task, queued, stuck, job>>
      BY <1>2 DEF CommitBegin, CommitFault, Goto, TypeOK, CommitAt
    <2>2. QED
      BY <2>1 DEF KeepsWork, WillBeRun, IsTerminal
  <1>3. CASE CommitStep
    <2>1. /\ commit.n \in Archive /\ UNCHANGED <<stuck, job>>
          /\ \A k \in Archive : Keeps(k) /\ (k # commit.n => arch'[k] = arch[k])
      BY <1>3, CommitMoves, CommitKeeps
    <2>2. SUFFICES ASSUME NEW n \in Archive,
                          \/ arch'[n].phase1 = "ready"
                          \/ /\ commit'.n = n
                             /\ commit'.pc \in {"create", "root", "sidecars", "meta", "ready"},
                          ~IsTerminal(n)', task'[n] # "cancelled"
                   PROVE  WillBeRun(n)'
      BY DEF KeepsWork
    <2>3. ~IsTerminal(n) /\ task[n] # "cancelled"
      BY <1>0, <2>1, <2>2 DEF IsTerminal, Keeps
    <2>4. CASE n = commit.n /\ commit.pc = "enqueue"
      <3>1. queued'[n] = queued[n] + 1
        BY <1>3, <2>4 DEF CommitStep, WriteMarker, WriteRaw, Enqueue, CreateTask, RewriteRoot,
                          WriteSidecars, SaveMeta, WriteReady, MarkFailed, TypeOK
      <3>2. queued[n] \in Nat /\ stuck[n] \in Nat
        BY DEF TypeOK
      <3>3. QED
        BY <2>1, <3>1, <3>2 DEF WillBeRun
    <2>5. CASE n # commit.n \/ commit.pc # "enqueue"
      <3>1. queued'[n] = queued[n]
        BY <1>3, <2>5 DEF CommitStep, WriteMarker, WriteRaw, Enqueue, CreateTask, RewriteRoot,
                          WriteSidecars, SaveMeta, WriteReady, MarkFailed, TypeOK
      <3>2. \/ arch[n].phase1 = "ready"
            \/ /\ commit.n = n
               /\ commit.pc \in {"create", "root", "sidecars", "meta", "ready"}
        <4>1. CASE n # commit.n
          <5>1. commit'.n # n
            BY <1>3, <4>1, CommitMoves DEF Archive
          <5>2. QED
            BY <2>1, <2>2, <4>1, <5>1
        <4>2. CASE n = commit.n /\ commit.pc \in {"create", "root", "sidecars", "meta", "ready"}
          BY <4>2
        <4>3. CASE n = commit.n /\ commit.pc \in {"marker", "raw", "failed"}
          <5>1. commit'.pc \in {"raw", "enqueue", "idle"}
            BY <1>3, <4>3, CommitMoves DEF NextCommitStep, CommitSteps
          <5>2. arch \in [Archive -> ArchiveFiles]
            BY DEF TypeOK
          <5>3. arch'[n].phase1 \in {arch[n].phase1, "preparing"}
            <6>1. CASE WriteMarker
              BY <4>3, <5>2, <6>1 DEF WriteMarker, ArchiveFiles
            <6>2. CASE WriteRaw \/ MarkFailed
              BY <4>3, <5>2, <6>2 DEF WriteRaw, MarkFailed, ArchiveFiles
            <6>3. QED
              BY <1>3, <4>3, <6>1, <6>2
                 DEF CommitStep, Enqueue, CreateTask, RewriteRoot, WriteSidecars, SaveMeta, WriteReady
          <5>4. QED
            BY <2>2, <5>1, <5>3
        <4>4. QED
          BY <1>3, <2>5, <4>1, <4>2, <4>3, CommitMoves DEF CommitSteps
      <3>3. WillBeRun(n)
        BY <2>3, <3>2 DEF KeepsWork
      <3>4. QED
        BY <2>1, <3>1, <3>3 DEF WillBeRun
    <2>6. QED
      BY <2>4, <2>5
  <1>4. ASSUME NEW p \in Worker, WorkerStep(p), UNCHANGED Others
        PROVE  KeepsWork'
    <2>1. SUFFICES ASSUME NEW n \in Archive,
                          \/ arch'[n].phase1 = "ready"
                          \/ /\ commit'.n = n
                             /\ commit'.pc \in {"create", "root", "sidecars", "meta", "ready"},
                          ~IsTerminal(n)', task'[n] # "cancelled"
                   PROVE  WillBeRun(n)'
      BY DEF KeepsWork
    <2>2. Keeps(n) /\ commit' = commit /\ WritesOneFile(p) /\ CountsUp(p)
      BY <1>4, WorkerFacts
    <2>3. ~IsTerminal(n) /\ task[n] # "cancelled"
      BY <1>0, <2>1, <2>2 DEF IsTerminal, Keeps
    <2>4. WillBeRun(n)
      <3>1. CASE \/ arch[n].phase1 = "ready"
                 \/ /\ commit.n = n
                    /\ commit.pc \in {"create", "root", "sidecars", "meta", "ready"}
        BY <2>3, <3>1 DEF KeepsWork
      <3>2. CASE arch[n].phase1 = "preparing" /\ Recoverable(n)
        <4>1. \A q \in Worker : job[q].n = n => job[q].pc # "ack"
          BY <2>3, <3>2 DEF OutcomeIsWritten
        <4>2. QED
          BY <3>2, <4>1 DEF Recoverable, has_work, Claims, WillBeRun
      <3>3. QED
        <4>1. arch \in [Archive -> ArchiveFiles]
          BY DEF TypeOK
        <4>2. QED
          BY <2>1, <2>2, <3>1, <3>2, <4>1 DEF WritesOneFile, ArchiveFiles
    <2>5. /\ queued[n] \in Nat /\ stuck[n] \in Nat /\ queued'[n] \in Nat /\ stuck'[n] \in Nat
          /\ queued'[n] >= queued[n] /\ stuck'[n] >= stuck[n]
      BY <1>4, <2>2, WorkerType DEF CountsUp, TypeOK
    <2>6. CASE queued[n] + stuck[n] > 0
      BY <2>5, <2>6 DEF WillBeRun
    <2>7. ASSUME NEW q \in Worker, job[q].n = n, job[q].pc \notin {"idle", "cancelled", "ack"}
          PROVE  WillBeRun(n)'
      <3>1. CASE q # p
        <4>1. job'[q] = job[q]
          BY <1>4, <3>1, WorkerFacts
        <4>2. QED
          BY <2>7, <4>1 DEF WillBeRun
      <3>2. CASE q = p
        <4>1. EarlyMove(p, n) \/ ExtractMove(p, n) \/ LateMove(p, n) \/ LastMove(p, n)
          BY <1>4, <2>7, <3>2, WorkerMove
        <4>2. CASE LastMove(p, n)
          <5>1. stuck'[n] = stuck[n] + 1
            BY <2>7, <3>2, <4>2 DEF LastMove, TypeOK
          <5>2. QED
            BY <2>5, <5>1 DEF WillBeRun
        <4>3. CASE queued' = [queued EXCEPT ![n] = @ + 1]
          <5>1. queued'[n] = queued[n] + 1
            BY <4>3 DEF TypeOK
          <5>2. QED
            BY <2>5, <5>1 DEF WillBeRun
        <4>4. CASE job'[p].n = n /\ job'[p].pc \notin {"idle", "cancelled", "ack"}
          BY <4>4 DEF WillBeRun
        <4>5. job[p].pc \notin {"complete", "reject"}
          BY <2>3, <2>7, <3>2 DEF OutcomeIsWritten, IsTerminal
        <4>6. ~arch'[n].failed
          BY <2>1 DEF IsTerminal
        <4>7. QED
          BY <2>7, <3>2, <4>1, <4>2, <4>3, <4>4, <4>5, <4>6
             DEF EarlyMove, ExtractMove, LateMove, GoesOn
      <3>3. QED
        BY <3>1, <3>2
    <2>8. QED
      BY <2>4, <2>6, <2>7 DEF WillBeRun
  <1>5. ASSUME NEW p \in Worker, NEW n \in Archive, Dequeue(p, n), UNCHANGED Others
        PROVE  KeepsWork'
    <2>1. /\ UNCHANGED <<arch, stuck, commit>> /\ \A q \in Worker \ {p} : job'[q] = job[q]
          /\ job'[p].pc \in {"finalize", "check"} /\ job'[p].n = n /\ job[p] = Idle
          /\ \A k \in Archive : k # n => queued'[k] = queued[k]
      BY <1>5 DEF Dequeue, Others, Idle, TypeOK
    <2>2. WillBeRun(n)'
      BY <2>1 DEF WillBeRun
    <2>3. \A k \in Archive : k # n /\ WillBeRun(k) => WillBeRun(k)'
      BY <2>1, IdleFields DEF WillBeRun
    <2>4. QED
      BY <1>0, <2>1, <2>2, <2>3 DEF KeepsWork, IsTerminal
  <1>6. ASSUME NEW n \in Archive, Cancel(n)
        PROVE  KeepsWork'
    <2>0. \A q \in Worker : job[q].n # n => job'[q] = job[q]
      BY <1>6, CancelMoves
    <2>1. UNCHANGED <<arch, stuck, queued, commit>> /\ task'[n] = "cancelled"
      BY <1>6 DEF Cancel, TypeOK
    <2>2. \A k \in Archive : k # n /\ WillBeRun(k) => WillBeRun(k)'
      BY <2>0, <2>1 DEF WillBeRun
    <2>3. QED
      BY <1>0, <2>1, <2>2 DEF KeepsWork, IsTerminal
  <1>7. CASE Crash
    <2>1. ASSUME NEW n \in Archive, WillBeRun(n)
          PROVE  WillBeRun(n)'
      <3>1. Claims(n) \in SUBSET Worker /\ IsFiniteSet(Claims(n)) /\ Cardinality(Claims(n)) \in Nat
        BY WorkerAssumption, FS_Subset, FS_CardinalityType DEF Claims
      <3>2. queued[n] + stuck[n] > 0 \/ Cardinality(Claims(n)) # 0
        BY <2>1, <3>1, FS_EmptySet DEF WillBeRun, Claims
      <3>3. Copies(n) > 0
        BY <3>1, <3>2 DEF Copies, TypeOK
      <3>4. queued'[n] = Copies(n) /\ stuck'[n] = 0 /\ Copies(n) \in Nat
        BY <1>7, <3>1 DEF Crash, Copies, TypeOK
      <3>5. QED
        BY <3>3, <3>4 DEF WillBeRun
    <2>2. UNCHANGED <<arch, task>> /\ commit'.pc = "idle"
      BY <1>7 DEF Crash
    <2>3. QED
      BY <2>1, <2>2 DEF KeepsWork, IsTerminal
  <1>again. ASSUME NEW p \in Worker, StoreAgain(p)
            PROVE  KeepsWork'
    <2>1. /\ UNCHANGED <<arch, queued, stuck, task, commit>> /\ job[p].pc = "extract"
          /\ job'[p].n = job[p].n /\ job'[p].pc = job[p].pc
          /\ \A q \in Worker \ {p} : job'[q] = job[q]
      BY <1>again, AgainEffect DEF GoesOn
    <2>2. QED
      BY <2>1 DEF KeepsWork, WillBeRun, IsTerminal
  <1>8. QED
    BY <1>again, <1>1, <1>2, <1>3, <1>4, <1>5, <1>6, <1>7, ClientIsQuiet DEF Next

----------------------------------------------------------------------------
(* Memories are stored once.                                               *)

Budget(n) ==
    applied[n] + OpenDeliveries(n) + Cardinality(MayStore(n)) <= 1 + exposed[n]

\* The parts of a budget are numbers.
LEMMA BudgetNumbers ==
    ASSUME TypeOK, NEW n \in Archive
    PROVE  /\ applied[n] \in Nat /\ exposed[n] \in Nat /\ queued[n] \in Nat
           /\ OpenDeliveries(n) \in Nat
           /\ MayStore(n) \in SUBSET Worker /\ Cardinality(MayStore(n)) \in Nat
  <1>1. MayStore(n) \in SUBSET Worker
    BY DEF MayStore
  <1>2. QED
    BY <1>1, FewerWorkers DEF TypeOK, OpenDeliveries

\* Three ways to keep the budget of an archive.
LEMMA BudgetShrinks ==
    ASSUME TypeOK, TypeOK', NEW n \in Archive, Budget(n),
           applied'[n] = applied[n], exposed'[n] = exposed[n],
           OpenDeliveries(n)' <= OpenDeliveries(n), MayStore(n)' \subseteq MayStore(n)
    PROVE  Budget(n)'
  <1>1. Cardinality(MayStore(n)') <= Cardinality(MayStore(n)) /\ Cardinality(MayStore(n)') \in Nat
    BY BudgetNumbers, FewerWorkers
  <1>2. OpenDeliveries(n)' \in Nat
    BY DEF OpenDeliveries, TypeOK
  <1>3. applied[n] + OpenDeliveries(n) + Cardinality(MayStore(n)) <= 1 + exposed[n]
    BY DEF Budget
  <1>4. applied'[n] + OpenDeliveries(n)' + Cardinality(MayStore(n)') <= 1 + exposed'[n]
    BY <1>1, <1>2, <1>3, BudgetNumbers
  <1>5. QED
    BY <1>4 DEF Budget

\* A worker that stores, or raises, spends its own share of the budget.
LEMMA BudgetTransfer ==
    ASSUME TypeOK, TypeOK', NEW n \in Archive, Budget(n), NEW p \in MayStore(n),
           applied'[n] + OpenDeliveries(n)' <= applied[n] + OpenDeliveries(n) + 1,
           exposed'[n] = exposed[n], MayStore(n)' \subseteq MayStore(n) \ {p}
    PROVE  Budget(n)'
  <1>1. /\ Cardinality(MayStore(n)') + 1 <= Cardinality(MayStore(n))
        /\ Cardinality(MayStore(n)') \in Nat
    BY BudgetNumbers, OneWorkerLess
  <1>2. OpenDeliveries(n)' \in Nat /\ applied'[n] \in Nat
    BY DEF OpenDeliveries, TypeOK
  <1>3. applied[n] + OpenDeliveries(n) + Cardinality(MayStore(n)) <= 1 + exposed[n]
    BY DEF Budget
  <1>4. applied'[n] + OpenDeliveries(n)' + Cardinality(MayStore(n)') <= 1 + exposed'[n]
    BY <1>1, <1>2, <1>3, BudgetNumbers
  <1>5. QED
    BY <1>4 DEF Budget

\* A delivery turns into a worker that may store.
LEMMA BudgetDelivery ==
    ASSUME TypeOK, TypeOK', NEW n \in Archive, Budget(n), NEW p,
           applied'[n] = applied[n], exposed'[n] = exposed[n],
           OpenDeliveries(n)' + 1 <= OpenDeliveries(n),
           MayStore(n)' \subseteq MayStore(n) \union {p}
    PROVE  Budget(n)'
  <1>1. /\ Cardinality(MayStore(n)') <= Cardinality(MayStore(n)) + 1
        /\ Cardinality(MayStore(n)') \in Nat
    BY BudgetNumbers, OneWorkerMore
  <1>2. OpenDeliveries(n)' \in Nat
    BY DEF OpenDeliveries, TypeOK
  <1>3. applied[n] + OpenDeliveries(n) + Cardinality(MayStore(n)) <= 1 + exposed[n]
    BY DEF Budget
  <1>4. applied'[n] + OpenDeliveries(n)' + Cardinality(MayStore(n)') <= 1 + exposed'[n]
    BY <1>1, <1>2, <1>3, BudgetNumbers
  <1>5. QED
    BY <1>4 DEF Budget

\* No step of a worker overdraws the budget of an archive.
LEMMA WorkerBudget ==
    ASSUME IInv, TypeOK', NEW p \in Worker, WorkerStep(p), UNCHANGED Others, NEW n \in Archive,
           Budget(n)
    PROVE  Budget(n)'
  <1> USE DEF IInv
  <1>1. PICK m \in Archive : m = job[p].n
    BY WorkerFacts
  <1>2. Keeps(n) /\ CountsUp(p) /\ exposed' = exposed
    BY WorkerFacts
  <1>3. \A q \in Worker \ {p} : job'[q] = job[q]
    BY WorkerFacts
  <1>4. \A q \in Worker \ {p} : q \in MayStore(n)' => q \in MayStore(n)
    BY <1>2, <1>3 DEF MayStore, Keeps, IsTerminal
  <1>5. queued'[n] = queued[n] => OpenDeliveries(n)' <= OpenDeliveries(n)
    BY <1>2 DEF OpenDeliveries, IsTerminal, Keeps, TypeOK
  <1>6. CASE n # m
    <2>1. p \notin MayStore(n)'
      <3>1. job'[p].n # n
        BY <1>1, <1>6, WorkerFacts, IdleFields DEF Archive
      <3>2. QED
        BY <3>1 DEF MayStore
    <2>2. MayStore(n)' \subseteq MayStore(n)
      BY <1>4, <2>1 DEF MayStore
    <2>3. queued'[n] = queued[n] /\ applied'[n] = applied[n]
      BY <1>1, <1>2, <1>6 DEF CountsUp
    <2>4. QED
      BY <1>2, <1>5, <2>2, <2>3, BudgetShrinks
  <1>7. CASE n = m
    <2>1. EarlyMove(p, n) \/ ExtractMove(p, n) \/ LateMove(p, n) \/ LastMove(p, n)
      BY <1>1, <1>7, WorkerMove
    <2>2. ASSUME UNCHANGED <<queued, applied>>, p \in MayStore(n)' => p \in MayStore(n)
          PROVE  Budget(n)'
      <3>1. MayStore(n)' \subseteq MayStore(n)
        BY <1>4, <2>2 DEF MayStore
      <3>2. QED
        BY <1>2, <1>5, <2>2, <3>1, BudgetShrinks
    <2>3. CASE LastMove(p, n)
      <3>1. p \notin MayStore(n)'
        BY <2>3, IdleFields DEF LastMove, Stops, MayStore, Archive
      <3>2. QED
        BY <2>2, <2>3, <3>1 DEF LastMove
    <2>4. CASE LateMove(p, n)
      <3>1. p \notin MayStore(n)'
        BY <2>4 DEF LateMove, GoesOn, MayStore
      <3>2. QED
        BY <2>2, <2>4, <3>1 DEF LateMove, SameProgress
    <2>5. CASE ExtractMove(p, n)
      <3>1. CASE UNCHANGED applied
        <4>1. p \in MayStore(n)' => p \in MayStore(n)
          BY <1>1, <1>7, <2>5, <3>1 DEF ExtractMove, GoesOn, MayStore
        <4>2. QED
          BY <2>2, <2>5, <3>1, <4>1 DEF ExtractMove
      <3>2. CASE /\ job[p].longTerm = "todo" /\ job'[p].longTerm = "applied"
                 /\ applied' = [applied EXCEPT ![n] = @ + 1] /\ GoesOn(p, "extract")
        <4>1. p \in MayStore(n) /\ p \notin MayStore(n)'
          BY <1>1, <1>7, <2>5, <3>2 DEF ExtractMove, GoesOn, MayStore
        <4>2. MayStore(n)' \subseteq MayStore(n) \ {p}
          BY <1>4, <4>1 DEF MayStore
        <4>3. applied'[n] = applied[n] + 1 /\ queued' = queued
          BY <2>5, <3>2 DEF ExtractMove, TypeOK
        <4>4. applied'[n] + OpenDeliveries(n)' <= applied[n] + OpenDeliveries(n) + 1
          <5>1. OpenDeliveries(n)' \in Nat /\ OpenDeliveries(n) \in Nat /\ applied[n] \in Nat
            BY DEF OpenDeliveries, TypeOK
          <5>2. QED
            BY <1>5, <4>3, <5>1
        <4>5. QED
          BY <1>2, <4>1, <4>2, <4>4, BudgetTransfer
      <3>3. QED
        BY <2>5, <3>1, <3>2 DEF ExtractMove
    <2>6. CASE EarlyMove(p, n)
      <3>1. CASE UNCHANGED queued
        <4>1. UNCHANGED applied
          BY <2>6 DEF EarlyMove, SameProgress
        <4>2. p \in MayStore(n)' => p \in MayStore(n)
          <5>1. CASE job'[p].pc = "extract"
            BY <1>1, <1>7, <2>6, <5>1 DEF EarlyMove, GoesOn, MayStore
          <5>2. CASE job'[p].pc # "extract"
            BY <1>1, <1>2, <1>7, <2>6, <3>1, <5>2 DEF EarlyMove, GoesOn, MayStore, Keeps
          <5>3. QED
            BY <5>1, <5>2
        <4>3. QED
          BY <2>2, <3>1, <4>1, <4>2
      <3>2. CASE /\ SameProgress(p) /\ queued' = [queued EXCEPT ![n] = @ + 1]
                 /\ job[p].pc \in {"order", "orderRecover"} /\ GoesOn(p, "ack")
        <4>1. p \notin MayStore(n)' /\ applied' = applied /\ queued'[n] = queued[n] + 1
          BY <3>2 DEF GoesOn, MayStore, SameProgress, TypeOK
        <4>2. CASE arch[n].steps
          <5>1. OpenDeliveries(n)' = 0 /\ OpenDeliveries(n) = 0
            BY <1>2, <4>2 DEF OpenDeliveries, Keeps
          <5>2. MayStore(n)' \subseteq MayStore(n)
            BY <1>4, <4>1 DEF MayStore
          <5>3. QED
            BY <1>2, <4>1, <5>1, <5>2, BudgetShrinks
        <4>3. CASE ~arch[n].steps
          <5>1. p \in MayStore(n)
            BY <1>1, <1>7, <3>2, <4>3 DEF MayStore
          <5>2. MayStore(n)' \subseteq MayStore(n) \ {p}
            BY <1>4, <4>1 DEF MayStore
          <5>3. OpenDeliveries(n)' <= OpenDeliveries(n) + 1
            BY <1>2, <4>1 DEF OpenDeliveries, IsTerminal, Keeps, TypeOK
          <5>4. applied'[n] + OpenDeliveries(n)' <= applied[n] + OpenDeliveries(n) + 1
            <6>1. OpenDeliveries(n)' \in Nat /\ OpenDeliveries(n) \in Nat /\ applied[n] \in Nat
              BY DEF OpenDeliveries, TypeOK
            <6>2. QED
              BY <4>1, <5>3, <6>1
          <5>5. QED
            BY <1>2, <5>1, <5>2, <5>4, BudgetTransfer
        <4>4. QED
          BY <4>2, <4>3
      <3>3. QED
        BY <2>6, <3>1, <3>2 DEF EarlyMove
    <2>7. QED
      BY <2>1, <2>3, <2>4, <2>5, <2>6
  <1>8. QED
    BY <1>6, <1>7

\* StoreBudget is kept: long-term memories are stored once per exposed delivery.
LEMMA BudgetStep ==
    ASSUME IInv, [Next]_vars
    PROVE  StoreBudget'
  <1> USE DEF IInv
  <1>0. TypeOK'
    BY TypeStep
  <1> SUFFICES ASSUME NEW n \in Archive
               PROVE  Budget(n)'
    BY DEF StoreBudget, Budget
  <1>1. Budget(n)
    BY DEF StoreBudget, Budget
  <1>2. CASE UNCHANGED <<arch, queued, job, applied, exposed>>
    BY <1>1, <1>2 DEF Budget, OpenDeliveries, MayStore, IsTerminal
  <1>3. CASE Quiet \/ CommitBegin \/ CommitFault
    BY <1>2, <1>3 DEF Quiet, CommitBegin, CommitFault
  <1>4. CASE CommitStep
    <2>1. commit.n \in Archive /\ UNCHANGED <<job, applied, exposed>> /\ Keeps(n)
      BY <1>4, CommitMoves, CommitKeeps
    <2>2. MayStore(n)' \subseteq MayStore(n)
      BY <2>1 DEF MayStore, Keeps, IsTerminal
    <2>3. CASE n = commit.n /\ commit.pc = "enqueue"
      <3>1. Untouched(n)
        BY <2>3 DEF FreshDirectory
      <3>2. MayStore(n)' = {} /\ applied'[n] = 0
        BY <2>1, <2>2, <3>1 DEF Untouched, MayStore
      <3>3. queued'[n] = 1
        BY <1>4, <2>3, <3>1 DEF CommitStep, WriteMarker, WriteRaw, Enqueue, CreateTask, RewriteRoot,
                          WriteSidecars, SaveMeta, WriteReady, MarkFailed, TypeOK, Untouched
      <3>4. OpenDeliveries(n)' \in 0..1 /\ Cardinality(MayStore(n)') = 0 /\ exposed'[n] \in Nat
        BY <1>0, <3>2, <3>3, FS_EmptySet DEF OpenDeliveries, TypeOK
      <3>5. applied'[n] + OpenDeliveries(n)' + Cardinality(MayStore(n)') <= 1 + exposed'[n]
        BY <3>2, <3>4
      <3>6. QED
        BY <3>5 DEF Budget
    <2>4. CASE n # commit.n \/ commit.pc # "enqueue"
      <3>1. queued'[n] = queued[n]
        BY <1>4, <2>4 DEF CommitStep, WriteMarker, WriteRaw, Enqueue, CreateTask, RewriteRoot,
                          WriteSidecars, SaveMeta, WriteReady, MarkFailed, TypeOK
      <3>2. OpenDeliveries(n)' <= OpenDeliveries(n)
        BY <2>1, <3>1 DEF OpenDeliveries, IsTerminal, Keeps, TypeOK
      <3>3. QED
        BY <1>0, <1>1, <2>1, <2>2, <3>2, BudgetShrinks
    <2>5. QED
      BY <2>3, <2>4
  <1>5. ASSUME NEW p \in Worker, WorkerStep(p), UNCHANGED Others
        PROVE  Budget(n)'
    BY <1>0, <1>1, <1>5, WorkerBudget
  <1>6. ASSUME NEW p \in Worker, NEW k \in Archive, Dequeue(p, k), UNCHANGED Others
        PROVE  Budget(n)'
    <2>1. /\ UNCHANGED <<arch, applied, exposed>> /\ \A q \in Worker \ {p} : job'[q] = job[q]
          /\ job'[p].pc \in {"finalize", "check"} /\ job'[p].n = k
      BY <1>6 DEF Dequeue, Others, Idle, TypeOK
    <2>2. queued'[k] = queued[k] - 1 /\ (n # k => queued'[n] = queued[n])
      BY <1>6 DEF Dequeue, TypeOK
    <2>3. CASE n = k /\ ~IsTerminal(n) /\ ~arch[n].steps
      <3>1. MayStore(n)' \subseteq MayStore(n) \union {p}
        BY <2>1 DEF MayStore, IsTerminal
      <3>2. OpenDeliveries(n)' + 1 <= OpenDeliveries(n)
        BY <2>1, <2>2, <2>3 DEF OpenDeliveries, IsTerminal, TypeOK
      <3>3. QED
        BY <1>0, <1>1, <2>1, <3>1, <3>2, BudgetDelivery
    <2>4. CASE n # k \/ IsTerminal(n) \/ arch[n].steps
      <3>1. MayStore(n)' \subseteq MayStore(n)
        BY <2>1, <2>4 DEF MayStore, IsTerminal
      <3>2. OpenDeliveries(n)' <= OpenDeliveries(n)
        BY <2>1, <2>2, <2>4 DEF OpenDeliveries, IsTerminal, TypeOK
      <3>3. QED
        BY <1>0, <1>1, <2>1, <3>1, <3>2, BudgetShrinks
    <2>5. QED
      BY <2>3, <2>4
  <1>7. ASSUME NEW k \in Archive, Cancel(k)
        PROVE  Budget(n)'
    <2>1. UNCHANGED <<arch, queued, applied, exposed>>
      BY <1>7 DEF Cancel
    <2>2. \A q \in Worker : job'[q] = job[q] \/ job'[q].pc \in {"idle", "cancelled"}
      BY <1>7, CancelMoves
    <2>3. MayStore(n)' \subseteq MayStore(n)
      BY <2>1, <2>2 DEF MayStore, IsTerminal
    <2>4. OpenDeliveries(n)' <= OpenDeliveries(n)
      BY <2>1 DEF OpenDeliveries, IsTerminal, TypeOK
    <2>5. QED
      BY <1>0, <1>1, <2>1, <2>3, <2>4, BudgetShrinks
  <1>8. CASE Crash
    <2>1. Cardinality(Claims(n)) \in Nat
      BY FewerWorkers DEF Claims
    <2>2. Copies(n) \in Nat
      BY <2>1 DEF Copies, TypeOK
    <2>3. Max({Copies(n), 1}) \in Nat /\ Max({Copies(n), 1}) >= 1 /\ Max({Copies(n), 1}) >= Copies(n)
      BY <2>2, MaxOfTwo
    <2>4. /\ UNCHANGED <<arch, applied>> /\ queued'[n] = Copies(n)
          /\ exposed'[n] = exposed[n] + Repeats(n)
      BY <1>8 DEF Crash
    <2>5. MayStore(n)' = {}
      BY <1>8, IdleFields DEF Crash, MayStore
    <2>6. Cardinality(MayStore(n)') = 0
      BY <2>5, FS_EmptySet
    <2>7. applied[n] <= 1 + exposed[n] /\ applied[n] \in Nat /\ exposed[n] \in Nat
      BY <1>1, BudgetNumbers DEF Budget
    <2>8. CASE IsTerminal(n)
      <3>1. OpenDeliveries(n)' = 0 /\ Repeats(n) = 0
        BY <2>4, <2>8 DEF OpenDeliveries, IsTerminal, Repeats
      <3>2. applied'[n] + OpenDeliveries(n)' + Cardinality(MayStore(n)') <= 1 + exposed'[n]
        BY <2>4, <2>6, <2>7, <3>1
      <3>3. QED
        BY <3>2 DEF Budget
    <2>9. CASE ~IsTerminal(n)
      <3>1. Repeats(n) = Max({Copies(n), 1}) - 1 + (IF applied[n] > 0 /\ ~arch[n].steps THEN 1 ELSE 0)
        BY <2>9 DEF Repeats
      <3>2. OpenDeliveries(n)' = IF arch[n].steps THEN 0 ELSE Copies(n)
        BY <2>4, <2>9 DEF OpenDeliveries, IsTerminal
      <3>3. applied'[n] + OpenDeliveries(n)' + Cardinality(MayStore(n)') <= 1 + exposed'[n]
        BY <2>2, <2>3, <2>4, <2>6, <2>7, <3>1, <3>2
      <3>4. QED
        BY <3>3 DEF Budget
    <2>10. QED
      BY <2>8, <2>9
  <1>again. ASSUME NEW p \in Worker, StoreAgain(p)
            PROVE  Budget(n)'
    <2>1. /\ UNCHANGED <<arch, queued, applied>> /\ job'[p].n = job[p].n /\ job[p].n \in Archive
          /\ exposed' = [exposed EXCEPT ![job[p].n] = @ + 1]
          /\ \A q \in Worker \ {p} : job'[q] = job[q]
      BY <1>again, AgainEffect DEF GoesOn
    <2>2. CASE n # job[p].n
      <3>1. MayStore(n)' \subseteq MayStore(n) /\ exposed'[n] = exposed[n]
        BY <2>1, <2>2 DEF MayStore, IsTerminal, TypeOK
      <3>2. OpenDeliveries(n)' <= OpenDeliveries(n)
        BY <2>1 DEF OpenDeliveries, IsTerminal, TypeOK
      <3>3. QED
        BY <1>0, <1>1, <2>1, <3>1, <3>2, BudgetShrinks
    <2>3. CASE n = job[p].n
      <3>1. MayStore(n)' \subseteq MayStore(n) \union {p}
        BY <2>1 DEF MayStore, IsTerminal
      <3>2. /\ Cardinality(MayStore(n)') <= Cardinality(MayStore(n)) + 1
            /\ Cardinality(MayStore(n)') \in Nat
        BY <3>1, BudgetNumbers, OneWorkerMore
      <3>3. exposed'[n] = exposed[n] + 1
        BY <2>1, <2>3 DEF TypeOK
      <3>4. OpenDeliveries(n)' = OpenDeliveries(n)
        BY <2>1 DEF OpenDeliveries, IsTerminal
      <3>5. applied[n] + OpenDeliveries(n) + Cardinality(MayStore(n)) <= 1 + exposed[n]
        BY <1>1 DEF Budget
      <3>6. applied'[n] + OpenDeliveries(n)' + Cardinality(MayStore(n)') <= 1 + exposed'[n]
        BY <2>1, <3>2, <3>3, <3>4, <3>5, BudgetNumbers
      <3>7. QED
        BY <3>6 DEF Budget
    <2>4. QED
      BY <2>2, <2>3
  <1>9. QED
    BY <1>again, <1>3, <1>4, <1>5, <1>6, <1>7, <1>8, <1>2, ClientIsQuiet DEF Next

----------------------------------------------------------------------------
(* The theorems.                                                           *)

\* The inductive invariant holds at first.
LEMMA InvInit == Init => IInv
  <1> SUFFICES ASSUME Init
               PROVE  IInv
    OBVIOUS
  <1>1. TypeOK /\ BusyWithArchive
    BY TypeInit
  <1>2. \A n \in Archive : arch[n] = NoArchive
    BY DEF Init
  <1>3. \A p \in Worker : job[p] = Idle
    BY DEF Init
  <1>4. FreshDirectory /\ RootIsCovered
    BY <1>3, IdleFields DEF Init, FreshDirectory, Untouched, RootIsCovered, CommitSteps, Archive
  <1>5. NothingLost
    BY DEF Init, NothingLost
  <1>6. WorkHasRaw /\ StepsAreReal /\ DoneIsWhole
    BY <1>2, <1>3, IdleFields
       DEF Init, WorkHasRaw, StepsAreReal, DoneIsWhole, NoArchive, Extracting
  <1>7. OutcomeIsWritten /\ TaskTellsTruth /\ KeepsWork
    BY <1>2, <1>3, IdleFields DEF Init, OutcomeIsWritten, TaskTellsTruth, KeepsWork, NoArchive
  <1>8. StoreBudget
    <2> SUFFICES ASSUME NEW n \in Archive
                 PROVE  applied[n] + OpenDeliveries(n) + Cardinality(MayStore(n)) <= 1 + exposed[n]
      BY DEF StoreBudget
    <2>1. MayStore(n) = {}
      BY <1>3, IdleFields DEF MayStore
    <2>2. Cardinality(MayStore(n)) = 0
      BY <2>1, FS_EmptySet
    <2>3. applied[n] = 0 /\ OpenDeliveries(n) = 0 /\ exposed[n] = 0
      BY DEF Init, OpenDeliveries
    <2>4. QED
      BY <2>2, <2>3
  <1>9. QED
    BY <1>1, <1>4, <1>5, <1>6, <1>7, <1>8 DEF IInv

\* Every step keeps the inductive invariant.
LEMMA InvStep == IInv /\ [Next]_vars => IInv'
  <1> SUFFICES ASSUME IInv, [Next]_vars
               PROVE  IInv'
    OBVIOUS
  <1>1. TypeOK' /\ BusyWithArchive'
    BY TypeStep DEF IInv
  <1>2. FreshDirectory' /\ RootIsCovered' /\ NothingLost'
    BY FreshStep, CoverStep, NothingLostStep
  <1>3. WorkHasRaw' /\ StepsAreReal' /\ OutcomeIsWritten' /\ DoneIsWhole'
    BY RawStep, StepsStep, OutcomeStep, DoneStep
  <1>4. TaskTellsTruth' /\ KeepsWork' /\ StoreBudget'
    BY TaskStep, KeepsWorkStep, BudgetStep
  <1>5. QED
    BY <1>1, <1>2, <1>3, <1>4 DEF IInv

\* The inductive invariant holds in every state.
LEMMA Inductive == Spec => []IInv
  BY InvInit, InvStep, PTL DEF Spec

\* No acknowledged message is ever lost between the root file and the archives,
\* for every number of messages, archives, workers, crashes and faults.
THEOREM Durability == Spec => []NothingLost
  <1>1. IInv => NothingLost
    BY DEF IInv
  <1>2. QED
    BY <1>1, Inductive, PTL

\* A .done marker is only ever beside a published archive for which every step that
\* its commit's policy and the configuration ask for has been carried out: the
\* summary made, the memories stored and recorded.
THEOREM Completeness == Spec => []DoneIsWhole
  <1>1. IInv => DoneIsWhole
    BY DEF IInv
  <1>2. QED
    BY <1>1, Inductive, PTL

\* The task record never says more than the markers of the archive.
THEOREM Honesty == Spec => []TaskTellsTruth
  <1>1. IInv => TaskTellsTruth
    BY DEF IInv
  <1>2. QED
    BY <1>1, Inductive, PTL

\* A published archive that is not settled never loses its queue work, unless its
\* task was cancelled.
THEOREM WorkRemains == Spec => []PendingHasWork
  <1>1. IInv => PendingHasWork
    <2> SUFFICES ASSUME IInv, NEW n \in Archive, arch[n].phase1 = "ready", ~IsTerminal(n),
                        task[n] # "cancelled"
                 PROVE  has_work(n)
      BY DEF PendingHasWork
    <2>1. WillBeRun(n)
      BY DEF IInv, KeepsWork
    <2>2. QED
      BY <2>1 DEF WillBeRun, has_work, Claims
  <1>2. QED
    BY <1>1, Inductive, PTL

\* The memories of an archive are stored once, and once more for each time a crash
\* left a copy of the message or an unrecorded result behind, or a transient error
\* after the storing had the whole step run again.
THEOREM StoredOnce == Spec => []NotStoredTwice
  <1>1. IInv => NotStoredTwice
    <2> SUFFICES ASSUME IInv, NEW n \in Archive
                 PROVE  applied[n] <= 1 + exposed[n]
      BY DEF NotStoredTwice
    <2>1. Budget(n)
      BY DEF IInv, StoreBudget, Budget
    <2>2. QED
      BY <2>1, BudgetNumbers DEF IInv, Budget
  <1>2. QED
    BY <1>1, Inductive, PTL

============================================================================
