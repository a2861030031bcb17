--------------------------- MODULE PathLockProofs ---------------------------
(* Exclusion, HeldTokens and NoLeftovers of PathLock, for all constants.   *)
EXTENDS PathLock, TLAPS, FiniteSetTheorems, SequenceTheorems

\* What one pass reads are lock files.
LEMMA ChecksType == ASSUME NEW q \in Request PROVE Checks(q) \subseteq Check
<1>1. check_ancestor_tree_locks(q.path) \subseteq Check
  BY DEF check_ancestor_tree_locks, path_lock_path, Check, LockPath
<1>2. check_lock_paths(q.path) \subseteq Check
  BY DEF check_lock_paths, conflict_paths, path_lock_path, prefixed_exact_lock_path,
         Check, LockPath, Request
<1>3. check_descendant_locks(q.path) \subseteq Check
  BY DEF check_descendant_locks, scan_descendant_locks, Check
<1> QED BY <1>1, <1>2, <1>3 DEF Checks

\* Normalizing a batch keeps at least one of its requests and adds none.
LEMMA NormalizeType ==
  ASSUME NEW o \in Owner, NEW b \in Batches[o], NEW s \in normalize_requests(b)
  PROVE  /\ s \in Seq(Request)
         /\ Len(s) >= 1
         /\ \A i \in 1..Len(s) : s[i] \in b
<1> DEFINE kept == {q \in b : q.kind = "Exact" => [q EXCEPT !.kind = "Tree"] \notin b}
<1>1. b \subseteq Request /\ b # {} /\ IsFiniteSet(b)
  BY ConstantsAssumption
<1>2. kept # {}
  <2>1. PICK q \in b : TRUE
    BY <1>1
  <2>2. CASE q \in kept
    BY <2>2
  <2>3. CASE q \notin kept
    <3>1. [q EXCEPT !.kind = "Tree"] \in b /\ q \in Request
      BY <2>1, <2>3, <1>1 DEF kept
    <3>2. [q EXCEPT !.kind = "Tree"].kind # "Exact"
      BY <3>1 DEF Request
    <3> QED BY <3>1, <3>2
  <2> QED BY <2>2, <2>3
<1>3. IsFiniteSet(kept) /\ Cardinality(kept) \in Nat
  BY <1>1, FS_Subset, FS_CardinalityType, kept \subseteq b
<1>4. Cardinality(kept) # 0
  BY <1>2, <1>3, FS_EmptySet
<1>5. s \in [1..Cardinality(kept) -> kept]
  BY DEF normalize_requests
<1> HIDE DEF kept
<1>6. s \in Seq(kept) /\ Len(s) = Cardinality(kept)
  BY <1>3, <1>5
<1>7. kept \subseteq b /\ kept \subseteq Request
  BY <1>1 DEF kept
<1>8. \A i \in 1..Len(s) : s[i] \in kept
  BY <1>5, <1>6
<1>9. s \in Seq(Request)
  BY <1>3, <1>5, <1>7
<1> QED BY <1>3, <1>4, <1>6, <1>7, <1>8, <1>9

\* The variables of an owner that a step of another one leaves alone.
Frame(o) ==
    /\ pc'[o] = pc[o] /\ batch'[o] = batch[o] /\ acquired'[o] = acquired[o] /\ at'[o] = at[o]
    /\ target'[o] = target[o] /\ todo'[o] = todo[o] /\ seen'[o] = seen[o]
    /\ asof'[o] = asof[o] /\ after'[o] = after[o]

\* Shape speaks of one owner's variables only.
LEMMA ShapeFrame == ASSUME NEW o \in Owner, Shape(o), Frame(o) PROVE Shape(o)'
  BY DEF Shape, Frame

\* A step of one owner leaves the others alone.
LEMMA FrameOthers ==
  ASSUME Types, NEW o \in Owner, OwnerStep(o) PROVE \A p \in Owner \ {o} : Frame(p)
<1> USE DEF Types, Frame, Goto
<1>1. CASE acquire_batch(o)
  BY <1>1 DEF acquire_batch, Pass
<1>2. CASE resolve(o)
  BY <1>2 DEF resolve
<1>3. CASE check(o)
  BY <1>3 DEF check, Fail
<1>4. CASE ensure_lock_dir(o)
  BY <1>4 DEF ensure_lock_dir, Fail
<1>5. CASE try_acquire_one(o)
  BY <1>5 DEF try_acquire_one, Fail
<1>6. CASE evict(o)
  BY <1>6 DEF evict, EvictFails, Fail
<1>7. CASE try_create_token(o)
  BY <1>7 DEF try_create_token
<1>8. CASE verified(o)
  BY <1>8 DEF verified, Pass
<1>9. CASE rollback_acquisitions(o)
  BY <1>9 DEF rollback_acquisitions
<1>10. CASE sweep(o)
  BY <1>10 DEF sweep
<1>11. CASE retry(o)
  BY <1>11 DEF retry, Pass
<1>12. CASE timeout(o)
  BY <1>12 DEF timeout
<1>13. CASE refresh(o)
  BY <1>13 DEF refresh, Owns
<1>14. CASE release(o)
  BY <1>14 DEF release, Owns
<1>15. CASE crash(o)
  BY <1>15 DEF crash
<1>16. CASE reread(o)
  BY <1>16 DEF reread, Fail
<1>17. CASE fill(o)
  BY <1>17 DEF fill, Acquired, Pass, Owns
<1>18. CASE refreshed(o)
  BY <1>18 DEF refreshed, Owns
<1> QED BY <1>1, <1>2, <1>3, <1>4, <1>5, <1>6, <1>7, <1>8, <1>9, <1>10, <1>11, <1>12, <1>13, <1>14,
           <1>15, <1>16, <1>17, <1>18 DEF OwnerStep, AcquireStep

\* Each kind of step keeps the types.
LEMMA TypeStep == ASSUME TypeOK, [Next]_vars PROVE TypeOK'
<1>0. Types /\ \A o \in Owner : Shape(o)
  BY DEF TypeOK
<1>1. ASSUME NEW o \in Owner, acquire_batch(o) PROVE TypeOK'
  <2>a. PICK b \in Batches[o] : \E s \in normalize_requests(b) :
          batch' = [batch EXCEPT ![o] = s] /\ Pass(o, s, 1)
    BY <1>1 DEF acquire_batch
  <2>b. PICK s \in normalize_requests(b) :
          batch' = [batch EXCEPT ![o] = s] /\ Pass(o, s, 1)
    BY <2>a
  <2>c. s \in Seq(Request) /\ Len(s) >= 1 /\ s[1] \in Request
    BY <2>b, NormalizeType
  <2>d. Checks(s[1]) \subseteq Check
    BY <2>c, ChecksType
  <2>1. Types'
    BY <1>1, <1>0, <2>b, <2>c, <2>d DEF Types, Labels, acquire_batch, Pass, Goto
  <2>2. Shape(o)'
    BY <1>1, <1>0, <2>b, <2>c, <2>d DEF Types, Shape, Labels, acquire_batch, Pass, Goto
  <2>3. \A p \in Owner \ {o} : Frame(p)
    BY <1>1, <1>0, FrameOthers DEF OwnerStep, AcquireStep
  <2> QED BY <2>1, <2>2, <2>3, ShapeFrame DEF TypeOK
<1>2. ASSUME NEW o \in Owner, resolve(o) PROVE TypeOK'
  <2>a. batch[o][at[o]] \in Request
    BY <1>0, <1>2 DEF resolve, Types, Shape
  <2>b. resolve_lock_path(batch[o][at[o]]) \in LockPath
    BY <2>a DEF resolve_lock_path, LockPath, path_lock_path, prefixed_exact_lock_path, Request
  <2>1. Types'
    BY <1>2, <1>0, <2>b DEF Types, resolve
  <2>2. Shape(o)'
    BY <1>2, <1>0, <2>b, NoneAssumption DEF Types, Shape, resolve
  <2>3. \A p \in Owner \ {o} : Frame(p)
    BY <1>2, <1>0, FrameOthers DEF OwnerStep, AcquireStep
  <2> QED BY <2>1, <2>2, <2>3, ShapeFrame DEF TypeOK
<1>3. ASSUME NEW o \in Owner, check(o) PROVE TypeOK'
  <2>1. Types'
    <3>1. PICK item \in todo[o] :
            IF Blocks(o, item)
            THEN Fail(o, item.lp, IF pc[o] = "check" THEN "sweep" ELSE "backoff")
            ELSE todo' = [todo EXCEPT ![o] = @ \ {item}] /\ UNCHANGED <<pc, target, after>>
      BY <1>3 DEF check
    <3>2. item \in Check /\ item.lp \in LockPath
      BY <1>0 DEF Types, Check
    <3>3. CASE Blocks(o, item)
      BY <1>3, <1>0, <3>1, <3>2, <3>3 DEF Types, Labels, check, Fail, Goto
    <3>4. CASE ~Blocks(o, item)
      <4>1. todo[o] \ {item} \in SUBSET Check
        BY <1>0 DEF Types
      <4>2. todo' \in [Owner -> SUBSET Check]
        BY <1>0, <3>1, <3>4, <4>1 DEF Types
      <4> QED BY <1>3, <1>0, <3>1, <3>4, <4>2 DEF Types, check
    <3> QED BY <3>3, <3>4
  <2>2. Shape(o)'
    BY <1>3, <1>0, NoneAssumption DEF Types, Shape, check, Fail, Goto, Check
  <2>3. \A p \in Owner \ {o} : Frame(p)
    BY <1>3, <1>0, FrameOthers DEF OwnerStep, AcquireStep
  <2> QED BY <2>1, <2>2, <2>3, ShapeFrame DEF TypeOK
<1>4. ASSUME NEW o \in Owner, ensure_lock_dir(o) PROVE TypeOK'
  <2>1. Types'
    <3>1. CASE \E d \in LockDirs(target[o]) : stat[d] = "file"
      <4>1. /\ Fail(o, None, "failed")
            /\ UNCHANGED <<tokens, blank, stat, now, swept, batch, acquired, at, seen, asof>>
        BY <1>4, <3>1 DEF ensure_lock_dir
      <4>2. pc' \in [Owner -> Labels] /\ after' \in [Owner -> {"sweep", "backoff", "failed"}]
        BY <1>0, <4>1 DEF Types, Labels, Fail, Goto
      <4>3. target' \in [Owner -> LockPath \union {None}] /\ todo' \in [Owner -> SUBSET Check]
        BY <1>0, <4>1 DEF Types, Fail
      <4> QED BY <1>0, <4>1, <4>2, <4>3 DEF Types
    <3>2. CASE ~\E d \in LockDirs(target[o]) : stat[d] = "file"
      <4>1. /\ stat' \in [Path -> {"missing", "file", "dir"}]
            /\ \A p \in Path : stat'[p] = "file" => p \in Files
        BY <1>4, <1>0, <3>2 DEF Types, ensure_lock_dir
      <4>2. pc' \in [Owner -> Labels]
        BY <1>4, <1>0, <3>2 DEF Types, Labels, ensure_lock_dir, Goto
      <4> QED BY <1>4, <1>0, <3>2, <4>1, <4>2 DEF Types, ensure_lock_dir
    <3> QED BY <3>1, <3>2
  <2>2. Shape(o)'
    BY <1>4, <1>0 DEF Types, Shape, ensure_lock_dir, Fail, Goto
  <2>3. \A p \in Owner \ {o} : Frame(p)
    BY <1>4, <1>0, FrameOthers DEF OwnerStep, AcquireStep
  <2> QED BY <2>1, <2>2, <2>3, ShapeFrame DEF TypeOK
<1>5. ASSUME NEW o \in Owner, try_acquire_one(o) PROVE TypeOK'
  <2>1. Types'
    <3>1. read_token(target[o]) \in Token \union {None}
      BY <1>5, <1>0 DEF Types, Shape, try_acquire_one, read_token
    <3>2. seen' \in [Owner -> Token \union {None}]
      BY <1>5, <1>0, <3>1 DEF Types, try_acquire_one
    <3>3. pc' \in [Owner -> Labels] /\ target' \in [Owner -> LockPath \union {None}]
      BY <1>5, <1>0 DEF Types, Labels, try_acquire_one, Fail, Goto
    <3>4. todo' \in [Owner -> SUBSET Check] /\ after' \in [Owner -> {"sweep", "backoff", "failed"}]
      BY <1>5, <1>0 DEF Types, try_acquire_one, Fail
    <3> QED BY <1>5, <1>0, <3>2, <3>3, <3>4 DEF Types, try_acquire_one
  <2>2. Shape(o)'
    BY <1>5, <1>0 DEF Types, Shape, try_acquire_one, Fail, Goto
  <2>3. \A p \in Owner \ {o} : Frame(p)
    BY <1>5, <1>0, FrameOthers DEF OwnerStep, AcquireStep
  <2> QED BY <2>1, <2>2, <2>3, ShapeFrame DEF TypeOK
<1>6. ASSUME NEW o \in Owner, evict(o) PROVE TypeOK'
  <2>3. \A p \in Owner \ {o} : Frame(p)
    BY <1>6, <1>0, FrameOthers DEF OwnerStep, AcquireStep
  <2>1. CASE EvictFails(o)
    <3>1. Types'
      BY <1>6, <1>0, <2>1 DEF Types, Labels, evict, EvictFails, Fail, Goto
    <3>2. Shape(o)'
      BY <1>6, <1>0, <2>1 DEF Types, Shape, evict, EvictFails, Fail, Goto
    <3> QED BY <3>1, <3>2, <1>0, <2>3, ShapeFrame DEF TypeOK
  <2>2. CASE ~EvictFails(o)
    <3>1. Types'
      BY <1>6, <1>0, <2>2 DEF Types, Shape, Labels, evict, remove_token, Goto
    <3>2. Shape(o)'
      BY <1>6, <1>0, <2>2 DEF Types, Shape, evict, Goto
    <3> QED BY <3>1, <3>2, <1>0, <2>3, ShapeFrame DEF TypeOK
  <2> QED BY <2>1, <2>2
<1>7. ASSUME NEW o \in Owner, try_create_token(o) PROVE TypeOK'
  <2>3. \A p \in Owner \ {o} : Frame(p)
    BY <1>7, <1>0, FrameOthers DEF OwnerStep, AcquireStep
  <2>0. at[o] \in 1..Len(batch[o]) /\ target[o] \in LockPath
    BY <1>7, <1>0 DEF Types, Shape, try_create_token
  <2>1. CASE pc'[o] = "reread"
    <3>1. UNCHANGED <<tokens, blank, acquired>> /\ Goto(o, "reread")
      BY <1>7, <1>0, <2>1 DEF Types, try_create_token, Goto
    <3>2. Types'
      BY <1>7, <1>0, <3>1 DEF Types, Labels, try_create_token, Goto
    <3>3. Shape(o)'
      BY <1>7, <1>0, <3>1 DEF Types, Shape, try_create_token, Goto
    <3> QED BY <3>2, <3>3, <1>0, <2>3, ShapeFrame DEF TypeOK
  <2>2. CASE pc'[o] # "reread"
    <3> DEFINE token == [owner |-> o, time |-> asof[o], kind |-> batch[o][at[o]].kind]
    <3>1. /\ Begin(target[o], token)
          /\ acquired' = [acquired EXCEPT ![o] = Append(@, target[o])]
          /\ Goto(o, "fill")
      BY <1>7, <1>0, <2>2 DEF Types, try_create_token, Goto
    <3>2. batch[o][at[o]] \in Request
      BY <1>0, <2>0 DEF Types
    <3>3. token \in Token
      BY <1>0, <3>2 DEF Types, Token, Request
    <3> HIDE DEF token
    <3>4. tokens' \in [LockPath -> Token \union {None}] /\ blank' \subseteq LockPath
      BY <1>0, <2>0, <3>1, <3>3 DEF Types, Begin
    <3>5. acquired' \in [Owner -> Seq(LockPath)] /\ Len(acquired'[o]) = Len(acquired[o]) + 1
      BY <1>0, <2>0, <3>1 DEF Types
    <3>6. Types'
      BY <1>7, <1>0, <3>1, <3>4, <3>5 DEF Types, Labels, try_create_token, Goto
    <3>7. Shape(o)'
      BY <1>7, <1>0, <2>0, <3>1, <3>5 DEF Types, Shape, try_create_token, Goto
    <3> QED BY <3>6, <3>7, <1>0, <2>3, ShapeFrame DEF TypeOK
  <2> QED BY <2>1, <2>2
<1>20. ASSUME NEW o \in Owner, reread(o) PROVE TypeOK'
  <2>1. Types'
    BY <1>20, <1>0 DEF Types, Shape, Labels, reread, Fail, Goto
  <2>2. Shape(o)'
    BY <1>20, <1>0 DEF Types, Shape, reread, Fail, Goto
  <2>3. \A p \in Owner \ {o} : Frame(p)
    BY <1>20, <1>0, FrameOthers DEF OwnerStep, AcquireStep
  <2> QED BY <2>1, <2>2, <2>3, ShapeFrame DEF TypeOK
<1>21. ASSUME NEW o \in Owner, fill(o) PROVE TypeOK'
  <2>a. \A i \in 1..Len(batch[o]) : batch[o][i] \in Request /\ Checks(batch[o][i]) \subseteq Check
    BY <1>0, ChecksType DEF Types
  <2>b. at[o] \in 1..Len(batch[o]) /\ Len(acquired[o]) = at[o] /\ Len(batch[o]) \in Nat
    BY <1>21, <1>0 DEF Types, Shape, fill, Owns
  <2>c. /\ at'[o] \in 1..Len(batch[o]) /\ at' = [at EXCEPT ![o] = at'[o]]
        /\ todo' = [todo EXCEPT ![o] = Checks(batch[o][at'[o]])]
    BY <1>21, <1>0, <2>b DEF Types, fill, Acquired, Pass, Owns
  <2>d. Checks(batch[o][at'[o]]) \in SUBSET Check /\ at'[o] \in Nat \ {0}
    BY <2>a, <2>b, <2>c
  <2>1. Types'
    <3>1. at' \in [Owner -> Nat \ {0}]
      BY <1>0, <2>c, <2>d DEF Types
    <3>2. todo' \in [Owner -> SUBSET Check]
      BY <1>0, <2>c, <2>d DEF Types
    <3>3. pc' \in [Owner -> Labels] /\ target' \in [Owner -> LockPath \union {None}]
      BY <1>21, <1>0 DEF Types, Labels, fill, Acquired, Goto, Owns
    <3> QED BY <1>21, <1>0, <3>1, <3>2, <3>3 DEF Types, fill, Owns
  <2>2. Shape(o)'
    BY <1>21, <1>0, <2>b DEF Types, Shape, fill, Goto, Acquired, Pass, Owns
  <2>3. \A p \in Owner \ {o} : Frame(p)
    BY <1>21, <1>0, FrameOthers DEF OwnerStep, AcquireStep
  <2> QED BY <2>1, <2>2, <2>3, ShapeFrame DEF TypeOK
<1>22. ASSUME NEW o \in Owner, refreshed(o) PROVE TypeOK'
  <2>1. Types'
    BY <1>22, <1>0 DEF Types, refreshed, Owns
  <2>2. Shape(o)'
    BY <1>22, <1>0 DEF Types, Shape, refreshed, Owns
  <2>3. \A p \in Owner \ {o} : Frame(p)
    BY <1>22, <1>0, FrameOthers DEF OwnerStep, AcquireStep
  <2> QED BY <2>1, <2>2, <2>3, ShapeFrame DEF TypeOK
<1>8. ASSUME NEW o \in Owner, verified(o) PROVE TypeOK'
  <2>a. \A i \in 1..Len(batch[o]) : batch[o][i] \in Request /\ Checks(batch[o][i]) \subseteq Check
    BY <1>0, ChecksType DEF Types
  <2>1. Types'
    <3>1. CASE at[o] < Len(batch[o])
      <4>1. at[o] + 1 \in 1..Len(batch[o])
        BY <1>0, <3>1 DEF Types
      <4>2. Checks(batch[o][at[o] + 1]) \in SUBSET Check
        BY <2>a, <4>1
      <4>3. todo' \in [Owner -> SUBSET Check]
        <5>1. todo' = [todo EXCEPT ![o] = Checks(batch[o][at[o] + 1])]
          BY <1>8, <3>1 DEF verified, Pass
        <5>2. todo \in [Owner -> SUBSET Check]
          BY <1>0 DEF Types
        <5> QED BY <4>2, <5>1, <5>2
      <4>4. at' \in [Owner -> Nat \ {0}]
        BY <1>8, <1>0, <3>1 DEF Types, verified, Pass
      <4> QED BY <1>8, <1>0, <3>1, <4>3, <4>4 DEF Types, verified
    <3>2. CASE ~(at[o] < Len(batch[o]))
      BY <1>8, <1>0, <3>2 DEF Types, Labels, verified, Goto
    <3> QED BY <3>1, <3>2
  <2>2. Shape(o)'
    BY <1>8, <1>0, <2>a DEF Types, Shape, verified, Goto, Pass
  <2>3. \A p \in Owner \ {o} : Frame(p)
    BY <1>8, <1>0, FrameOthers DEF OwnerStep, AcquireStep
  <2> QED BY <2>1, <2>2, <2>3, ShapeFrame DEF TypeOK
<1>9. ASSUME NEW o \in Owner, rollback_acquisitions(o) PROVE TypeOK'
  <2>1. Types'
    <3>1. CASE acquired[o] = <<>>
      BY <1>9, <1>0, <3>1 DEF Types, Labels, rollback_acquisitions, Goto
    <3>2. CASE acquired[o] # <<>>
      <4>1. SubSeq(acquired[o], 1, Len(acquired[o]) - 1) \in Seq(LockPath)
        BY <1>0, <3>2 DEF Types
      <4> QED BY <1>9, <1>0, <3>2, <4>1 DEF Types, rollback_acquisitions, Unlock, Owns
    <3> QED BY <3>1, <3>2
  <2>2. Shape(o)'
    BY <1>9, <1>0 DEF Types, Shape, rollback_acquisitions, Goto
  <2>3. \A p \in Owner \ {o} : Frame(p)
    BY <1>9, <1>0, FrameOthers DEF OwnerStep, AcquireStep
  <2> QED BY <2>1, <2>2, <2>3, ShapeFrame DEF TypeOK
<1>10. ASSUME NEW o \in Owner, sweep(o) PROVE TypeOK'
  <2>1. Types'
    BY <1>10, <1>0 DEF Types, Shape, Labels, sweep, read_token, Goto
  <2>2. Shape(o)'
    BY <1>10, <1>0 DEF Types, Shape, sweep, Goto
  <2>3. \A p \in Owner \ {o} : Frame(p)
    BY <1>10, <1>0, FrameOthers DEF OwnerStep, AcquireStep
  <2> QED BY <2>1, <2>2, <2>3, ShapeFrame DEF TypeOK
<1>11. ASSUME NEW o \in Owner, retry(o) PROVE TypeOK'
  <2>a. \A i \in 1..Len(batch[o]) : batch[o][i] \in Request /\ Checks(batch[o][i]) \subseteq Check
    BY <1>0, ChecksType DEF Types
  <2>c. Len(acquired[o]) = 0 /\ 1 \in 1..Len(batch[o])
    <3>1. acquired[o] = <<>> /\ Len(batch[o]) > 0
      BY <1>11, <1>0 DEF Shape, retry
    <3>2. Len(batch[o]) \in Nat
      BY <1>0 DEF Types
    <3> QED BY <3>1, <3>2
  <2>b. /\ Checks(batch[o][1]) \in SUBSET Check
        /\ Len(acquired[o]) = 0 /\ 1 <= Len(batch[o])
    BY <2>a, <2>c
  <2>1. Types'
    BY <1>11, <1>0, <2>b DEF Types, Labels, retry, Goto, Pass
  <2>2. Shape(o)'
    BY <1>11, <1>0, <2>b DEF Types, Shape, retry, Goto, Pass
  <2>3. \A p \in Owner \ {o} : Frame(p)
    BY <1>11, <1>0, FrameOthers DEF OwnerStep, AcquireStep
  <2> QED BY <2>1, <2>2, <2>3, ShapeFrame DEF TypeOK
<1>12. ASSUME NEW o \in Owner, timeout(o) PROVE TypeOK'
  <2>1. Types'
    BY <1>12, <1>0 DEF Types, Labels, timeout, Goto
  <2>2. Shape(o)'
    BY <1>12, <1>0 DEF Types, Shape, timeout, Goto
  <2>3. \A p \in Owner \ {o} : Frame(p)
    BY <1>12, <1>0, FrameOthers DEF OwnerStep, AcquireStep
  <2> QED BY <2>1, <2>2, <2>3, ShapeFrame DEF TypeOK
<1>13. ASSUME NEW o \in Owner, refresh(o) PROVE TypeOK'
  <2>1. Types'
    <3>1. PICK i \in 1..Len(acquired[o]) : /\ tokens[acquired[o][i]] # None
            /\ Begin(acquired[o][i], [tokens[acquired[o][i]] EXCEPT !.time = now])
      BY <1>13 DEF refresh, Owns
    <3>2. tokens[acquired[o][i]] \in Token /\ acquired[o][i] \in LockPath /\ now \in Nat
      BY <1>0, <3>1 DEF Types
    <3>3. [tokens[acquired[o][i]] EXCEPT !.time = now] \in Token
      BY <3>2 DEF Token
    <3>4. tokens' \in [LockPath -> Token \union {None}] /\ blank' \subseteq LockPath
      BY <1>0, <3>1, <3>2, <3>3 DEF Types, Begin
    <3> QED BY <1>13, <1>0, <3>4 DEF Types, refresh, Owns
  <2>2. Shape(o)'
    BY <1>13, <1>0 DEF Types, Shape, refresh, Owns
  <2>3. \A p \in Owner \ {o} : Frame(p)
    BY <1>13, <1>0, FrameOthers DEF OwnerStep, AcquireStep
  <2> QED BY <2>1, <2>2, <2>3, ShapeFrame DEF TypeOK
<1>14. ASSUME NEW o \in Owner, release(o) PROVE TypeOK'
  <2>1. Types'
    BY <1>14, <1>0 DEF Types, Labels, release, Unlock, Goto, Owns
  <2>2. Shape(o)'
    <3>1. /\ acquired'[o] = Tail(acquired[o]) /\ UNCHANGED batch
          /\ pc'[o] = IF Len(acquired[o]) = 1 THEN "done" ELSE "release"
          /\ acquired[o] # <<>> /\ acquired[o] \in Seq(LockPath) /\ Len(batch[o]) > 0
      BY <1>14, <1>0 DEF Types, Shape, release, Goto, Owns
    <3>2. Len(acquired[o]) = 1 => acquired'[o] = <<>>
      <4>1. Tail(acquired[o]) \in Seq(LockPath) /\ Len(Tail(acquired[o])) = Len(acquired[o]) - 1
        BY <3>1
      <4>2. PICK rest \in Seq(LockPath) : rest = Tail(acquired[o])
        BY <4>1
      <4> QED BY <3>1, <4>1, <4>2, EmptySeq
    <3> QED BY <3>1, <3>2 DEF Shape
  <2>3. \A p \in Owner \ {o} : Frame(p)
    BY <1>14, <1>0, FrameOthers DEF OwnerStep, AcquireStep
  <2> QED BY <2>1, <2>2, <2>3, ShapeFrame DEF TypeOK
<1>15. ASSUME NEW o \in Owner, crash(o) PROVE TypeOK'
  <2>1. Types'
    BY <1>15, <1>0 DEF Types, Labels, crash, Goto
  <2>2. Shape(o)'
    BY <1>15, <1>0 DEF Types, Shape, crash, Goto
  <2>3. \A p \in Owner \ {o} : Frame(p)
    BY <1>15, <1>0, FrameOthers DEF OwnerStep, AcquireStep
  <2> QED BY <2>1, <2>2, <2>3, ShapeFrame DEF TypeOK
<1>16. ASSUME tick PROVE TypeOK'
  BY <1>0, <1>16 DEF TypeOK, Types, Shape, tick
<1>17. ASSUME NEW p \in Path, mkdir(p) PROVE TypeOK'
  BY <1>0, <1>17 DEF TypeOK, Types, Shape, mkdir
<1>18. ASSUME NEW o \in Owner, NEW p \in Path, FileStep(o, p) PROVE TypeOK'
  BY <1>0, <1>18 DEF TypeOK, Types, Shape, FileStep, create, remove
<1>23. ASSUME NEW o \in Owner, NEW d \in Path, remove_all(o, d) PROVE TypeOK'
  <2>1. PICK gone \in SUBSET Path, locks \in SUBSET LockPath :
          /\ \A l \in locks : tokens[l] # None
          /\ stat' = [p \in Path |-> IF p \in gone THEN "missing" ELSE stat[p]]
          /\ tokens' = [l \in LockPath |-> IF l \in locks THEN None ELSE tokens[l]]
          /\ blank' = blank \ locks
          /\ swept' = swept \union {tokens[l].owner : l \in locks}
    BY <1>23 DEF remove_all, scan_descendant_locks
  <2>2. \A l \in locks : tokens[l].owner \in Owner
    BY <1>0, <2>1 DEF Types, Token
  <2>3. UNCHANGED <<now, pc, batch, acquired, at, target, todo, seen, asof, after>>
    BY <1>23 DEF remove_all
  <2>4. Types'
    BY <1>0, <2>1, <2>2, <2>3 DEF Types
  <2> QED BY <1>0, <2>3, <2>4 DEF TypeOK, Shape
<1>19. CASE UNCHANGED vars
  BY <1>0, <1>19 DEF TypeOK, Types, Shape, vars
<1> QED BY <1>1, <1>2, <1>3, <1>4, <1>5, <1>6, <1>7, <1>8, <1>9, <1>10, <1>11, <1>12, <1>13,
           <1>14, <1>15, <1>16, <1>17, <1>18, <1>19, <1>20, <1>21, <1>22, <1>23
           DEF Next, OwnerStep, AcquireStep, Ended

-----------------------------------------------------------------------------
\* The second look of a request covers every lock file in which a conflicting
\* request can have its token: what makes the protocol symmetric.
LEMMA CheckSets ==
  ASSUME NEW q \in Request, NEW r \in Request, NEW l \in LockPathsOf(r), Conflicting(q, r)
  PROVE  \E item \in Checks(q) : item.lp = l /\ Counts(item, r.kind)
<1>1. l \in conflict_paths(r.path) /\ l \in LockPath
  BY DEF LockPathsOf, conflict_paths, path_lock_path, prefixed_exact_lock_path, LockPath, Request
<1>2. CASE q.path = r.path
  <2>1. [lp |-> l, group |-> 2] \in Checks(q)
    BY <1>1, <1>2 DEF Checks, check_lock_paths
  <2> QED BY <2>1 DEF Counts
<1>3. CASE q.path # r.path /\ request_is_covered_by(q, r)
  <2>1. q.kind = "Tree" /\ path_is_self_or_descendant(r.path, q.path)
    BY <1>3 DEF request_is_covered_by
  <2>2. l.path = r.path
    BY <1>1 DEF conflict_paths, path_lock_path, prefixed_exact_lock_path
  <2>3. l \in scan_descendant_locks(q.path)
    BY <1>1, <1>3, <2>1, <2>2 DEF scan_descendant_locks
  <2>4. [lp |-> l, group |-> 3] \in Checks(q)
    BY <2>1, <2>3 DEF Checks, check_descendant_locks
  <2> QED BY <2>4 DEF Counts
<1>4. CASE q.path # r.path /\ request_is_covered_by(r, q)
  <2>1. r.kind = "Tree" /\ path_is_self_or_descendant(q.path, r.path)
    BY <1>4 DEF request_is_covered_by
  <2>2. l = path_lock_path(r.path)
    BY <2>1 DEF LockPathsOf
  <2>3. [lp |-> l, group |-> 1] \in Checks(q)
    BY <1>4, <2>1, <2>2 DEF Checks, check_ancestor_tree_locks, Request
  <2> QED BY <2>1, <2>3 DEF Counts
<1> QED BY <1>2, <1>3, <1>4 DEF Conflicting

\* A crash is for good.
LEMMA CrashIsFinal ==
  ASSUME Types, [Next]_vars, NEW o \in Owner, Crashed(o) PROVE Crashed(o)'
<1>1. ASSUME NEW p \in Owner, OwnerStep(p) PROVE Crashed(o)'
  <2>1. CASE p = o
    BY <1>1, <2>1 DEF Crashed, OwnerStep, AcquireStep, acquire_batch, resolve, check,
       ensure_lock_dir, try_acquire_one, evict, try_create_token, reread, fill, verified,
       rollback_acquisitions, sweep, retry, timeout, refresh, refreshed, release, crash, Owns
  <2>2. CASE p # o
    BY <1>1, <2>2, FrameOthers DEF Crashed, Frame
  <2> QED BY <2>1, <2>2
<1>2. ASSUME NEW p \in Owner, NEW q \in Path, FileStep(p, q) PROVE Crashed(o)'
  BY <1>2 DEF Crashed, FileStep, create, remove
<1> QED BY <1>1, <1>2 DEF Next, remove_all, mkdir, tick, Ended, vars, Crashed

\* What a step of one owner does to the lock files: it removes its own tokens
\* and those of crashed owners, writes where there is none, and renews its own.
LEMMA TokensKept ==
  ASSUME Types, NEW o \in Owner, OwnerStep(o), Shape(o), SeenIsDead(o), NEW l \in LockPath,
         tokens[l] # None, tokens[l].owner # o, ~Crashed(tokens[l].owner)
  PROVE  tokens'[l] = tokens[l]
<1> USE DEF Types
<1>1. CASE evict(o)
  <2>1. seen[o] # None /\ Crashed(seen[o].owner)
    BY <1>1 DEF evict, Shape, SeenIsDead
  <2> QED BY <1>1, <2>1 DEF evict, EvictFails, remove_token
<1>2. CASE try_create_token(o)
  BY <1>2 DEF try_create_token, Begin
<1>3. CASE rollback_acquisitions(o)
  BY <1>3 DEF rollback_acquisitions, Unlock, Owns
<1>4. CASE release(o)
  BY <1>4 DEF release, Unlock, Owns
<1>5. CASE refresh(o)
  BY <1>5 DEF refresh, Begin, Owns
<1>6. CASE UNCHANGED tokens
  BY <1>6
<1> QED BY <1>1, <1>2, <1>3, <1>4, <1>5, <1>6 DEF OwnerStep, AcquireStep, acquire_batch,
           resolve, check, ensure_lock_dir, try_acquire_one, reread, fill, verified, sweep,
           retry, timeout, refreshed, crash, Owns

\* The clock never passes the life of a token whose owner runs.
LEMMA FreshStep ==
  ASSUME Timely, Types, NoneExpires(now), [Next]_vars PROVE NoneExpires(now)'
<1>0. /\ \A l \in LockPath : tokens[l] # None =>
            Crashed(tokens[l].owner) \/ ~is_stale(tokens[l], now)
      /\ \A o \in Owner : pc[o] \in {"evict", "create"} => now - asof[o] <= Expire
      /\ Expire \in Nat
  BY ConstantsAssumption DEF NoneExpires
<1>1. ASSUME NEW o \in Owner, OwnerStep(o) PROVE NoneExpires(now)'
  <2>1. now' = now
    BY <1>1 DEF OwnerStep, AcquireStep, acquire_batch, resolve, check, ensure_lock_dir,
       try_acquire_one, evict, try_create_token, reread, fill, verified,
       rollback_acquisitions, sweep, retry, timeout, refresh, refreshed, release, crash, Owns
  <2>2. ASSUME NEW l \in LockPath, tokens'[l] # None
        PROVE  pc'[tokens'[l].owner] = "crashed" \/ ~is_stale(tokens'[l], now)
    <3>1. CASE tokens'[l] = tokens[l]
      <4>1. CASE Crashed(tokens[l].owner)
        <5>1. PICK w \in Owner : w = tokens[l].owner
          BY <2>2, <3>1 DEF Types, Token
        <5>2. Crashed(w)'
          BY <1>1, <4>1, <5>1, CrashIsFinal DEF Next
        <5> QED BY <3>1, <5>1, <5>2 DEF Crashed
      <4>2. CASE ~Crashed(tokens[l].owner)
        BY <1>0, <2>2, <3>1, <4>2
      <4> QED BY <4>1, <4>2
    <3>2. CASE try_create_token(o) /\ tokens'[l] # tokens[l]
      <4>1. tokens'[l].time = asof[o] /\ now - asof[o] <= Expire
        BY <1>0, <3>2 DEF try_create_token, Begin, Types
      <4> QED BY <1>0, <4>1 DEF is_stale, Types
    <3>3. CASE refresh(o) /\ tokens'[l] # tokens[l]
      <4>0. PICK i \in 1..Len(acquired[o]) :
                /\ Owns(o, acquired[o][i])
                /\ tokens' = [tokens EXCEPT ![acquired[o][i]] =
                                [tokens[acquired[o][i]] EXCEPT !.time = now]]
        BY <3>3 DEF refresh, Begin
      <4>1. tokens[l] # None /\ tokens[l] \in Token /\ tokens'[l] = [tokens[l] EXCEPT !.time = now]
        BY <3>3, <4>0 DEF Types, Owns
      <4>2. tokens'[l].time = now
        BY <4>1 DEF Token
      <4> QED BY <1>0, <4>2 DEF is_stale, Types
    <3> QED BY <1>1, <2>2, <3>1, <3>2, <3>3 DEF OwnerStep, AcquireStep, acquire_batch, resolve,
               check, ensure_lock_dir, try_acquire_one, evict, EvictFails, remove_token, reread,
               fill, verified, rollback_acquisitions, Unlock, sweep, retry, timeout, refreshed,
               release, crash, Types, Owns
  <2>3. ASSUME NEW p \in Owner, pc'[p] \in {"evict", "create"} PROVE now - asof'[p] <= Expire
    <3>1. CASE p # o
      BY <1>0, <1>1, <2>3, <3>1, FrameOthers DEF Frame
    <3>2. CASE p = o
      <4>1. CASE try_acquire_one(o)
        BY <1>0, <2>3, <3>2, <4>1 DEF try_acquire_one, Types
      <4>2. CASE evict(o)
        BY <1>0, <2>3, <3>2, <4>2 DEF evict, EvictFails, Fail, Goto, Types
      <4>3. CASE ~try_acquire_one(o) /\ ~evict(o)
        <5>1. pc'[o] \notin {"evict", "create"}
          BY <1>1, <4>3 DEF OwnerStep, AcquireStep, acquire_batch, resolve, check,
             ensure_lock_dir, try_create_token, reread, fill, verified, rollback_acquisitions,
             sweep, retry, timeout, refresh, refreshed, release, crash, Fail, Goto, Acquired,
             Types, Owns
        <5> QED BY <2>3, <3>2, <5>1
      <4> QED BY <4>1, <4>2, <4>3
    <3> QED BY <3>1, <3>2
  <2> QED BY <2>1, <2>2, <2>3 DEF NoneExpires, Crashed
<1>2. CASE tick
  BY <1>2 DEF tick, NoneExpires, Crashed
<1>3. CASE UNCHANGED <<tokens, now, pc, asof>>
  BY <1>3 DEF NoneExpires, Crashed
<1>4. ASSUME NEW o \in Owner, NEW d \in Path, remove_all(o, d) PROVE NoneExpires(now)'
  <2>1. \A l \in LockPath : tokens'[l] # None => tokens'[l] = tokens[l]
    BY <1>4 DEF remove_all
  <2> QED BY <1>4, <2>1 DEF remove_all, NoneExpires, Crashed
<1> QED BY <1>1, <1>2, <1>3, <1>4 DEF Next, FileStep, create, remove, mkdir, Ended, vars

\* Steps that are not an owner's change none of the owners' variables; a recursive
\* delete notes from whom it takes a token.
LEMMA FrameAll ==
  ASSUME Types, [Next]_vars, ~\E o \in Owner : OwnerStep(o)
  PROVE  /\ \A p \in Owner : Frame(p)
         /\ swept \subseteq swept' /\ blank' \subseteq blank
         /\ \A l \in LockPath :
              \/ tokens'[l] = tokens[l]
              \/ tokens[l] # None /\ tokens'[l] = None /\ tokens[l].owner \in swept'
<1>1. ASSUME NEW o \in Owner, NEW d \in Path, remove_all(o, d)
      PROVE  /\ swept \subseteq swept' /\ blank' \subseteq blank
             /\ \A l \in LockPath :
                  \/ tokens'[l] = tokens[l]
                  \/ tokens[l] # None /\ tokens'[l] = None /\ tokens[l].owner \in swept'
  BY <1>1 DEF remove_all
<1>2. ASSUME NEW o \in Owner, NEW d \in Path, remove_all(o, d)
      PROVE  \A p \in Owner : Frame(p)
  BY <1>2 DEF remove_all, Frame
<1>3. CASE ~\E o \in Owner, d \in Path : remove_all(o, d)
  <2>1. UNCHANGED <<tokens, blank, swept, pc, batch, acquired, at, target, todo, seen, asof, after>>
    BY <1>3 DEF Next, FileStep, create, remove, mkdir, tick, Ended, vars
  <2> QED BY <2>1 DEF Frame
<1> QED BY <1>1, <1>2, <1>3

\* Owners leave the notes of the deletes alone, but for one that starts anew.
LEMMA SweptStep ==
  ASSUME NEW o \in Owner, OwnerStep(o)
  PROVE  \/ swept' = swept
         \/ rollback_acquisitions(o) /\ acquired[o] = <<>> /\ swept' = swept \ {o}
  BY DEF OwnerStep, AcquireStep, acquire_batch, resolve, check, ensure_lock_dir, try_acquire_one,
     evict, try_create_token, reread, fill, verified, rollback_acquisitions, sweep, retry,
     timeout, refresh, refreshed, release, crash, Owns

\* Requests come from the batches.
LEMMA BatchTreesStep ==
  ASSUME TreesAreDirs, Types, NEW o \in Owner, BatchTrees(o), OwnerStep(o) PROVE BatchTrees(o)'
<1>1. CASE acquire_batch(o)
  <2>1. PICK b \in Batches[o] : \E s \in normalize_requests(b) :
          batch' = [batch EXCEPT ![o] = s]
    BY <1>1 DEF acquire_batch
  <2>2. PICK s \in normalize_requests(b) : batch' = [batch EXCEPT ![o] = s]
    BY <2>1
  <2>3. \A i \in 1..Len(s) : s[i].kind = "Tree" => s[i].path \notin Files
    BY NormalizeType DEF TreesAreDirs
  <2> QED BY <2>2, <2>3 DEF BatchTrees, Types
<1>2. CASE ~acquire_batch(o)
  <2>1. UNCHANGED batch
    BY <1>2 DEF OwnerStep, AcquireStep, resolve, check, ensure_lock_dir, try_acquire_one, evict,
       try_create_token, reread, fill, verified, rollback_acquisitions, sweep, retry, timeout,
       refresh, refreshed, release, crash, Owns
  <2> QED BY <2>1 DEF BatchTrees
<1> QED BY <1>1, <1>2

\* Only crashed owners' tokens are judged stale.
LEMMA SeenStep ==
  ASSUME Types, NoneExpires(now), [Next]_vars, NEW o \in Owner, SeenIsDead(o), Shape(o)
  PROVE  SeenIsDead(o)'
<1>1. CASE Frame(o)
  <2> SUFFICES ASSUME pc'[o] \in {"evict", "sweep_remove"} PROVE pc'[seen'[o].owner] = "crashed"
    BY DEF SeenIsDead, Crashed
  <2>1. seen'[o] = seen[o] /\ seen[o] # None /\ Crashed(seen[o].owner)
    BY <1>1 DEF Frame, Shape, SeenIsDead
  <2>2. PICK w \in Owner : w = seen[o].owner
    BY <2>1 DEF Types, Token
  <2> QED BY <2>1, <2>2, CrashIsFinal DEF Crashed
<1>2. CASE try_acquire_one(o) \/ sweep(o)
  <2> SUFFICES ASSUME pc'[o] \in {"evict", "sweep_remove"} PROVE pc'[seen'[o].owner] = "crashed"
    BY DEF SeenIsDead, Crashed
  <2>1. /\ seen'[o] = tokens[target[o]] /\ target[o] \in LockPath
        /\ tokens[target[o]] # None /\ is_stale(tokens[target[o]], now)
    BY <1>2 DEF try_acquire_one, sweep, read_token, Fail, Goto, Types, Shape
  <2>2. PICK w \in Owner : w = tokens[target[o]].owner
    BY <2>1 DEF Types, Token
  <2>3. Crashed(w)
    BY <2>1, <2>2 DEF NoneExpires
  <2> QED BY <2>1, <2>2, <2>3, CrashIsFinal DEF Crashed
<1>3. CASE OwnerStep(o) /\ ~try_acquire_one(o) /\ ~sweep(o)
  <2>1. pc'[o] \notin {"evict", "sweep_remove"} \/ (pc'[o] = pc[o] /\ UNCHANGED seen)
    BY <1>3 DEF OwnerStep, AcquireStep, acquire_batch, resolve, check, ensure_lock_dir, evict,
       EvictFails, try_create_token, reread, fill, verified, rollback_acquisitions, retry,
       timeout, refresh, refreshed, release, crash, Fail, Goto, Acquired, Types, Owns
  <2>2. CASE pc'[o] \notin {"evict", "sweep_remove"}
    BY <2>2 DEF SeenIsDead
  <2>3. CASE pc'[o] \in {"evict", "sweep_remove"}
    <3>1. FALSE
      BY <1>3, <2>1, <2>3 DEF OwnerStep, AcquireStep, acquire_batch, resolve, check,
         ensure_lock_dir, evict, EvictFails, try_create_token, reread, fill, verified,
         rollback_acquisitions, retry, timeout, refresh, refreshed, release, crash, Fail, Goto,
         Acquired, Types, Owns
    <3> QED BY <3>1
  <2> QED BY <2>2, <2>3
<1>4. OwnerStep(o) \/ Frame(o)
  BY FrameOthers, FrameAll
<1> QED BY <1>1, <1>2, <1>3, <1>4

\* The lock files of a batch are those its requests may resolve to.
LEMMA ResolvedStep ==
  ASSUME TypeOK, NEW o \in Owner, BatchTrees(o), Resolved(o), OwnerStep(o) PROVE Resolved(o)'
<1>0. Types /\ Shape(o)
  BY DEF TypeOK
<1>1. CASE resolve(o)
  <2>1. at[o] \in 1..Len(batch[o]) /\ batch[o][at[o]] \in Request
    BY <1>0, <1>1 DEF resolve, Types, Shape
  <2>2. resolve_lock_path(batch[o][at[o]]) \in LockPathsOf(batch[o][at[o]])
    BY <1>0, <2>1 DEF resolve_lock_path, LockPathsOf, conflict_paths, BatchTrees, Types, Request
  <2> QED BY <1>0, <1>1, <2>2 DEF resolve, Resolved, Types
<1>2. CASE try_create_token(o)
  <2>1. CASE pc'[o] = "reread"
    BY <1>0, <1>2, <2>1 DEF try_create_token, Resolved, Types, Goto
  <2>2. CASE pc'[o] # "reread"
    <3>1. /\ acquired'[o] = Append(acquired[o], target[o]) /\ pc'[o] = "fill"
          /\ UNCHANGED batch
      BY <1>0, <1>2, <2>2 DEF try_create_token, Types, Goto
    <3>2. /\ target[o] # None /\ Len(acquired[o]) = at[o] - 1 /\ at[o] <= Len(batch[o])
          /\ target[o] \in LockPathsOf(batch[o][at[o]])
          /\ \A i \in 1..Len(acquired[o]) : acquired[o][i] \in LockPathsOf(batch[o][i])
          /\ acquired[o] \in Seq(LockPath) /\ target[o] \in LockPath /\ at[o] \in Nat
      BY <1>0, <1>2 DEF try_create_token, Types, Shape, Resolved
    <3>3. Len(acquired'[o]) = at[o]
      BY <3>1, <3>2
    <3>4. \A i \in 1..Len(acquired'[o]) : acquired'[o][i] \in LockPathsOf(batch[o][i])
      BY <3>1, <3>2, <3>3
    <3> QED BY <3>1, <3>2, <3>3, <3>4 DEF Resolved, LockPathsOf
  <2> QED BY <2>1, <2>2
<1>3. CASE rollback_acquisitions(o)
  <2>1. CASE acquired[o] = <<>>
    BY <1>0, <1>3, <2>1 DEF rollback_acquisitions, Goto, Types, Resolved
  <2>2. CASE acquired[o] # <<>>
    <3>1. /\ acquired'[o] = SubSeq(acquired[o], 1, Len(acquired[o]) - 1)
          /\ UNCHANGED <<batch, pc>> /\ pc[o] = "rollback" /\ acquired[o] \in Seq(LockPath)
      BY <1>0, <1>3, <2>2 DEF rollback_acquisitions, Types
    <3>2. /\ Len(acquired'[o]) = Len(acquired[o]) - 1
          /\ \A i \in 1..Len(acquired[o]) - 1 : acquired'[o][i] = acquired[o][i]
      BY <2>2, <3>1
    <3>3. /\ Len(acquired[o]) <= Len(batch[o]) /\ Len(acquired[o]) \in Nat /\ Len(batch[o]) \in Nat
          /\ \A i \in 1..Len(acquired[o]) : acquired[o][i] \in LockPathsOf(batch[o][i])
      BY <1>0, <3>1 DEF Resolved, Types
    <3>4. /\ Len(acquired'[o]) <= Len(batch'[o])
          /\ \A i \in 1..Len(acquired'[o]) : acquired'[o][i] \in LockPathsOf(batch'[o][i])
      BY <3>1, <3>2, <3>3
    <3>5. pc'[o] = "rollback"
      BY <3>1
    <3> QED BY <3>4, <3>5 DEF Resolved, LockPathsOf
  <2> QED BY <2>1, <2>2
<1>4. CASE acquire_batch(o) \/ retry(o)
  <2>1. acquired'[o] = <<>> /\ target'[o] = None
    BY <1>0, <1>4 DEF acquire_batch, retry, Shape, Types
  <2>2. Len(acquired'[o]) = 0
    BY <2>1
  <2>3. batch' \in [Owner -> Seq(Request)]
    BY <1>4, TypeStep DEF TypeOK, Types, Next, OwnerStep
  <2>4. Len(batch'[o]) \in Nat
    BY <2>3
  <2> QED BY <2>1, <2>2, <2>4 DEF Resolved
<1>5. CASE release(o) \/ sweep(o) \/ timeout(o) \/ crash(o)
  BY <1>0, <1>5 DEF release, sweep, timeout, crash, Goto, Types, Resolved, Owns
<1>6. CASE verified(o) \/ refresh(o) \/ refreshed(o)
  BY <1>0, <1>6 DEF verified, refresh, refreshed, Goto, Types, Resolved, Owns
<1>7. CASE check(o)
  <2>1. /\ pc'[o] = "rollback" \/ (pc'[o] = pc[o] /\ target' = target)
        /\ UNCHANGED <<batch, acquired, at>>
    BY <1>0, <1>7 DEF check, Fail, Goto, Types
  <2> QED BY <1>7, <2>1 DEF check, Resolved
<1>8. CASE ensure_lock_dir(o)
  <2>1. /\ pc'[o] = "rollback" \/ (pc'[o] = "take" /\ target' = target)
        /\ UNCHANGED <<batch, acquired, at>>
    BY <1>0, <1>8 DEF ensure_lock_dir, Fail, Goto, Types
  <2> QED BY <1>8, <2>1 DEF ensure_lock_dir, Resolved
<1>9. CASE try_acquire_one(o)
  <2>1. /\ pc'[o] = "rollback" \/ (pc'[o] \in {"create", "evict"} /\ target' = target)
        /\ UNCHANGED <<batch, acquired, at>>
    BY <1>0, <1>9 DEF try_acquire_one, Fail, Goto, Types
  <2> QED BY <1>9, <2>1 DEF try_acquire_one, Resolved
<1>10. CASE evict(o)
  <2>1. /\ UNCHANGED <<batch, acquired, at>>
        /\ \/ pc'[o] \in {"failed", "backoff"}
           \/ pc'[o] = "rollback" /\ pc[o] = "evict"
           \/ pc'[o] = "create" /\ pc[o] = "evict" /\ UNCHANGED target
    BY <1>0, <1>10 DEF evict, EvictFails, Fail, Goto, Types
  <2> QED BY <1>10, <2>1 DEF evict, Resolved
<1>11. CASE reread(o)
  BY <1>0, <1>11 DEF reread, Fail, Goto, Types, Resolved
<1>12. CASE fill(o)
  <2>1. pc[o] = "fill" /\ target'[o] = None /\ UNCHANGED <<batch, acquired>>
    BY <1>0, <1>12 DEF fill, Acquired, Types, Owns
  <2> QED BY <2>1 DEF Resolved
<1> QED BY <1>1, <1>2, <1>3, <1>4, <1>5, <1>6, <1>7, <1>8, <1>9, <1>10, <1>11, <1>12
           DEF OwnerStep, AcquireStep

\* An owner that runs keeps its tokens.
LEMMA BackedStep ==
  ASSUME TypeOK, NEW o \in Owner, Backed(o), SeenIsDead(o), OwnerStep(o) PROVE Backed(o)'
<1>0. Types /\ Shape(o)
  BY DEF TypeOK
<1>b. CASE rollback_acquisitions(o) /\ acquired[o] = <<>>
  <2>1. acquired'[o] = <<>>
    BY <1>b DEF rollback_acquisitions
  <2>2. Len(acquired'[o]) = 0
    BY <2>1
  <2> QED BY <2>2 DEF Backed
<1> SUFFICES ASSUME o \notin swept, ~(rollback_acquisitions(o) /\ acquired[o] = <<>>)
             PROVE  Backed(o)'
  BY <1>b, SweptStep DEF Backed
<1>a. ~Crashed(o) => \A i \in 1..Len(acquired[o]) :
        /\ acquired[o][i] \in LockPath
        /\ tokens[acquired[o][i]] \in Token
        /\ tokens[acquired[o][i]].owner = o
        /\ \A j \in 1..Len(acquired[o]) : acquired[o][i] = acquired[o][j] => i = j
  BY <1>0 DEF Backed, Types
<1>1. CASE try_create_token(o)
  <2>1. CASE pc'[o] = "reread"
    <3>1. UNCHANGED <<tokens, acquired, batch>> /\ pc[o] = "create"
      BY <1>0, <1>1, <2>1 DEF try_create_token, Types, Goto
    <3> QED BY <2>1, <3>1 DEF Backed, Crashed
  <2>2. CASE pc'[o] # "reread"
    <3>1. /\ acquired'[o] = Append(acquired[o], target[o]) /\ UNCHANGED batch
          /\ tokens[target[o]] = None
          /\ tokens' = [tokens EXCEPT ![target[o]] =
                            [owner |-> o, time |-> asof[o], kind |-> batch[o][at[o]].kind]]
      BY <1>0, <1>1, <2>2 DEF try_create_token, Begin, Types, Goto
    <3>2. /\ target[o] \in LockPath /\ acquired[o] \in Seq(LockPath)
          /\ Len(acquired[o]) = at[o] - 1 /\ at[o] \in Nat \ {0} /\ pc[o] = "create"
      BY <1>0, <1>1 DEF try_create_token, Types, Shape
    <3>3. \A i \in 1..Len(acquired[o]) :
            /\ acquired[o][i] \in LockPath
            /\ tokens[acquired[o][i]] # None
            /\ tokens[acquired[o][i]].owner = o
            /\ tokens[acquired[o][i]].kind = batch[o][i].kind
            /\ \A j \in 1..Len(acquired[o]) : acquired[o][i] = acquired[o][j] => i = j
      BY <3>2 DEF Backed, Crashed
    <3>4. /\ Len(acquired'[o]) = at[o] /\ acquired'[o][at[o]] = target[o]
          /\ \A i \in 1..at[o] - 1 : acquired'[o][i] = acquired[o][i]
      BY <3>1, <3>2
    <3>5. \A i \in 1..at[o] - 1 : acquired'[o][i] # target[o]
                                /\ tokens'[acquired'[o][i]] = tokens[acquired[o][i]]
      <4> SUFFICES ASSUME NEW i \in 1..at[o] - 1
                   PROVE  acquired'[o][i] # target[o]
                            /\ tokens'[acquired'[o][i]] = tokens[acquired[o][i]]
        OBVIOUS
      <4>1. acquired'[o][i] = acquired[o][i] /\ acquired[o][i] \in LockPath
                /\ tokens[acquired[o][i]] # None
        BY <3>2, <3>3, <3>4
      <4>2. tokens \in [LockPath -> Token \union {None}]
        BY <1>0 DEF Types
      <4> QED BY <3>1, <4>1, <4>2
    <3>6. tokens'[target[o]] = [owner |-> o, time |-> asof[o], kind |-> batch[o][at[o]].kind]
      BY <1>0, <3>1, <3>2 DEF Types
    <3>7. tokens'[target[o]] # None
      <4>1. at[o] \in 1..Len(batch[o]) /\ batch[o] \in Seq(Request)
        BY <1>0, <1>1 DEF Types, Shape, try_create_token
      <4>4. batch[o][at[o]] \in Request
        BY <4>1
      <4>2. batch[o][at[o]].kind \in Kinds
        BY <4>4 DEF Request
      <4>3. tokens'[target[o]] \in Token
        BY <1>0, <3>6, <4>2 DEF Types, Token
      <4> QED BY <4>3, NoneAssumption
    <3>8. ASSUME NEW i \in 1..Len(acquired'[o])
          PROVE  /\ tokens'[acquired'[o][i]] # None
                 /\ tokens'[acquired'[o][i]].owner = o
                 /\ tokens'[acquired'[o][i]].kind = batch'[o][i].kind
                 /\ \A j \in 1..Len(acquired'[o]) : acquired'[o][i] = acquired'[o][j] => i = j
      <4>1. CASE i = at[o]
        BY <3>1, <3>2, <3>4, <3>5, <3>6, <3>7, <4>1
      <4>2. CASE i # at[o]
        BY <3>1, <3>2, <3>3, <3>4, <3>5, <4>2
      <4> QED BY <4>1, <4>2
    <3> QED BY <3>8 DEF Backed
  <2> QED BY <2>1, <2>2
<1>2. CASE rollback_acquisitions(o) /\ acquired[o] # <<>>
  <2>1. /\ acquired'[o] = SubSeq(acquired[o], 1, Len(acquired[o]) - 1)
        /\ UNCHANGED <<batch, pc>> /\ pc[o] = "rollback" /\ acquired[o] \in Seq(LockPath)
        /\ Unlock(o, acquired[o][Len(acquired[o])])
    BY <1>0, <1>2 DEF rollback_acquisitions, Types
  <2>2. /\ Len(acquired[o]) \in Nat /\ Len(acquired'[o]) = Len(acquired[o]) - 1
        /\ \A i \in 1..Len(acquired[o]) - 1 : acquired'[o][i] = acquired[o][i]
    BY <1>2, <2>1
  <2>3. \A i \in 1..Len(acquired[o]) - 1 : tokens'[acquired[o][i]] = tokens[acquired[o][i]]
    <3>1. \A i \in 1..Len(acquired[o]) - 1 : acquired[o][i] # acquired[o][Len(acquired[o])]
      BY <1>2, <1>a, <2>1, <2>2 DEF Crashed
    <3>2. \A i \in 1..Len(acquired[o]) - 1 : acquired[o][i] \in LockPath
      BY <2>1, <2>2
    <3>3. tokens' = tokens \/ tokens' = [tokens EXCEPT ![acquired[o][Len(acquired[o])]] = None]
      BY <2>1 DEF Unlock, Owns
    <3>4. tokens \in [LockPath -> Token \union {None}]
      BY <1>0 DEF Types
    <3> QED BY <3>1, <3>2, <3>3, <3>4
  <2>4. \A i \in 1..Len(acquired'[o]) :
            /\ tokens'[acquired'[o][i]] # None
            /\ tokens'[acquired'[o][i]].owner = o
            /\ tokens'[acquired'[o][i]].kind = batch'[o][i].kind
    BY <2>1, <2>2, <2>3 DEF Backed, Crashed
  <2>5. \A i, j \in 1..Len(acquired'[o]) : acquired'[o][i] = acquired'[o][j] => i = j
    BY <1>a, <2>1, <2>2 DEF Crashed
  <2> QED BY <2>4, <2>5 DEF Backed
<1>3. CASE release(o)
  <2>1. /\ acquired'[o] = Tail(acquired[o]) /\ acquired[o] \in Seq(LockPath)
        /\ acquired[o] # <<>> /\ UNCHANGED batch /\ Unlock(o, acquired[o][1])
        /\ pc[o] \in {"held", "release"}
        /\ pc'[o] = IF Len(acquired[o]) = 1 THEN "done" ELSE "release"
    BY <1>0, <1>3 DEF release, Types, Goto, Owns
  <2>2. /\ Len(acquired[o]) \in Nat /\ Len(acquired'[o]) = Len(acquired[o]) - 1
        /\ \A i \in 1..Len(acquired[o]) - 1 : acquired'[o][i] = acquired[o][i + 1]
    BY <2>1
  <2>3. \A i \in 2..Len(acquired[o]) : tokens'[acquired[o][i]] = tokens[acquired[o][i]]
    <3>1. \A i \in 2..Len(acquired[o]) : acquired[o][i] # acquired[o][1]
      <4>1. 1 \in 1..Len(acquired[o]) /\ ~Crashed(o)
        BY <2>1, <2>2 DEF Crashed
      <4>2. \A i \in 2..Len(acquired[o]) : i \in 1..Len(acquired[o]) /\ i # 1
        BY <2>2
      <4> QED BY <1>a, <4>1, <4>2
    <3> QED BY <1>0, <2>1, <2>2, <3>1 DEF Unlock, Types, Owns
  <2>6. \A i \in 1..Len(acquired'[o]) :
            /\ i + 1 \in 2..Len(acquired[o])
            /\ tokens'[acquired'[o][i]] = tokens[acquired[o][i + 1]]
    BY <2>2, <2>3
  <2>7. \A i, j \in 1..Len(acquired'[o]) : acquired'[o][i] = acquired'[o][j] => i = j
    <3> SUFFICES ASSUME NEW i \in 1..Len(acquired'[o]), NEW j \in 1..Len(acquired'[o]),
                        acquired'[o][i] = acquired'[o][j]
                 PROVE  i = j
      OBVIOUS
    <3>1. i + 1 = j + 1
      BY <1>a, <2>1, <2>2, <2>6 DEF Crashed
    <3> QED BY <2>2, <3>1
  <2>4. \A i \in 1..Len(acquired'[o]) :
            /\ tokens'[acquired'[o][i]] # None
            /\ tokens'[acquired'[o][i]].owner = o
            /\ \A j \in 1..Len(acquired'[o]) : acquired'[o][i] = acquired'[o][j] => i = j
    BY <1>a, <2>1, <2>2, <2>6, <2>7, NoneAssumption DEF Crashed
  <2>5. Len(acquired[o]) = 1 => Len(acquired'[o]) = 0
    BY <2>2
  <2> QED BY <2>1, <2>4, <2>5 DEF Backed
<1>4. CASE refresh(o)
  <2>1. PICK i \in 1..Len(acquired[o]) : tokens' = [tokens EXCEPT ![acquired[o][i]] =
                                                [tokens[acquired[o][i]] EXCEPT !.time = now]]
    BY <1>4 DEF refresh, Begin, Owns
  <2>2. UNCHANGED <<pc, batch, acquired>> /\ pc[o] = "held" /\ now \in Nat
    BY <1>0, <1>4 DEF refresh, Types, Owns
  <2>3. ASSUME NEW k \in 1..Len(acquired[o])
        PROVE  /\ tokens'[acquired[o][k]] # None
               /\ tokens'[acquired[o][k]].owner = o
               /\ tokens'[acquired[o][k]].kind = tokens[acquired[o][k]].kind
    <3>1. acquired[o][k] \in LockPath /\ tokens[acquired[o][k]] \in Token
            /\ tokens[acquired[o][k]].owner = o
      BY <1>a, <2>2 DEF Crashed
    <3>2. \/ tokens'[acquired[o][k]] = tokens[acquired[o][k]]
          \/ tokens'[acquired[o][k]] = [tokens[acquired[o][k]] EXCEPT !.time = now]
      BY <1>0, <2>1, <3>1 DEF Types
    <3>3. [tokens[acquired[o][k]] EXCEPT !.time = now] \in Token
      BY <2>2, <3>1 DEF Token
    <3> QED BY <3>1, <3>2, <3>3, NoneAssumption DEF Token
  <2> QED BY <2>2, <2>3 DEF Backed, Crashed
<1>5. CASE evict(o)
  <2>1. seen[o] # None /\ Crashed(seen[o].owner) /\ ~Crashed(o)
    <3>1. pc[o] \in {"evict", "sweep_remove"}
      BY <1>5 DEF evict
    <3> QED BY <1>0, <3>1 DEF SeenIsDead, Crashed, Shape
  <2>2. /\ UNCHANGED <<batch, acquired>> /\ pc[o] # "release"
        /\ pc'[o] \in {"create", "backoff", "rollback", "failed"}
    BY <1>0, <1>5 DEF evict, EvictFails, Fail, Goto, Types
  <2>3. \A i \in 1..Len(acquired[o]) : tokens'[acquired[o][i]] = tokens[acquired[o][i]]
    BY <1>0, <1>5, <1>a, <2>1 DEF evict, EvictFails, remove_token, Types, Crashed
  <2> QED BY <2>1, <2>2, <2>3 DEF Backed, Crashed
<1>6. CASE UNCHANGED tokens /\ acquired'[o] = acquired[o] /\ batch'[o] = batch[o]
            /\ pc[o] # "release" /\ ~Crashed(o)
  BY <1>6 DEF Backed, Crashed
<1>7. CASE acquire_batch(o)
  <2>1. acquired'[o] = <<>>
    BY <1>0, <1>7 DEF acquire_batch, Shape
  <2>2. Len(acquired'[o]) = 0
    BY <2>1
  <2> QED BY <2>2 DEF Backed
<1>8. CASE crash(o)
  BY <1>0, <1>8 DEF crash, Goto, Types, Backed, Crashed
<1>9. CASE \/ resolve(o) \/ check(o) \/ ensure_lock_dir(o) \/ try_acquire_one(o) \/ reread(o)
           \/ fill(o) \/ verified(o) \/ sweep(o) \/ retry(o) \/ timeout(o) \/ refreshed(o)
  BY <1>6, <1>9 DEF Crashed, resolve, check, ensure_lock_dir, try_acquire_one, reread, fill,
     verified, sweep, retry, timeout, refreshed, Owns
<1> QED BY <1>1, <1>2, <1>3, <1>4, <1>5, <1>7, <1>8, <1>9 DEF OwnerStep, AcquireStep

\* The heart of the argument: whoever writes its token later looks later, and
\* then finds the other's token.
LEMMA OneClearsStep ==
  ASSUME AtomicWrites, IInv, NEW o \in Owner \ swept, NEW p \in Owner \ swept, o # p,
         OwnerStep(o)
  PROVE  OneClears(o, p)'
<1>0. /\ Types /\ Shape(o) /\ Shape(p) /\ NoneExpires(now) /\ blank = {}
      /\ Resolved(o) /\ Resolved(p) /\ Backed(p) /\ OneClears(o, p)
  BY DEF IInv, TypeOK
<1> SUFFICES ASSUME NEW i \in 1..Len(acquired'[o]), NEW j \in 1..Len(acquired'[p]),
                    Conflicting(batch'[o][i], batch'[p][j]),
                    Cleared(o, i, acquired[p][j], batch[p][j].kind)',
                    Cleared(p, j, acquired[o][i], batch[o][i].kind)'
             PROVE  FALSE
  BY DEF OneClears
<1>1. Frame(p)
  BY <1>0, FrameOthers
<1>2. /\ pc'[o] \in {"verify", "held"} /\ pc[p] \in {"verify", "held"}
      /\ j \in 1..Len(acquired[p])
      /\ acquired'[p] = acquired[p] /\ batch'[p] = batch[p]
  BY <1>1 DEF Cleared, Frame
<1>3. /\ acquired[p][j] \in LockPath /\ tokens[acquired[p][j]] # None
      /\ tokens[acquired[p][j]].owner = p
      /\ tokens[acquired[p][j]].kind = batch[p][j].kind
      /\ acquired[p][j] \in LockPathsOf(batch[p][j])
      /\ batch[p][j] \in Request
      /\ ~Crashed(p)
  <2>1. ~Crashed(p) /\ pc[p] # "release"
    BY <1>2 DEF Crashed
  <2>2. acquired[p] \in Seq(LockPath) /\ batch[p] \in Seq(Request)
    BY <1>0 DEF Types
  <2>3. Len(acquired[p]) = Len(batch[p])
    BY <1>0, <1>2 DEF Shape
  <2> QED BY <1>0, <1>2, <2>1, <2>2, <2>3 DEF Backed, Resolved
<1>4. ~is_stale(tokens[acquired[p][j]], now)
  BY <1>0, <1>3 DEF NoneExpires
<1>5. \A q \in Request : Conflicting(q, batch[p][j]) =>
         \E item \in Checks(q) : item.lp = acquired[p][j] /\ Counts(item, batch[p][j].kind)
  <2>1. PICK l : l = acquired[p][j]
    OBVIOUS
  <2>2. PICK r \in Request : r = batch[p][j]
    BY <1>3
  <2> QED BY <1>3, <2>1, <2>2, CheckSets
<1>6. ASSUME acquired'[o] = acquired[o], batch'[o] = batch[o],
             Cleared(o, i, acquired[p][j], batch[p][j].kind)
      PROVE  FALSE
  <2>1. Cleared(p, j, acquired[o][i], batch[o][i].kind)
    BY <1>1, <1>6 DEF Cleared, Frame
  <2> QED BY <1>0, <1>2, <1>6, <2>1 DEF OneClears
<1>7. CASE check(o)
  <2>1. PICK item \in todo[o] :
          IF Blocks(o, item)
          THEN Fail(o, item.lp, IF pc[o] = "check" THEN "sweep" ELSE "backoff")
          ELSE todo' = [todo EXCEPT ![o] = @ \ {item}] /\ UNCHANGED <<pc, target, after>>
    BY <1>7 DEF check
  <2>2. ~Blocks(o, item) /\ todo'[o] = todo[o] \ {item} /\ UNCHANGED pc
    BY <1>0, <1>2, <2>1 DEF Fail, Goto, Types
  <2>3. UNCHANGED <<acquired, batch, at>> /\ pc[o] = "verify"
    BY <1>2, <1>7, <2>2 DEF check
  <2>4. CASE item.lp = acquired[p][j] /\ Counts(item, batch[p][j].kind)
    BY <1>0, <1>3, <1>4, <2>2, <2>4 DEF Blocks, read_token
  <2>5. CASE ~(item.lp = acquired[p][j] /\ Counts(item, batch[p][j].kind))
    <3>1. Cleared(o, i, acquired[p][j], batch[p][j].kind)
      BY <1>2, <2>2, <2>3, <2>5 DEF Cleared, Counts
    <3> QED BY <1>6, <2>3, <3>1
  <2> QED BY <2>4, <2>5
<1>8. CASE verified(o)
  <2>1. /\ UNCHANGED <<acquired, batch>> /\ pc[o] = "verify" /\ todo[o] = {}
        /\ at[o] \in Nat /\ at[o] <= Len(batch[o]) /\ Len(acquired[o]) = Len(batch[o])
        /\ i \in 1..Len(batch[o]) /\ batch[o] \in Seq(Request) /\ Len(batch[o]) \in Nat
    BY <1>0, <1>8 DEF verified, Types, Shape
  <2>2. CASE i <= at[o]
    <3>1. Cleared(o, i, acquired[p][j], batch[p][j].kind)
      BY <2>1, <2>2 DEF Cleared
    <3> QED BY <1>6, <2>1, <3>1
  <2>3. CASE ~(i <= at[o])
    <3>1. /\ at[o] < Len(batch[o]) /\ at'[o] = at[o] + 1
          /\ todo'[o] = Checks(batch[o][at[o] + 1]) /\ pc'[o] = "verify"
      BY <1>0, <1>8, <2>1, <2>3 DEF verified, Pass, Types
    <3>2. i = at'[o]
      BY <2>1, <2>3, <3>1 DEF Cleared
    <3>3. \A item \in Checks(batch[o][i]) :
             ~(item.lp = acquired[p][j] /\ Counts(item, batch[p][j].kind))
      BY <1>2, <2>1, <3>1, <3>2 DEF Cleared, Counts
    <3>4. batch[o][i] \in Request /\ Conflicting(batch[o][i], batch[p][j])
      BY <1>2, <2>1
    <3> QED BY <1>5, <3>3, <3>4
  <2> QED BY <2>2, <2>3
<1>9. CASE fill(o)
  <2>1. /\ at'[o] = 1 /\ todo'[o] = Checks(batch[o][1]) /\ pc'[o] = "verify" /\ UNCHANGED batch
    BY <1>0, <1>2, <1>9 DEF fill, Goto, Acquired, Pass, Types, Owns
  <2>2. i = 1
    BY <2>1 DEF Cleared
  <2>3. \A item \in Checks(batch[o][1]) :
           ~(item.lp = acquired[p][j] /\ Counts(item, batch[p][j].kind))
    BY <1>2, <2>1, <2>2 DEF Cleared, Counts
  <2>4. batch[o] \in Seq(Request) /\ Len(batch[o]) > 0
    BY <1>0, <1>9 DEF fill, Types, Shape, Owns
  <2>5. batch[o][1] \in Request /\ Conflicting(batch[o][1], batch[p][j])
    BY <1>2, <2>1, <2>2, <2>4
  <2> QED BY <1>5, <2>3, <2>5
<1>10. CASE refresh(o) \/ refreshed(o)
  <2>1. UNCHANGED <<pc, batch, acquired, at, todo>>
    BY <1>10 DEF refresh, refreshed, Owns
  <2>2. Cleared(o, i, acquired[p][j], batch[p][j].kind)
    BY <1>2, <2>1 DEF Cleared, Counts
  <2> QED BY <1>6, <2>1, <2>2
<1> QED BY <1>0, <1>2, <1>7, <1>8, <1>9, <1>10 DEF OwnerStep, AcquireStep, acquire_batch, resolve,
           ensure_lock_dir, try_acquire_one, evict, EvictFails, try_create_token, reread,
           rollback_acquisitions, sweep, retry, timeout, release, crash, Fail, Goto, Types, Owns

\* Being past each other's tokens does not depend on who is named first.
LEMMA OneClearsSymmetric ==
  ASSUME NEW o \in Owner, NEW p \in Owner, OneClears(o, p)' PROVE OneClears(p, o)'
  BY DEF OneClears, Conflicting

\* A file that readers find empty is one that an owner has not finished writing.
LEMMA BlankStep == ASSUME Types, AtomicWrites, blank = {}, [Next]_vars PROVE blank' = {}
<1>1. ASSUME NEW o \in Owner, OwnerStep(o) PROVE blank' = {}
  BY <1>1 DEF OwnerStep, AcquireStep, acquire_batch, resolve, check, ensure_lock_dir,
     try_acquire_one, evict, try_create_token, Begin, reread, fill, verified,
     rollback_acquisitions, sweep, retry, timeout, refresh, refreshed, release, crash, Owns
<1>2. CASE ~\E o \in Owner : OwnerStep(o)
  BY <1>2, FrameAll
<1> QED BY <1>1, <1>2

\* The invariant holds at first.
LEMMA IInvInit == ASSUME Init PROVE IInv
<1>1. Types
  BY ConstantsAssumption DEF Init, Types, Labels, FileTrees, Check
<1>2. \A o \in Owner : acquired[o] = <<>> /\ pc[o] = "idle" /\ target[o] = None /\ batch[o] = <<>>
  BY DEF Init
<1>3. Len(<<>>) = 0
  OBVIOUS
<1>4. TypeOK
  BY <1>1, <1>2 DEF TypeOK, Shape
<1>5. NoneExpires(now)
  BY <1>2 DEF NoneExpires, Init
<1>6. ASSUME NEW o \in Owner PROVE BatchTrees(o) /\ Resolved(o) /\ SeenIsDead(o) /\ Backed(o)
  <2>1. 1..Len(acquired[o]) = {} /\ 1..Len(batch[o]) = {}
    BY <1>2, <1>3
  <2> QED BY <1>2, <2>1 DEF BatchTrees, Resolved, SeenIsDead, Backed
<1>8. blank = {}
  BY DEF Init
<1>7. ASSUME NEW o \in Owner, NEW p \in Owner PROVE OneClears(o, p)
  <2>1. 1..Len(acquired[o]) = {}
    BY <1>2, <1>3
  <2> QED BY <2>1 DEF OneClears
<1> QED BY <1>4, <1>5, <1>6, <1>7, <1>8 DEF IInv

\* Every step keeps the invariant.
LEMMA IInvStep == ASSUME Timely, TreesAreDirs, IInv, [Next]_vars PROVE IInv'
<1>0. TypeOK /\ Types
  BY DEF IInv, TypeOK
<1>1. TypeOK'
  BY <1>0, TypeStep
<1>2. NoneExpires(now)'
  BY <1>0, FreshStep DEF IInv
<1>3. ASSUME NEW o \in Owner PROVE BatchTrees(o)' /\ Resolved(o)' /\ SeenIsDead(o)' /\ Backed(o)'
  <2>0. Shape(o) /\ BatchTrees(o) /\ Resolved(o) /\ SeenIsDead(o) /\ Backed(o)
    BY DEF IInv, TypeOK
  <2>1. SeenIsDead(o)'
    BY <1>0, <2>0, SeenStep DEF IInv
  <2>2. CASE OwnerStep(o)
    BY <1>0, <2>0, <2>1, <2>2, BatchTreesStep, ResolvedStep, BackedStep
  <2>3. CASE ~OwnerStep(o)
    <3>1. Frame(o)
      BY <1>0, <2>3, FrameOthers, FrameAll
    <3>2. BatchTrees(o)' /\ Resolved(o)'
      BY <2>0, <3>1 DEF Frame, BatchTrees, Resolved
    <3>0. o \notin swept' => o \notin swept
      BY <1>0, <2>3, SweptStep, FrameAll
    <3>3. ~Crashed(o) /\ o \notin swept' => \A i \in 1..Len(acquired[o]) :
            tokens'[acquired[o][i]] = tokens[acquired[o][i]]
      <4> SUFFICES ASSUME ~Crashed(o), o \notin swept', NEW i \in 1..Len(acquired[o])
                   PROVE  tokens'[acquired[o][i]] = tokens[acquired[o][i]]
        OBVIOUS
      <4>0. o \notin swept
        BY <3>0
      <4>1. CASE \E p \in Owner : OwnerStep(p)
        <5>1. PICK p \in Owner : OwnerStep(p) /\ p # o
          BY <2>3, <4>1
        <5>2. Shape(p) /\ SeenIsDead(p)
          BY DEF IInv, TypeOK
        <5>3. PICK l \in LockPath : l = acquired[o][i]
          BY <1>0 DEF Types
        <5>4. tokens[l] # None /\ tokens[l].owner = o
          BY <2>0, <4>0, <5>3 DEF Backed
        <5> QED BY <1>0, <5>1, <5>2, <5>3, <5>4, TokensKept
      <4>2. CASE ~\E p \in Owner : OwnerStep(p)
        <5>1. acquired[o][i] \in LockPath /\ tokens[acquired[o][i]].owner = o
          BY <1>0, <2>0, <4>0 DEF Backed, Types
        <5> QED BY <1>0, <4>2, <5>1, FrameAll
      <4> QED BY <4>1, <4>2
    <3>4. Backed(o)'
      BY <2>0, <3>0, <3>1, <3>3 DEF Backed, Frame, Crashed
    <3> QED BY <2>1, <3>2, <3>4
  <2> QED BY <2>2, <2>3
<1>6. ASSUME NEW o \in Owner, o \in swept, o \notin swept'
      PROVE  Len(acquired'[o]) = 0
  <2>1. PICK w \in Owner : OwnerStep(w)
    BY <1>0, <1>6, FrameAll
  <2>2. rollback_acquisitions(w) /\ acquired[w] = <<>> /\ w = o
    BY <1>6, <2>1, SweptStep
  <2>3. acquired'[o] = <<>>
    BY <2>2 DEF rollback_acquisitions
  <2> QED BY <2>3
<1>4. ASSUME AtomicWrites, NEW o \in Owner \ swept', NEW p \in Owner \ swept', o # p
      PROVE  OneClears(o, p)'
  <2>0. CASE o \in swept \/ p \in swept
    BY <1>4, <1>6, <2>0 DEF OneClears
  <2>1. CASE o \notin swept /\ p \notin swept /\ OwnerStep(o)
    BY <1>4, <2>1, OneClearsStep
  <2>2. CASE o \notin swept /\ p \notin swept /\ OwnerStep(p)
    BY <1>4, <2>2, OneClearsStep, OneClearsSymmetric
  <2>3. CASE o \notin swept /\ p \notin swept /\ ~OwnerStep(o) /\ ~OwnerStep(p)
    <3>1. Frame(o) /\ Frame(p)
      BY <1>0, <2>3, FrameOthers, FrameAll
    <3>2. OneClears(o, p)
      BY <1>4, <2>3 DEF IInv
    <3> QED BY <3>1, <3>2 DEF OneClears, Cleared, Frame, Counts
  <2> QED BY <2>0, <2>1, <2>2, <2>3
<1>5. AtomicWrites => blank' = {}
  BY <1>0, BlankStep DEF IInv
<1> QED BY <1>1, <1>2, <1>3, <1>4, <1>5 DEF IInv

\* The inductive invariant holds throughout.
THEOREM Invariance == ASSUME Timely, TreesAreDirs PROVE Spec => []IInv
  BY IInvInit, IInvStep, PTL DEF Spec

\* Mutual exclusion of conflicting leases (acquire_batch, release, eviction of
\* crashed owners' tokens) that lost no token to a recursive delete (remove_all),
\* for any owners, paths and batches, provided that an
\* owner that runs is never stalled past lock_expire_secs, that no Tree lock is
\* asked for on what may be a regular file, and that readers never find a file
\* half written.
THEOREM PathLocksExclude == ASSUME Timely, TreesAreDirs, AtomicWrites PROVE Spec => []Exclusion
<1>1. ASSUME IInv PROVE Exclusion
  <2> SUFFICES ASSUME NEW o \in Owner \ swept, NEW p \in Owner \ swept, o # p,
                      pc[o] = "held", pc[p] = "held",
                      NEW i \in 1..Len(batch[o]), NEW j \in 1..Len(batch[p]),
                      Conflicting(batch[o][i], batch[p][j])
               PROVE  FALSE
    BY DEF Exclusion
  <2>1. OneClears(o, p) /\ Len(acquired[o]) = Len(batch[o]) /\ Len(acquired[p]) = Len(batch[p])
    BY <1>1 DEF IInv, TypeOK, Shape
  <2> QED BY <2>1 DEF OneClears, Cleared
<1> QED BY <1>1, Invariance, PTL

\* Under the first two conditions a lease is backed by its tokens while it is held
\* and no recursive delete took one of them, on localfs too: release, refresh and
\* eviction never take another's.
THEOREM LeasesAreBacked == ASSUME Timely, TreesAreDirs PROVE Spec => []HeldTokens
<1>1. ASSUME IInv PROVE HeldTokens
  <2> SUFFICES ASSUME NEW o \in Owner \ swept, pc[o] = "held", NEW i \in 1..Len(batch[o])
               PROVE  /\ tokens[acquired[o][i]] # None
                      /\ tokens[acquired[o][i]].owner = o
                      /\ tokens[acquired[o][i]].kind = batch[o][i].kind
    BY DEF HeldTokens
  <2>1. Backed(o) /\ Len(acquired[o]) = Len(batch[o])
    BY <1>1 DEF IInv, TypeOK, Shape
  <2> QED BY <2>1 DEF Backed, Crashed
<1> QED BY <1>1, Invariance, PTL

-----------------------------------------------------------------------------
\* A token stays with the list of its owner until it is removed.
LEMMA LeftoversStep == ASSUME TypeOK, NoLeftovers, [Next]_vars PROVE NoLeftovers'
<1>0. Types
  BY DEF TypeOK
<1> SUFFICES ASSUME NEW l \in LockPath, tokens'[l] # None, pc'[tokens'[l].owner] # "crashed"
             PROVE  \E i \in 1..Len(acquired'[tokens'[l].owner]) :
                        acquired'[tokens'[l].owner][i] = l
  BY DEF NoLeftovers, Crashed
<1>1. PICK w \in Owner : w = tokens'[l].owner
  BY TypeStep DEF TypeOK, Types, Token
<1>2. ~Crashed(w)
  BY <1>0, <1>1, CrashIsFinal DEF Crashed
<1>3. ASSUME tokens[l] # None, tokens[l].owner = w
      PROVE  \E i \in 1..Len(acquired[w]) : acquired[w][i] = l
  BY <1>2, <1>3 DEF NoLeftovers
<1>4. CASE ~\E o \in Owner : OwnerStep(o)
  <2>1. Frame(w) /\ tokens'[l] = tokens[l]
    BY <1>0, <1>4, FrameAll
  <2> QED BY <1>1, <1>3, <2>1 DEF Frame
<1>5. CASE \E o \in Owner : OwnerStep(o)
  <2>1. PICK o \in Owner : OwnerStep(o)
    BY <1>5
  <2>2. \/ tokens[l] # None /\ tokens[l].owner = w
        \/ try_create_token(o) /\ l = target[o] /\ acquired'[o] = Append(acquired[o], l) /\ w = o
    <3>1. CASE tokens'[l] = tokens[l]
      BY <1>1, <3>1
    <3>2. CASE try_create_token(o) /\ tokens'[l] # tokens[l]
      BY <1>0, <1>1, <3>2 DEF try_create_token, Begin, Types
    <3>3. CASE refresh(o) /\ tokens'[l] # tokens[l]
      <4>0. PICK i \in 1..Len(acquired[o]) :
                /\ Owns(o, acquired[o][i])
                /\ tokens' = [tokens EXCEPT ![acquired[o][i]] =
                                [tokens[acquired[o][i]] EXCEPT !.time = now]]
        BY <3>3 DEF refresh, Begin
      <4>1. tokens[l] # None /\ tokens[l] \in Token /\ tokens'[l] = [tokens[l] EXCEPT !.time = now]
        BY <1>0, <3>3, <4>0 DEF Types, Owns
      <4> QED BY <1>1, <4>1 DEF Token
    <3> QED BY <2>1, <3>1, <3>2, <3>3, <1>0 DEF OwnerStep, AcquireStep, acquire_batch, resolve,
               check, ensure_lock_dir, try_acquire_one, evict, EvictFails, remove_token, reread,
               fill, verified, rollback_acquisitions, Unlock, sweep, retry, timeout, refreshed,
               release, crash, Types, Owns
  <2>3. CASE w # o
    BY <1>0, <1>1, <1>3, <2>1, <2>2, <2>3, FrameOthers DEF Frame
  <2>4. CASE w = o
    <3>0. acquired[o] \in Seq(LockPath) /\ Len(acquired[o]) \in Nat /\ Shape(o)
      BY <1>0 DEF Types, TypeOK
    <3>1. CASE try_create_token(o) /\ l = target[o] /\ acquired'[o] = Append(acquired[o], l)
      <4>1. Len(acquired'[o]) = Len(acquired[o]) + 1 /\ acquired'[o][Len(acquired[o]) + 1] = l
        BY <3>0, <3>1
      <4> QED BY <1>1, <2>4, <3>0, <4>1
    <3>2. CASE tokens[l] # None /\ tokens[l].owner = w
      <4>1. PICK i \in 1..Len(acquired[o]) : acquired[o][i] = l
        BY <1>3, <2>4, <3>2
      <4>2. CASE rollback_acquisitions(o)
        <5>1. acquired[o] # <<>>
          BY <4>1
        <5>2. /\ acquired'[o] = SubSeq(acquired[o], 1, Len(acquired[o]) - 1)
              /\ Unlock(o, acquired[o][Len(acquired[o])])
          BY <1>0, <4>2, <5>1 DEF rollback_acquisitions, Types
        <5>3. i # Len(acquired[o])
          BY <1>0, <1>1, <2>4, <3>2, <4>1, <5>2 DEF Unlock, Types, Owns
        <5>4. i \in 1..Len(acquired[o]) - 1
          BY <3>0, <5>3
        <5>5. Len(acquired'[o]) = Len(acquired[o]) - 1 /\ acquired'[o][i] = l
          BY <3>0, <4>1, <5>2, <5>4
        <5> QED BY <1>1, <2>4, <5>4, <5>5
      <4>3. CASE release(o)
        <5>1. acquired'[o] = Tail(acquired[o]) /\ Unlock(o, acquired[o][1]) /\ acquired[o] # <<>>
          BY <1>0, <3>0, <4>3 DEF release, Types, Owns
        <5>2. i # 1
          BY <1>0, <1>1, <2>4, <3>2, <4>1, <5>1 DEF Unlock, Types, Owns
        <5>3. /\ Len(acquired'[o]) = Len(acquired[o]) - 1 /\ i - 1 \in 1..Len(acquired[o]) - 1
              /\ acquired'[o][i - 1] = l
          BY <3>0, <4>1, <5>1, <5>2
        <5> QED BY <1>1, <2>4, <5>3
      <4>4. CASE try_create_token(o)
        <5>1. acquired'[o] = acquired[o] \/ acquired'[o] = Append(acquired[o], target[o])
          BY <1>0, <4>4 DEF try_create_token, Types
        <5>2. target[o] \in LockPath
          BY <1>0, <3>0, <4>4 DEF try_create_token, Types, Shape
        <5>3. Len(acquired'[o]) >= Len(acquired[o]) /\ acquired'[o][i] = l
          BY <3>0, <4>1, <5>1, <5>2
        <5>4. i \in 1..Len(acquired'[o])
          BY <3>0, <5>1, <5>2, <5>3
        <5> QED BY <1>1, <2>4, <5>3, <5>4
      <4>5. CASE acquired'[o] = acquired[o]
        BY <1>1, <2>4, <4>1, <4>5
      <4> QED BY <2>1, <4>2, <4>3, <4>4, <4>5 DEF OwnerStep, AcquireStep, acquire_batch, resolve,
                 check, ensure_lock_dir, try_acquire_one, evict, reread, fill, verified, sweep,
                 retry, timeout, refresh, refreshed, crash, Owns
    <3> QED BY <2>2, <2>4, <3>1, <3>2
  <2> QED BY <2>3, <2>4
<1> QED BY <1>4, <1>5

\* An acquisition that ended without a crash has left no token, whatever the
\* clock did meanwhile: rollback_acquisitions and release cover every write.
THEOREM NothingIsLeft == Spec => []NoLeftovers
<1>1. ASSUME Init PROVE TypeOK /\ NoLeftovers
  BY <1>1, IInvInit DEF IInv, Init, NoLeftovers
<1>2. ASSUME TypeOK /\ NoLeftovers, [Next]_vars PROVE (TypeOK /\ NoLeftovers)'
  BY <1>2, TypeStep, LeftoversStep
<1> QED BY <1>1, <1>2, PTL DEF Spec

\* Type correctness, with or without stalls.
THEOREM TypeCorrect == Spec => []TypeOK
<1>1. ASSUME Init PROVE TypeOK
  BY <1>1, IInvInit DEF IInv
<1>2. ASSUME TypeOK, [Next]_vars PROVE TypeOK'
  BY <1>2, TypeStep
<1> QED BY <1>1, <1>2, PTL DEF Spec

=============================================================================
