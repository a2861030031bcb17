-------------------- MODULE UriMutationCoordinatorProofs --------------------
(* Mutation leases are exclusive and no wakeup is lost, for every set of    *)
(* coroutines, accounts and URI scopes and every nesting depth.             *)
EXTENDS UriMutationCoordinator, TLAPS

\* Overlap is symmetric: _uris_overlap tries both directions.
LEMMA OverlapSymmetric ==
    ASSUME NEW l, NEW m
    PROVE  overlaps(l, m) <=> overlaps(m, l)
  BY DEF overlaps, uris_overlap

\* Adding leases adds blockers: a request that is blocked stays blocked.
LEMMA BlockersGrow ==
    ASSUME NEW d,
           active_accesses \subseteq active_accesses',
           active_mutations \subseteq active_mutations',
           waiting'[d] = waiting[d],
           Blocked(d)
    PROVE  Blocked(d)'
  BY DEF Blocked, has_blocker, overlaps, uris_overlap, uri_matches_prefix

\* The end of _acquire keeps the invariant for a request of a known shape.
LEMMA GrantStep ==
    ASSUME IInv, NEW c \in Client, NEW req \in Request, Grant(c, req),
           depth[c] < MaxNest,
           notified' \in {notified, notified \ {c}},
           c \in notified => notified' = notified \ {c},
           requests' \in [Client -> 0..MaxRequests]
    PROVE  IInv'
  <1> USE DEF IInv
  <1>1. TypeOK'
    <2>1. req.lease \in Lease
      BY DEF Request
    <2>2. active_accesses' \in SUBSET Lease /\ active_mutations' \in SUBSET Lease
      BY <2>1 DEF TypeOK, Grant
    <2>3. depth' \in [Client -> 0..MaxNest]
      BY NestAssumption DEF TypeOK, Grant
    <2>4. waiting' \in [Client -> Request \union {None}] /\ notified' \in SUBSET Client
      BY DEF TypeOK, Grant
    <2>5. QED
      BY <2>2, <2>3, <2>4 DEF TypeOK
  <1>2. WaitersAreConsistent'
    BY DEF TypeOK, WaitersAreConsistent, Grant
  <1>3. MutationIsExclusive'
    <2> SUFFICES ASSUME NEW m \in active_mutations',
                        NEW l \in active_accesses' \union active_mutations',
                        l # m
                 PROVE  ~overlaps(m, l)
      BY DEF MutationIsExclusive, overlaps, uris_overlap, uri_matches_prefix
    <2>1. CASE m \in active_mutations /\ l \in active_accesses \union active_mutations
      BY <2>1 DEF MutationIsExclusive
    <2>2. CASE m \in active_mutations /\ l = req.lease
      BY <2>2, OverlapSymmetric DEF Grant, has_blocker
    <2>3. CASE m = req.lease /\ l \in active_accesses \union active_mutations
      BY <2>3, OverlapSymmetric DEF Grant, has_blocker, MutationIsExclusive
    <2>4. QED
      BY <2>1, <2>2, <2>3 DEF Grant
  <1>4. NoLostWakeup'
    <2> SUFFICES ASSUME NEW d \in Client, waiting'[d] # None, d \notin notified'
                 PROVE  Blocked(d)'
      BY DEF NoLostWakeup
    <2>1. d # c /\ waiting'[d] = waiting[d] /\ d \notin notified
      BY DEF Grant, TypeOK
    <2>2. Blocked(d)
      BY <2>1 DEF NoLostWakeup
    <2>3. active_accesses \subseteq active_accesses' /\ active_mutations \subseteq active_mutations'
      BY DEF Grant
    <2>4. QED
      BY <2>1, <2>2, <2>3, BlockersGrow
  <1>5. QED
    BY <1>1, <1>2, <1>3, <1>4

\* Going to sleep keeps the invariant: the sleeper has just seen its blocker.
LEMMA SuspendStep ==
    ASSUME IInv, NEW c \in Client, NEW req \in Request, Suspend(c, req),
           depth[c] < MaxNest,
           notified' = notified \ {c},
           requests' \in [Client -> 0..MaxRequests]
    PROVE  IInv'
  <1> USE DEF IInv, Suspend
  <1>1. TypeOK'
    BY DEF TypeOK
  <1>2. WaitersAreConsistent'
    BY DEF TypeOK, WaitersAreConsistent
  <1>3. MutationIsExclusive'
    BY DEF MutationIsExclusive, overlaps, uris_overlap, uri_matches_prefix
  <1>4. NoLostWakeup'
    <2> SUFFICES ASSUME NEW d \in Client, waiting'[d] # None, d \notin notified'
                 PROVE  Blocked(d)'
      BY DEF NoLostWakeup
    <2>1. CASE d = c
      BY <2>1 DEF TypeOK, Blocked, has_blocker, overlaps, uris_overlap, uri_matches_prefix
    <2>2. CASE d # c
      BY <2>2, BlockersGrow DEF TypeOK, NoLostWakeup
    <2>3. QED
      BY <2>1, <2>2
  <1>5. QED
    BY <1>1, <1>2, <1>3, <1>4

\* IInv is inductive.
LEMMA IInvStep == IInv /\ [Next]_vars => IInv'
  <1> SUFFICES ASSUME IInv, [Next]_vars PROVE IInv'
    OBVIOUS
  <1>1. ASSUME NEW c \in Client, NEW account \in Account, NEW uris \in Scope,
               NEW mutation \in BOOLEAN, acquire(c, account, uris, mutation)
        PROVE  IInv'
    <2> DEFINE req == [lease |-> [client |-> c, n |-> depth[c] + 1,
                                  account |-> account, uris |-> uris],
                       mutation |-> mutation]
    <2>1. req \in Request
      BY <1>1, NestAssumption DEF acquire, IInv, TypeOK, Request, Lease
    <2>2. Grant(c, req) \/ Suspend(c, req)
      BY <1>1 DEF acquire
    <2>3. /\ depth[c] < MaxNest
          /\ requests' \in [Client -> 0..MaxRequests]
          /\ c \notin notified
          /\ notified' = notified
          /\ notified' = notified \ {c}
      BY <1>1, NestAssumption DEF acquire, IInv, TypeOK, WaitersAreConsistent
    <2> HIDE DEF req
    <2>4. QED
      BY <2>1, <2>2, <2>3, GrantStep, SuspendStep
  <1>2. ASSUME NEW c \in Client, wake(c) PROVE IInv'
    <2>1. waiting[c] \in Request /\ depth[c] < MaxNest
      BY <1>2 DEF wake, IInv, TypeOK, WaitersAreConsistent
    <2>2. requests' \in [Client -> 0..MaxRequests] /\ notified' = notified \ {c}
      BY <1>2 DEF wake, IInv, TypeOK
    <2> PICK req \in Request : req = waiting[c]
      BY <2>1
    <2>3. Grant(c, req) \/ Suspend(c, req)
      BY <1>2 DEF wake
    <2>4. QED
      BY <2>1, <2>2, <2>3, GrantStep, SuspendStep
  <1>3. ASSUME NEW c \in Client, release(c) PROVE IInv'
    <2> USE <1>3 DEF IInv, release
    <2>1. TypeOK'
      BY NestAssumption DEF TypeOK
    <2>2. WaitersAreConsistent'
      BY NestAssumption DEF TypeOK, WaitersAreConsistent
    <2>3. MutationIsExclusive'
      BY DEF MutationIsExclusive, overlaps, uris_overlap, uri_matches_prefix
    <2>4. NoLostWakeup'
      BY DEF NoLostWakeup
    <2>5. QED
      BY <2>1, <2>2, <2>3, <2>4
  <1>4. ASSUME NEW c \in Client, cancel(c) PROVE IInv'
    <2> USE <1>4 DEF IInv, cancel
    <2>1. TypeOK' /\ WaitersAreConsistent'
      BY DEF TypeOK, WaitersAreConsistent
    <2>2. MutationIsExclusive'
      BY DEF MutationIsExclusive, overlaps, uris_overlap, uri_matches_prefix
    <2>3. NoLostWakeup'
      BY BlockersGrow DEF NoLostWakeup, TypeOK
    <2>4. QED
      BY <2>1, <2>2, <2>3
  <1>5. CASE UNCHANGED vars
    BY <1>5 DEF vars, IInv, TypeOK, WaitersAreConsistent, MutationIsExclusive, NoLostWakeup,
           Blocked, has_blocker, overlaps, uris_overlap, uri_matches_prefix
  <1>6. QED
    BY <1>1, <1>2, <1>3, <1>4, <1>5 DEF Next

\* IInv holds in every reachable state.
THEOREM Invariance == Spec => []IInv
  <1>1. Init => IInv
    BY NestAssumption DEF Init, IInv, TypeOK, WaitersAreConsistent, MutationIsExclusive, NoLostWakeup
  <1>2. QED
    BY <1>1, IInvStep, PTL DEF Spec

\* The variables keep their types: no coroutine holds more than MaxNest leases, so
\* every lease it entered is the one its exit discards (_acquire, _release).
THEOREM TypeCorrect == Spec => []TypeOK
  BY Invariance, PTL DEF IInv

\* A move never overlaps with an execution or another move on the same paths
\* (has_blocker and _acquire), whatever the coroutines, accounts and scopes are.
THEOREM Exclusion == Spec => []MutationIsExclusive
  BY Invariance, PTL DEF IInv

\* The condition variable never loses a wakeup (notify_all in _release).
THEOREM Wakeups == Spec => []NoLostWakeup
  BY Invariance, PTL DEF IInv

=============================================================================
