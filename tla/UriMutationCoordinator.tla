----------------------- MODULE UriMutationCoordinator -----------------------
(***************************************************************************)
(* Process-local coordination of operations that need a URI scope to stay  *)
(* stable (access leases: the watch manager and the watch scheduler) with  *)
(* operations that move it (mutation leases: a resource move).             *)
(*                                                                         *)
(* The condition variable's lock is held only between two suspension       *)
(* points of the event loop, so acquiring, waking up and releasing are one *)
(* step each.  A coroutine that finds a blocker waits and looks again only *)
(* after a notify_all, which `notified` records.                           *)
(*                                                                         *)
(* Leases nest the way the callers nest them: the scheduler holds an       *)
(* access lease while it calls get_task or update_task, which take another *)
(* one; the move transaction takes its one mutation lease outside any      *)
(* other lease and takes none inside it.                                   *)
(***************************************************************************)
EXTENDS Naturals, Sequences

CONSTANTS
    Client,       \* coroutines that take leases
    Account,      \* tenants: leases of two accounts never meet
    Scope,        \* the URI sets a caller passes (_normalize_uris of them)
    MaxNest,      \* how deep access leases nest
    MaxRequests,  \* bound: leases one coroutine asks for
    None          \* "not waiting"

ASSUME NestAssumption == MaxNest \in Nat \ {0} /\ MaxRequests \in Nat

VARIABLES
    active_accesses,   \* _active_accesses
    active_mutations,  \* _active_mutations
    waiting,           \* the request a coroutine is suspended on, or None
    notified,          \* suspended coroutines a notify_all has woken
    depth,             \* number of leases a coroutine holds
    requests           \* leases asked for so far (bounds the model)

vars == <<active_accesses, active_mutations, waiting, notified, depth, requests>>

\* _UriLease: eq=False, so two leases are the same only if they are one object,
\* here the n-th lease of its coroutine.
Lease == [client : Client, n : 1..MaxNest, account : Account, uris : Scope]

Request == [lease : Lease, mutation : BOOLEAN]

-----------------------------------------------------------------------------
\* A normalized URI is its sequence of segments; `prefix` is it or an ancestor.
uri_matches_prefix(uri, prefix) ==
    /\ Len(prefix) <= Len(uri)
    /\ \A i \in 1..Len(prefix) : uri[i] = prefix[i]

uris_overlap(left, right) ==
    \E l \in left, r \in right :
        uri_matches_prefix(l, r) \/ uri_matches_prefix(r, l)

overlaps(lease, other) ==
    /\ lease.account = other.account
    /\ uris_overlap(lease.uris, other.uris)

\* Mutant: a mutation looks only for other mutations.
has_blocker_no_accesses(lease, mutation) ==
    \E active \in active_mutations : overlaps(lease, active)

\* Mutant: an access also waits for a mutation that waits (writers first).
has_blocker_writer_first(lease, mutation) ==
    \/ \E active \in active_mutations : overlaps(lease, active)
    \/ mutation /\ \E active \in active_accesses : overlaps(lease, active)
    \/ /\ ~mutation
       /\ \E c \in Client \ {lease.client} : /\ waiting[c] # None
                                           /\ waiting[c].mutation
                                           /\ overlaps(lease, waiting[c].lease)

has_blocker(lease, mutation) ==
    \/ \E active \in active_mutations : overlaps(lease, active)
    \/ mutation /\ \E active \in active_accesses : overlaps(lease, active)

HoldsMutation(c) == \E l \in active_mutations : l.client = c

-----------------------------------------------------------------------------
Init ==
    /\ active_accesses = {}
    /\ active_mutations = {}
    /\ waiting = [c \in Client |-> None]
    /\ notified = {}
    /\ depth = [c \in Client |-> 0]
    /\ requests = [c \in Client |-> 0]

\* The end of _acquire: the lease joins the list of its kind.
Grant(c, req) ==
    /\ ~has_blocker(req.lease, req.mutation)
    /\ active_mutations' = IF req.mutation THEN active_mutations \union {req.lease}
                                           ELSE active_mutations
    /\ active_accesses' = IF req.mutation THEN active_accesses
                                          ELSE active_accesses \union {req.lease}
    /\ depth' = [depth EXCEPT ![c] = @ + 1]
    /\ waiting' = [waiting EXCEPT ![c] = None]

\* The loop of _acquire finds a blocker: wait on the condition.
Suspend(c, req) ==
    /\ has_blocker(req.lease, req.mutation)
    /\ waiting' = [waiting EXCEPT ![c] = req]
    /\ UNCHANGED <<active_accesses, active_mutations, depth>>

\* access() and mutation(): the first pass through _acquire.
acquire(c, account, uris, mutation) ==
    LET req == [lease |-> [client |-> c, n |-> depth[c] + 1,
                           account |-> account, uris |-> uris],
                mutation |-> mutation]
    IN  /\ waiting[c] = None
        /\ requests[c] < MaxRequests
        /\ depth[c] < MaxNest
        /\ ~HoldsMutation(c)
        /\ mutation => depth[c] = 0
        /\ requests' = [requests EXCEPT ![c] = @ + 1]
        /\ Grant(c, req) \/ Suspend(c, req)
        /\ UNCHANGED notified

\* A notified coroutine runs again and re-evaluates the loop's condition.
wake(c) ==
    /\ c \in notified
    /\ Grant(c, waiting[c]) \/ Suspend(c, waiting[c])
    /\ notified' = notified \ {c}
    /\ UNCHANGED requests

\* Mutant: notify_all only when a mutation ends.
release_quiet_access(c) ==
    /\ waiting[c] = None
    /\ depth[c] > 0
    /\ LET mine == {l \in active_accesses \union active_mutations :
                        l.client = c /\ l.n = depth[c]}
       IN  /\ active_accesses' = active_accesses \ mine
           /\ active_mutations' = active_mutations \ mine
    /\ notified' = IF HoldsMutation(c) THEN {d \in Client : waiting[d] # None} ELSE notified
    /\ depth' = [depth EXCEPT ![c] = @ - 1]
    /\ UNCHANGED <<waiting, requests>>

\* _release: the context manager's exit, normal or by an exception.
release(c) ==
    /\ waiting[c] = None
    /\ depth[c] > 0
    /\ LET mine == {l \in active_accesses \union active_mutations :
                        l.client = c /\ l.n = depth[c]}
       IN  /\ active_accesses' = active_accesses \ mine
           /\ active_mutations' = active_mutations \ mine
    /\ notified' = {d \in Client : waiting[d] # None}
    /\ depth' = [depth EXCEPT ![c] = @ - 1]
    /\ UNCHANGED <<waiting, requests>>

\* Mutant: acquire inside the try block, so a cancelled wait also releases.
cancel_and_release(c) ==
    /\ waiting[c] # None
    /\ waiting' = [waiting EXCEPT ![c] = None]
    /\ notified' = notified \ {c}
    /\ depth' = [depth EXCEPT ![c] = @ - 1]
    /\ UNCHANGED <<active_accesses, active_mutations, requests>>

\* Cancellation of a suspended coroutine: wait() raises, nothing is appended.
cancel(c) ==
    /\ waiting[c] # None
    /\ waiting' = [waiting EXCEPT ![c] = None]
    /\ notified' = notified \ {c}
    /\ UNCHANGED <<active_accesses, active_mutations, depth, requests>>

Next ==
    \E c \in Client :
        \/ \E account \in Account, uris \in Scope, mutation \in BOOLEAN :
               acquire(c, account, uris, mutation)
        \/ wake(c)
        \/ release(c)
        \/ cancel(c)

\* A woken coroutine runs and the body under a lease ends; nobody has to ask for
\* a lease and nobody has to be cancelled.
Fairness == \A c \in Client : WF_vars(wake(c)) /\ WF_vars(release(c))

Spec == Init /\ [][Next]_vars /\ Fairness

-----------------------------------------------------------------------------
\* The variables have their types: in particular a coroutine never holds more than
\* MaxNest leases, so every lease it entered is the one its exit discards.
TypeOK ==
    /\ active_accesses \in SUBSET Lease
    /\ active_mutations \in SUBSET Lease
    /\ waiting \in [Client -> Request \union {None}]
    /\ notified \in SUBSET Client
    /\ depth \in [Client -> 0..MaxNest]
    /\ requests \in [Client -> 0..MaxRequests]

(***************************************************************************)
(* While a mutation lease is active no other lease of its account, access  *)
(* or mutation, covers a URI on its paths: an execution that holds an      *)
(* access lease never sees its target move underneath it (the docstring    *)
(* "Hold an exclusive lease for mutating the supplied URI scopes").        *)
(***************************************************************************)
MutationIsExclusive ==
    \A m \in active_mutations, l \in active_accesses \union active_mutations :
        l # m => ~overlaps(m, l)

\* The request c is suspended on has a blocker.
Blocked(c) == has_blocker(waiting[c].lease, waiting[c].mutation)

(***************************************************************************)
(* No lost wakeup: a coroutine that sleeps without a pending notification  *)
(* really has a blocker.  _release must notify every waiter, and a         *)
(* cancelled waiter must not swallow another one's notification.           *)
(***************************************************************************)
NoLostWakeup ==
    \A c \in Client : waiting[c] # None /\ c \notin notified => Blocked(c)

\* What makes the two invariants inductive: only a suspended coroutine is
\* notified, and it has room for the lease it asked for.
WaitersAreConsistent ==
    \A c \in Client :
        /\ c \in notified => waiting[c] # None
        /\ waiting[c] # None => depth[c] < MaxNest

IInv == TypeOK /\ WaitersAreConsistent /\ MutationIsExclusive /\ NoLostWakeup

(***************************************************************************)
(* Nobody waits forever once the requests stop: nested access leases and   *)
(* waiting mutations never wait on each other in a circle, because a       *)
(* waiting mutation blocks no access.                                      *)
(***************************************************************************)
WaitersLeave == \A c \in Client : waiting[c] # None ~> waiting[c] = None

=============================================================================
