------------------------------ MODULE PathLock ------------------------------
(***************************************************************************)
(* Path locks: tokens (lock files) on a shared file system.  An owner      *)
(* acquires a batch of requests, each Exact (one path) or Tree (a path and *)
(* all below it), by writing one token per request and then looking again  *)
(* at every lock file a conflicting request could have written.  Nothing   *)
(* but the file system connects two owners: they may be tasks of one       *)
(* server or of several.  Every acquire_batch without a lease to join has  *)
(* a fresh owner id, so an owner here acquires, holds and releases once.   *)
(*                                                                         *)
(* Each call on the file system is a step: one stat, one lock file read,   *)
(* one create-new write, one compare-and-remove; on localfs a write is two *)
(* steps, as a reader may find the file created or truncated and not yet   *)
(* filled.  Lock files of one group (the ancestors, the path itself, the   *)
(* descendants) may be read in any order.  A check judges age by the clock *)
(* at the read, the code by the clock when it begins with the group.       *)
(***************************************************************************)
EXTENDS Integers, Sequences, FiniteSets

CONSTANTS
    Owner,       \* owner ids: one per acquisition
    Path,        \* sequences of names, closed under prefixes; <<>> is "/"
    Files,       \* the paths that may hold a regular file
    Batches,     \* Batches[o]: the request sets o may ask for
    Rank,        \* Rank[p]: position of p in the order (len(path), path)
    Expire,      \* lock_expire_secs, in ticks
    MaxTime,     \* bound: the last tick
    MaxCrashes,  \* bound: owners that may crash
    Timely,      \* TRUE: no owner that runs is stalled until its token expires
    AtomicWrites,  \* TRUE: no reader finds a half-written file (memfs, s3fs; not localfs)
    None         \* no token, no lock path

Kinds == {"Exact", "Tree"}

Request == [path : Path, kind : Kinds]

ASSUME ConstantsAssumption ==
    /\ \A p \in Path : p \in Seq(STRING)
    /\ \A o \in Owner : \A b \in Batches[o] :
            b \subseteq Request /\ b # {} /\ IsFiniteSet(b)
    /\ Rank \in [Path -> Nat]
    /\ Expire \in Nat /\ MaxTime \in Nat /\ MaxCrashes \in Nat
    /\ Timely \in BOOLEAN /\ AtomicWrites \in BOOLEAN

VARIABLES
    tokens,    \* lock file -> the token written, or being written, there; or None
    blank,     \* the lock files that are still empty
    stat,      \* path -> what the file system holds there
    now,       \* the clock
    swept,     \* owners a recursive delete took a token from, in this attempt
    pc,        \* where an owner is in acquire_batch, or in its life
    batch,     \* the normalized requests
    acquired,  \* lock files of the requests acquired so far, in order
    at,        \* the request being acquired or verified
    target,    \* the lock file being acquired; after a conflict, the one in the way
    todo,      \* reads left of the pass over that request
    seen,      \* the stale token about to be removed
    asof,      \* now_ns of try_acquire_one, the time its token will carry
    after      \* what follows the rollback

vars == <<tokens, blank, stat, now, swept, pc, batch, acquired, at, target, todo, seen, asof, after>>

-----------------------------------------------------------------------------
\* Paths, lock files and requests.

path_is_self_or_descendant(path, ancestor) ==
    /\ Len(ancestor) <= Len(path)
    /\ \A i \in 1..Len(ancestor) : path[i] = ancestor[i]

request_is_covered_by(held, request) ==
    IF held.kind = "Tree" THEN path_is_self_or_descendant(request.path, held.path)
    ELSE request.kind = "Exact" /\ held.path = request.path

\* Two requests of different owners that must not be granted together.
Conflicting(q, r) == request_is_covered_by(q, r) \/ request_is_covered_by(r, q)

\* "in" is {path}/.path.ovlock, "by" the sidecar {parent}/.exact.ovlock.{name}.
LockPath == [slot : {"in", "by"}, path : Path]

path_lock_path(path) == [slot |-> "in", path |-> path]

prefixed_exact_lock_path(path) == [slot |-> "by", path |-> path]

Token == [owner : Owner, time : Nat, kind : Kinds]

ASSUME NoneAssumption == None \notin LockPath /\ None \notin Token

\* A lock file to read, and the group it is read with: 1 the ancestors (where
\* only a Tree token reaches down to the path), 2 the path, 3 the descendants.
Check == [lp : LockPath, group : 1..3]

Counts(item, kind) == item.group = 1 => kind = "Tree"

conflict_paths(path) == {path_lock_path(path), prefixed_exact_lock_path(path)}

check_lock_paths(path) == [lp : conflict_paths(path), group : {2}]

check_ancestor_tree_locks(path) ==
    {[lp |-> path_lock_path(a), group |-> 1] :
        a \in {a \in Path : a # path /\ path_is_self_or_descendant(path, a)}}

\* The lock files scan_recursive finds in the directory `path` and below.
scan_descendant_locks(path) ==
    {l \in LockPath : /\ path_is_self_or_descendant(l.path, path)
                      /\ l.slot = "by" => l.path # path}

check_descendant_locks(path) == [lp : scan_descendant_locks(path), group : {3}]

\* What one pass over a request reads.
Checks(request) ==
    check_ancestor_tree_locks(request.path)
        \union check_lock_paths(request.path)
        \union IF request.kind = "Tree" THEN check_descendant_locks(request.path) ELSE {}

\* The lock file of a request, by one stat of its path.
resolve_lock_path(request) ==
    IF request.kind = "Tree"
    THEN IF stat[request.path] = "file" THEN prefixed_exact_lock_path(request.path)
                                        ELSE path_lock_path(request.path)
    ELSE IF stat[request.path] = "dir" THEN path_lock_path(request.path)
                                       ELSE prefixed_exact_lock_path(request.path)

\* The directories a lock file lies in.
LockDirs(lp) ==
    {d \in Path : /\ path_is_self_or_descendant(lp.path, d)
                  /\ lp.slot = "by" => d # lp.path}

\* One request per path, Tree before Exact, in the order of Rank.
normalize_requests(requests) ==
    LET kept == {q \in requests :
                    q.kind = "Exact" => [q EXCEPT !.kind = "Tree"] \notin requests}
    IN  {s \in [1..Cardinality(kept) -> kept] :
            \A i, j \in 1..Cardinality(kept) : i < j => Rank[s[i].path] < Rank[s[j].path]}

\* Mutant: the age in ticks against the limit in a unit a thousand times finer.
is_stale_units(token, now_ns) == now_ns - token.time > 1000 * (Expire + 1)

is_stale(token, now_ns) == now_ns - token.time > Expire

Crashed(o) == pc[o] = "crashed"

\* read_token: an empty file holds no token.
read_token(lp) == IF lp \in blank THEN None ELSE tokens[lp]

\* What the file system may hold at first: whatever exists lies in a directory.
FileTrees ==
    {tree \in [Path -> {"missing", "file", "dir"}] :
        /\ tree[<<>>] = "dir"
        /\ \A p \in Path : tree[p] = "file" => p \in Files
        /\ \A p, d \in Path :
            tree[p] # "missing" /\ d # p /\ path_is_self_or_descendant(p, d) => tree[d] = "dir"}

-----------------------------------------------------------------------------
Init ==
    /\ tokens = [l \in LockPath |-> None]
    /\ blank = {}
    /\ stat \in FileTrees
    /\ now = 0
    /\ swept = {}
    /\ pc = [o \in Owner |-> "idle"]
    /\ batch = [o \in Owner |-> <<>>]
    /\ acquired = [o \in Owner |-> <<>>]
    /\ at = [o \in Owner |-> 1]
    /\ target = [o \in Owner |-> None]
    /\ todo = [o \in Owner |-> {}]
    /\ seen = [o \in Owner |-> None]
    /\ asof = [o \in Owner |-> 0]
    /\ after = [o \in Owner |-> "failed"]

Goto(o, label) == pc' = [pc EXCEPT ![o] = label]

\* The pass over the i-th request of `requests` begins.
Pass(o, requests, i) ==
    /\ at' = [at EXCEPT ![o] = i]
    /\ todo' = [todo EXCEPT ![o] = Checks(requests[i])]

\* acquire_batch: normalize, then the first request of the first attempt.
acquire_batch(o) ==
    /\ pc[o] = "idle"
    /\ \E b \in Batches[o] : \E s \in normalize_requests(b) :
        /\ batch' = [batch EXCEPT ![o] = s]
        /\ Pass(o, s, 1)
    /\ Goto(o, "check")
    /\ UNCHANGED <<tokens, blank, stat, now, swept, acquired, target, seen, asof, after>>

\* The groups are read in their order; an Exact acquisition stats its path after
\* the ancestors, a Tree acquisition before them.
ReadNext(o, item) ==
    /\ item \in todo[o]
    /\ \A other \in todo[o] : item.group <= other.group
    /\ pc[o] = "check" /\ target[o] = None => batch[o][at[o]].kind = "Exact" /\ item.group = 1

\* resolve_exact_paths, resolve_tree_lock_path
resolve(o) ==
    /\ pc[o] = "check"
    /\ target[o] = None
    /\ batch[o][at[o]].kind = "Exact" => \A item \in todo[o] : item.group # 1
    /\ target' = [target EXCEPT ![o] = resolve_lock_path(batch[o][at[o]])]
    /\ UNCHANGED <<tokens, blank, stat, now, swept, pc, batch, acquired, at, todo, seen, asof, after>>

\* Mutant: the attempt ends without its rollback.
Fail_no_rollback(o, lp, next) ==
    /\ Goto(o, next)
    /\ target' = [target EXCEPT ![o] = lp]
    /\ todo' = [todo EXCEPT ![o] = {}]
    /\ UNCHANGED after

\* An attempt fails: roll back, then go on with `next`.
Fail(o, lp, next) ==
    /\ Goto(o, "rollback")
    /\ target' = [target EXCEPT ![o] = lp]
    /\ todo' = [todo EXCEPT ![o] = {}]
    /\ after' = [after EXCEPT ![o] = next]

\* A token that makes a check of o fail.
Blocks(o, item) ==
    LET token == read_token(item.lp)
    IN  /\ token # None
        /\ token.owner # o
        /\ Counts(item, token.kind)
        /\ ~is_stale(token, now)

\* One lock file read, before (pre_conflict) or after the tokens are written.
check(o) ==
    /\ pc[o] \in {"check", "verify"}
    /\ \E item \in todo[o] :
        /\ ReadNext(o, item)
        /\ IF Blocks(o, item)
           THEN Fail(o, item.lp, IF pc[o] = "check" THEN "sweep" ELSE "backoff")
           ELSE /\ todo' = [todo EXCEPT ![o] = @ \ {item}]
                /\ UNCHANGED <<pc, target, after>>
    /\ UNCHANGED <<tokens, blank, stat, now, swept, batch, acquired, at, seen, asof>>

\* ensure_lock_dir: create what is missing; a file in the way is an Io error.
ensure_lock_dir(o) ==
    /\ pc[o] = "check"
    /\ todo[o] = {}
    /\ target[o] # None
    /\ IF \E d \in LockDirs(target[o]) : stat[d] = "file"
       THEN Fail(o, None, "failed") /\ UNCHANGED stat
       ELSE /\ stat' = [p \in Path |-> IF p \in LockDirs(target[o]) THEN "dir" ELSE stat[p]]
            /\ Goto(o, "take")
            /\ UNCHANGED <<target, todo, after>>
    /\ UNCHANGED <<tokens, blank, now, swept, batch, acquired, at, seen, asof>>

\* Mutant: a token found here is taken for stale, as the checks let it pass.
try_acquire_one_trusting(o) ==
    LET existing == read_token(target[o])
    IN  /\ pc[o] = "take"
        /\ asof' = [asof EXCEPT ![o] = now]
        /\ \/ existing = None /\ Goto(o, "create") /\ UNCHANGED seen
           \/ existing # None /\ Goto(o, "evict") /\ seen' = [seen EXCEPT ![o] = existing]
        /\ UNCHANGED <<tokens, blank, stat, now, swept, batch, acquired, at, target, todo, after>>

\* try_acquire_one up to its read_token.
try_acquire_one(o) ==
    LET existing == read_token(target[o])
    IN  /\ pc[o] = "take"
        /\ asof' = [asof EXCEPT ![o] = now]
        /\ \/ /\ existing = None
              /\ Goto(o, "create")
              /\ UNCHANGED <<seen, target, todo, after>>
           \/ /\ existing # None
              /\ ~is_stale(existing, now)
              /\ Fail(o, target[o], "sweep")
              /\ UNCHANGED seen
           \/ /\ existing # None
              /\ is_stale(existing, now)
              /\ seen' = [seen EXCEPT ![o] = existing]
              /\ Goto(o, "evict")
              /\ UNCHANGED <<target, todo, after>>
        /\ UNCHANGED <<tokens, blank, stat, now, swept, batch, acquired, at>>

\* Mutant: whatever token is there is removed.
remove_token_any(lp, token) == tokens' = [tokens EXCEPT ![lp] = None]

\* remove_token reads the file again and removes it if it still has that owner;
\* a token that changed may also change between that read and the removal.
remove_token(lp, token) ==
    \/ /\ tokens[lp] # None
       /\ tokens[lp].owner = token.owner
       /\ tokens' = [tokens EXCEPT ![lp] = None]
    \/ /\ tokens[lp] # token
       /\ UNCHANGED tokens

\* An empty file does not decode, and of two compare-and-removes at the same
\* time one may find the file locked (Busy).  Only the Busy of try_acquire_one
\* is retried.
EvictFails(o) ==
    LET busy == \E p \in Owner \ {o} :
                    pc[p] \in {"evict", "sweep_remove"} /\ target[p] = target[o]
    IN  /\ target[o] \in blank \/ busy
        /\ \/ /\ pc[o] = "evict"
              /\ Fail(o, None, IF target[o] \in blank THEN "failed" ELSE "backoff")
           \/ /\ pc[o] = "sweep_remove"
              /\ Goto(o, "failed")
              /\ UNCHANGED <<target, todo, after>>
        /\ UNCHANGED tokens

\* The stale token in the way goes: inside try_acquire_one, or in the sweep of
\* acquire_batch after a conflict met before the tokens were written.
evict(o) ==
    /\ pc[o] \in {"evict", "sweep_remove"}
    /\ \/ EvictFails(o)
       \/ /\ target[o] \notin blank
          /\ remove_token(target[o], seen[o])
          /\ Goto(o, IF pc[o] = "evict" THEN "create" ELSE "backoff")
          /\ UNCHANGED <<target, todo, after>>
    /\ seen' = [seen EXCEPT ![o] = None]
    /\ UNCHANGED <<blank, stat, now, swept, batch, acquired, at, asof>>

\* A write begins: with AtomicWrites it is also over.
Begin(lp, token) ==
    /\ tokens' = [tokens EXCEPT ![lp] = token]
    /\ blank' = IF AtomicWrites THEN blank ELSE blank \union {lp}

\* The token of o is in the lock file, or being written there: the file may also
\* have been deleted under it, and be another owner's by now.
Owns(o, lp) == tokens[lp] # None /\ tokens[lp].owner = o

\* try_create_token: a create-new write.  Whatever made it fail, the file is
\* then read again.
try_create_token(o) ==
    /\ pc[o] = "create"
    /\ IF tokens[target[o]] = None /\ \A d \in LockDirs(target[o]) : stat[d] = "dir"
       THEN /\ Begin(target[o],
                     [owner |-> o, time |-> asof[o], kind |-> batch[o][at[o]].kind])
            /\ acquired' = [acquired EXCEPT ![o] = Append(@, target[o])]
            /\ Goto(o, "fill")
       ELSE /\ Goto(o, "reread")
            /\ UNCHANGED <<tokens, blank, acquired>>
    /\ asof' = [asof EXCEPT ![o] = 0]
    /\ UNCHANGED <<stat, now, swept, batch, at, target, todo, seen, after>>

\* A token there is a Conflict; none is an Io error, which is not retried.
reread(o) ==
    /\ pc[o] = "reread"
    /\ IF read_token(target[o]) # None
       THEN Fail(o, target[o], "sweep")
       ELSE Fail(o, None, "failed")
    /\ UNCHANGED <<tokens, blank, stat, now, swept, batch, acquired, at, seen, asof>>

\* Mutant: no second look once all tokens are written.
Acquired_no_verify(o) ==
    /\ target' = [target EXCEPT ![o] = None]
    /\ IF at[o] < Len(batch[o])
       THEN Goto(o, "check") /\ Pass(o, batch[o], at[o] + 1)
       ELSE Goto(o, "held") /\ UNCHANGED <<at, todo>>

\* One more request has its token: go on with the next, or verify them all.
Acquired(o) ==
    /\ target' = [target EXCEPT ![o] = None]
    /\ IF at[o] < Len(batch[o])
       THEN Goto(o, "check") /\ Pass(o, batch[o], at[o] + 1)
       ELSE Goto(o, "verify") /\ Pass(o, batch[o], 1)

\* The token is in its file.
fill(o) ==
    /\ pc[o] = "fill"
    /\ blank' = IF Owns(o, target[o]) THEN blank \ {target[o]} ELSE blank
    /\ Acquired(o)
    /\ UNCHANGED <<tokens, stat, now, swept, batch, acquired, seen, asof, after>>

\* The verification goes on with the next request, or is over: the lease is
\* registered and returned.
verified(o) ==
    /\ pc[o] = "verify"
    /\ todo[o] = {}
    /\ IF at[o] < Len(batch[o])
       THEN Pass(o, batch[o], at[o] + 1) /\ UNCHANGED pc
       ELSE Goto(o, "held") /\ UNCHANGED <<at, todo>>
    /\ UNCHANGED <<tokens, blank, stat, now, swept, batch, acquired, target, seen, asof, after>>

\* remove_owned_token_with: the token goes if it is still the owner's.
Unlock(o, lp) ==
    tokens' = IF Owns(o, lp) THEN [tokens EXCEPT ![lp] = None] ELSE tokens

\* Mutant: the rollback forgets the first token of the batch.
rollback_acquisitions_short(o) ==
    /\ pc[o] = "rollback"
    /\ IF Len(acquired[o]) <= 1
       THEN /\ Goto(o, after[o])
            /\ after' = [after EXCEPT ![o] = "failed"]
            /\ acquired' = [acquired EXCEPT ![o] = <<>>]
            /\ swept' = swept \ {o}
            /\ UNCHANGED tokens
       ELSE /\ Unlock(o, acquired[o][Len(acquired[o])])
            /\ acquired' = [acquired EXCEPT ![o] = SubSeq(@, 1, Len(@) - 1)]
            /\ UNCHANGED <<pc, after, swept>>
    /\ UNCHANGED <<blank, stat, now, batch, at, target, todo, seen, asof>>

\* rollback_acquisitions, last token first.
rollback_acquisitions(o) ==
    /\ pc[o] = "rollback"
    /\ IF acquired[o] = <<>>
       THEN /\ Goto(o, after[o])
            /\ after' = [after EXCEPT ![o] = "failed"]
            /\ swept' = swept \ {o}
            /\ UNCHANGED <<tokens, acquired>>
       ELSE /\ Unlock(o, acquired[o][Len(acquired[o])])
            /\ acquired' = [acquired EXCEPT ![o] = SubSeq(@, 1, Len(@) - 1)]
            /\ UNCHANGED <<pc, after, swept>>
    /\ UNCHANGED <<blank, stat, now, batch, at, target, todo, seen, asof>>

\* After a pre_conflict: has the token in the way expired meanwhile?
sweep(o) ==
    LET token == read_token(target[o])
    IN  /\ pc[o] = "sweep"
        /\ IF token # None /\ is_stale(token, now)
           THEN Goto(o, "sweep_remove") /\ seen' = [seen EXCEPT ![o] = token]
           ELSE Goto(o, "backoff") /\ UNCHANGED seen
        /\ UNCHANGED <<tokens, blank, stat, now, swept, batch, acquired, at, target, todo, asof, after>>

\* retry_delay has passed and the wait budget has not: the next attempt.
retry(o) ==
    /\ pc[o] = "backoff"
    /\ Goto(o, "check")
    /\ target' = [target EXCEPT ![o] = None]
    /\ Pass(o, batch[o], 1)
    /\ UNCHANGED <<tokens, blank, stat, now, swept, batch, acquired, seen, asof, after>>

\* The wait budget is spent: before the sweep, inside it, or after the delay.
timeout(o) ==
    /\ pc[o] \in {"sweep", "sweep_remove", "backoff"}
    /\ Goto(o, "done")
    /\ UNCHANGED <<tokens, blank, stat, now, swept, batch, acquired, at, target, todo, seen, asof, after>>

\* refresh, or the background loop, renews one token of a lease: localfs
\* truncates the file and writes it anew.
refresh(o) ==
    /\ pc[o] = "held"
    /\ \E i \in 1..Len(acquired[o]) :
        LET lp == acquired[o][i]
        IN  /\ lp \notin blank
            /\ Owns(o, lp)
            /\ Begin(lp, [tokens[lp] EXCEPT !.time = now])
    /\ UNCHANGED <<stat, now, swept, pc, batch, acquired, at, target, todo, seen, asof, after>>

\* The renewed token is in its file.
refreshed(o) ==
    /\ pc[o] = "held"
    /\ \E i \in 1..Len(acquired[o]) :
        /\ acquired[o][i] \in blank /\ Owns(o, acquired[o][i])
        /\ blank' = blank \ {acquired[o][i]}
    /\ UNCHANGED <<tokens, stat, now, swept, pc, batch, acquired, at, target, todo, seen, asof, after>>

\* release, one token of the lease at a time, when no refresh is under way
\* (both hold the registry of the owner).
release(o) ==
    /\ pc[o] \in {"held", "release"}
    /\ acquired[o] # <<>>
    /\ \A i \in 1..Len(acquired[o]) :
            ~(acquired[o][i] \in blank /\ Owns(o, acquired[o][i]))
    /\ Unlock(o, Head(acquired[o]))
    /\ acquired' = [acquired EXCEPT ![o] = Tail(@)]
    /\ Goto(o, IF Len(acquired[o]) = 1 THEN "done" ELSE "release")
    /\ UNCHANGED <<blank, stat, now, swept, batch, at, target, todo, seen, asof, after>>

-----------------------------------------------------------------------------
\* The owner's process dies; its tokens stay.  (The last ticks are without
\* crashes: the bound on the clock leaves every orphaned token time to expire.)
crash(o) ==
    /\ pc[o] \notin {"idle", "done", "failed", "crashed"}
    /\ Cardinality({p \in Owner : Crashed(p)}) < MaxCrashes
    /\ now + Expire < MaxTime
    /\ Goto(o, "crashed")
    /\ UNCHANGED <<tokens, blank, stat, now, swept, batch, acquired, at, target, todo, seen, asof, after>>

\* With Timely: an attempt takes less than lock_expire_secs, and the loop that
\* refreshes every third of it keeps the leases of running owners alive.
NoneExpires(t) ==
    /\ \A l \in LockPath : tokens[l] # None =>
            Crashed(tokens[l].owner) \/ ~is_stale(tokens[l], t)
    /\ \A o \in Owner : pc[o] \in {"evict", "create"} => t - asof[o] <= Expire

tick ==
    /\ now < MaxTime
    /\ Timely => NoneExpires(now + 1)
    /\ now' = now + 1
    /\ UNCHANGED <<tokens, blank, stat, swept, pc, batch, acquired, at, target, todo, seen, asof, after>>

ParentsAreDirs(p) == \A d \in LockDirs(prefixed_exact_lock_path(p)) : stat[d] = "dir"

\* mkdir is not locked.
mkdir(p) ==
    /\ stat[p] = "missing"
    /\ ParentsAreDirs(p)
    /\ stat' = [stat EXCEPT ![p] = "dir"]
    /\ UNCHANGED <<tokens, blank, now, swept, pc, batch, acquired, at, target, todo, seen, asof, after>>

\* Files and directories are created and removed by the owner of a lease that
\* covers them.
Covered(o, p, kind) ==
    /\ pc[o] = "held"
    /\ \E i \in 1..Len(batch[o]) :
            request_is_covered_by(batch[o][i], [path |-> p, kind |-> kind])

create(o, p) ==
    /\ Covered(o, p, "Exact")
    /\ p \in Files
    /\ stat[p] = "missing"
    /\ ParentsAreDirs(p)
    /\ stat' = [stat EXCEPT ![p] = "file"]
    /\ UNCHANGED <<tokens, blank, now, swept, pc, batch, acquired, at, target, todo, seen, asof, after>>

remove(o, p) ==
    /\ Covered(o, p, "Exact")
    /\ stat[p] = "file"
    /\ stat' = [stat EXCEPT ![p] = "missing"]
    /\ UNCHANGED <<tokens, blank, now, swept, pc, batch, acquired, at, target, todo, seen, asof, after>>

\* The recursive delete of a directory takes away what it finds there, lock files
\* of anybody included, first of all the token of the Tree lock it runs under.  It
\* removes everything at once on memfs, one entry after the other on localfs (any
\* part in a step here, files before their directory), and may fail half-way.
remove_all(o, d) ==
    LET below == {p \in Path : path_is_self_or_descendant(p, d)}
        found == {l \in scan_descendant_locks(d) : tokens[l] # None}
    IN  /\ Covered(o, d, "Tree")
        /\ stat[d] = "dir"
        /\ \E gone \in SUBSET below, locks \in SUBSET found :
            /\ \A p \in below \ gone :
                    stat[p] # "missing" => \A q \in gone : ~path_is_self_or_descendant(p, q)
            /\ \A l \in found \ locks : LockDirs(l) \intersect gone = {}
            /\ stat' = [p \in Path |-> IF p \in gone THEN "missing" ELSE stat[p]]
            /\ tokens' = [l \in LockPath |-> IF l \in locks THEN None ELSE tokens[l]]
            /\ blank' = blank \ locks
            /\ swept' = swept \union {tokens[l].owner : l \in locks}
        /\ UNCHANGED <<now, pc, batch, acquired, at, target, todo, seen, asof, after>>

\* Every acquisition has ended.
Ended ==
    /\ \A o \in Owner : pc[o] \in {"done", "failed", "crashed"}
    /\ UNCHANGED vars

-----------------------------------------------------------------------------
AcquireStep(o) ==
    \/ resolve(o) \/ check(o) \/ ensure_lock_dir(o) \/ try_acquire_one(o) \/ evict(o)
    \/ try_create_token(o) \/ reread(o) \/ fill(o) \/ verified(o) \/ rollback_acquisitions(o) \/ sweep(o)

OwnerStep(o) ==
    \/ acquire_batch(o) \/ AcquireStep(o) \/ retry(o) \/ timeout(o)
    \/ refresh(o) \/ refreshed(o) \/ release(o) \/ crash(o)

FileStep(o, p) == create(o, p) \/ remove(o, p)

Next ==
    \/ \E o \in Owner : OwnerStep(o)
    \/ \E o \in Owner, p \in Path : FileStep(o, p) \/ remove_all(o, p)
    \/ \E p \in Path : mkdir(p)
    \/ tick
    \/ Ended

Spec == Init /\ [][Next]_vars

\* Tasks run and time passes.  Nothing obliges an acquisition to time out.
FairSpec ==
    /\ Spec
    /\ WF_vars(tick)
    /\ \A o \in Owner : WF_vars(AcquireStep(o)) /\ WF_vars(retry(o))

-----------------------------------------------------------------------------
Labels == {"idle", "check", "take", "evict", "create", "reread", "fill", "verify", "held", "release",
           "rollback", "sweep", "sweep_remove", "backoff", "done", "failed", "crashed"}

Types ==
    /\ tokens \in [LockPath -> Token \union {None}]
    /\ blank \subseteq LockPath
    /\ stat \in [Path -> {"missing", "file", "dir"}]
    /\ \A p \in Path : stat[p] = "file" => p \in Files
    /\ now \in Nat
    /\ swept \subseteq Owner
    /\ pc \in [Owner -> Labels]
    /\ batch \in [Owner -> Seq(Request)]
    /\ acquired \in [Owner -> Seq(LockPath)]
    /\ at \in [Owner -> Nat \ {0}]
    /\ target \in [Owner -> LockPath \union {None}]
    /\ todo \in [Owner -> SUBSET Check]
    /\ seen \in [Owner -> Token \union {None}]
    /\ asof \in [Owner -> Nat]
    /\ after \in [Owner -> {"sweep", "backoff", "failed"}]

\* What an owner has in hand at each label.
Shape(o) ==
    /\ pc[o] = "idle" => target[o] = None
    /\ pc[o] \in {"take", "evict", "create", "reread", "fill", "sweep", "sweep_remove"} =>
            target[o] # None
    /\ pc[o] = "rollback" /\ after[o] = "sweep" => target[o] # None
    /\ pc[o] \in {"evict", "sweep_remove"} => seen[o] # None
    /\ pc[o] \in {"idle", "sweep", "sweep_remove", "backoff", "done", "failed"} =>
            acquired[o] = <<>>
    /\ pc[o] \in {"check", "take", "evict", "create", "reread"} => Len(acquired[o]) = at[o] - 1
    /\ pc[o] = "fill" => Len(acquired[o]) = at[o]
    /\ pc[o] \in {"verify", "held"} => Len(acquired[o]) = Len(batch[o])
    /\ pc[o] \in {"check", "take", "evict", "create", "reread", "fill", "verify"} =>
            at[o] <= Len(batch[o])
    /\ pc[o] \notin {"idle", "done", "failed", "crashed"} => Len(batch[o]) > 0

\* The variables have their types, and an owner has at each label what the code
\* goes on to use there: a resolved lock file, a judged token, a full batch.
TypeOK == Types /\ \A o \in Owner : Shape(o)

\* Write-exclusive: the leases held at one time never conflict, whatever the
\* interleaving of the reads, writes and removals of acquire_batch, release and
\* the eviction of what crashed owners left; but for leases that lost a token to a
\* recursive delete, their own or that of another lease.
Exclusion ==
    \A o, p \in Owner \ swept : o # p /\ pc[o] = "held" /\ pc[p] = "held" =>
        \A i \in 1..Len(batch[o]), j \in 1..Len(batch[p]) :
            ~Conflicting(batch[o][i], batch[p][j])

\* The same of all leases, as the design notes have it.
ExclusionThroughDeletes ==
    \A o, p \in Owner : o # p /\ pc[o] = "held" /\ pc[p] = "held" =>
        \A i \in 1..Len(batch[o]), j \in 1..Len(batch[p]) :
            ~Conflicting(batch[o][i], batch[p][j])

\* An acquisition that failed, timed out or was released has left no token
\* behind: each of its tokens went in a rollback or in the release.
NoLeftovers ==
    \A l \in LockPath : tokens[l] # None =>
        \/ Crashed(tokens[l].owner)
        \/ \E i \in 1..Len(acquired[tokens[l].owner]) : acquired[tokens[l].owner][i] = l

\* A lease is backed by its tokens for as long as it is held, with the kinds
\* that were asked for, unless a recursive delete took one of them, as it does with
\* the token of a Tree lock on the directory it deletes: nobody evicts the token of
\* an owner that runs.  (Renaming a directory, which takes its lock files along, is
\* not among the steps.)
HeldTokens ==
    \A o \in Owner \ swept : pc[o] = "held" =>
        \A i \in 1..Len(batch[o]) :
            /\ tokens[acquired[o][i]] # None
            /\ tokens[acquired[o][i]].owner = o
            /\ tokens[acquired[o][i]].kind = batch[o][i].kind

\* What crashed owners left blocks nobody for ever, but for a lock file that was
\* still empty: an attempt that begins when all its rivals have ended or crashed
\* gets its lease, at the latest when their tokens have expired, unless it spends
\* its time waiting for that; it does not fail.
OrphansExpire ==
    \A o \in Owner :
        (/\ \/ pc[o] = "backoff"
            \/ pc[o] = "check" /\ acquired[o] = <<>> /\ target[o] = None
         /\ \A p \in Owner \ {o} : pc[p] \in {"done", "failed", "crashed"}
         /\ blank = {})
            ~> pc[o] \in {"held", "done", "crashed"}

-----------------------------------------------------------------------------
\* The inductive invariant behind Exclusion and HeldTokens (with Timely, with
\* no Tree request on what may be a regular file, Exclusion with AtomicWrites).

TreesAreDirs ==
    \A o \in Owner : \A b \in Batches[o] : \A q \in b : q.kind = "Tree" => q.path \notin Files

\* The lock files a request may resolve to.
LockPathsOf(q) ==
    IF q.kind = "Tree" THEN {path_lock_path(q.path)} ELSE conflict_paths(q.path)

BatchTrees(o) ==
    \A i \in 1..Len(batch[o]) : batch[o][i].kind = "Tree" => batch[o][i].path \notin Files

Resolved(o) ==
    /\ pc[o] \in {"check", "take", "evict", "create"} /\ target[o] # None =>
            target[o] \in LockPathsOf(batch[o][at[o]])
    /\ pc[o] \in {"check", "take", "evict", "create", "reread", "fill", "verify", "held",
                 "rollback"} =>
            /\ Len(acquired[o]) <= Len(batch[o])
            /\ \A i \in 1..Len(acquired[o]) : acquired[o][i] \in LockPathsOf(batch[o][i])

\* What is about to be evicted belongs to a crashed owner.
SeenIsDead(o) == pc[o] \in {"evict", "sweep_remove"} => Crashed(seen[o].owner)

\* An owner that runs has its tokens, from the write to the removal, its own or
\* that of a recursive delete.
Backed(o) ==
    ~Crashed(o) /\ o \notin swept =>
        \A i \in 1..Len(acquired[o]) :
            /\ tokens[acquired[o][i]] # None
            /\ tokens[acquired[o][i]].owner = o
            /\ pc[o] # "release" => tokens[acquired[o][i]].kind = batch[o][i].kind
            /\ \A j \in 1..Len(acquired[o]) : acquired[o][i] = acquired[o][j] => i = j

\* The second look of o, for its i-th request, is past a token of this kind in lp.
Cleared(o, i, lp, kind) ==
    \/ pc[o] = "held"
    \/ /\ pc[o] = "verify"
       /\ \/ i < at[o]
          \/ /\ i = at[o]
             /\ \A item \in todo[o] : ~(item.lp = lp /\ Counts(item, kind))

\* Of two conflicting requests at most one can be past the other's token.
OneClears(o, p) ==
    \A i \in 1..Len(acquired[o]), j \in 1..Len(acquired[p]) :
        Conflicting(batch[o][i], batch[p][j]) =>
            ~(/\ Cleared(o, i, acquired[p][j], batch[p][j].kind)
              /\ Cleared(p, j, acquired[o][i], batch[o][i].kind))

IInv ==
    /\ TypeOK
    /\ NoneExpires(now)
    /\ \A o \in Owner : BatchTrees(o) /\ Resolved(o) /\ SeenIsDead(o) /\ Backed(o)
    /\ AtomicWrites =>
            blank = {} /\ \A o, p \in Owner \ swept : o # p => OneClears(o, p)

-----------------------------------------------------------------------------
\* The design notes on the last step before success: the lock files are
\* verified to carry the acquirer's own token.
OwnershipVerified ==
    [][\A o \in Owner : pc[o] = "verify" /\ pc'[o] = "held" =>
            \A i \in 1..Len(acquired[o]) :
                tokens[acquired[o][i]] # None /\ tokens[acquired[o][i]].owner = o]_vars

\* The design notes on orphan locks: a lock file that a crash left behind is
\* cleared by the acquisition that meets it once it has expired.
OrphansAreCleared ==
    [][\A o \in Owner : pc[o] = "reread" /\ pc'[o] = "rollback" /\ after'[o] = "failed" =>
            LET left == tokens[target[o]]
            IN  left = None \/ ~Crashed(left.owner) \/ ~is_stale(left, now)]_vars

=============================================================================
