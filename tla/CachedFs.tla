------------------------------ MODULE CachedFs ------------------------------
(***************************************************************************)
(* CachedFileSystem (crates/ragfs/src/cache/wrapper.rs): a read-through     *)
(* cache of whole files and directory listings in front of a backend.      *)
(*                                                                         *)
(* Cached objects lie in a provider (memory, Redis, ...) that may lose any *)
(* key at any time and whose calls may fail.  An object is believed only   *)
(* while the generations of its path and of all ancestors are those it was *)
(* stored with; a change of a subtree bumps one generation instead of      *)
(* deleting every object below.  A provider call that fails puts its path  *)
(* into bypass.  Changes hold operation_lock for writing, cached reads for *)
(* reading; reads of bypassed paths and raw copies hold nothing.           *)
(*                                                                         *)
(* A client's label is the provider call it is about to make.  The locks   *)
(* are read off the labels: a client in `invalidate` holds operation_lock  *)
(* for writing, one in a label of Reading for reading; a client with a     *)
(* role holds an Arc of the in-flight mutex of its key.                    *)
(***************************************************************************)
EXTENDS FsTree

CONSTANTS
    Client,        \* callers
    Mounted,       \* trees found when the file system is mounted
    Uncached,      \* paths the policy keeps out of the cache
    Asked,         \* objects callers read
    CleanRestarts, \* the process stops only when idle and with nothing in bypass
    MaxCalls,      \* bound: reads and changes
    MaxMishaps,    \* bound: failed provider calls, lost keys and restarts
    None

Key == {"file", "dir"} \X Path

ASSUME BoundsAssumption ==
    /\ Asked \subseteq Key
    /\ CleanRestarts \in BOOLEAN
    /\ {MaxCalls, MaxMishaps} \subseteq Nat

\* What is mounted is a tree.
ASSUME MountedAssumption ==
    \A d \in Mounted :
        /\ d \in Tree
        /\ d[<<>>] = Dir
        /\ \A p \in Path \ {<<>>} : d[p] # Absent => CanHold(d, p)

\* A generation: the epoch of the process that began it, and its number.
Gen == Nat \X Nat

\* Generations of some paths, as an object or the memo of a grep carries them.
IsSnapshot(f) == \E S \in SUBSET Path : f \in [S -> Gen]

ASSUME NoneAssumption == None \notin Gen /\ ~IsSnapshot(None)

VARIABLES
    disk,      \* the backend
    answer,    \* what the last read returned
    object,    \* provider: file and directory objects
    gen,       \* provider: subtree generations
    local,     \* generations: the process's copy of them
    epoch,     \* generation_epoch, drawn anew by every process
    bypass,    \* bypass_scopes
    client,    \* where each caller is
    since,     \* history: what each key has held since a caller's grep began
    left       \* what is left of the bounds

cacheVars == <<object, gen, local, epoch, bypass>>

vars == <<disk, answer, cacheVars, client, since, left>>

-----------------------------------------------------------------------------
Content(d, key) == Contents(d, key[1], key[2])

Policy(p) == \A u \in Uncached : ~IsUnder(p, u)

is_runtime_bypassed(p) == \E s \in bypass : IsUnder(p, s)

\* Mutant: a failed call is only counted.
mark_bypass_forgotten(p) == bypass

\* Scopes within the new one are dropped, it is dropped itself within another.
mark_bypass(p) ==
    IF is_runtime_bypassed(p) THEN bypass
    ELSE {s \in bypass : ~IsUnder(s, p)} \cup {p}

Idle == [at |-> "idle", key |-> None, held |-> None, role |-> None,
         memo |-> None, todo |-> <<>>]

Reading == {"probe", "check", "lock", "load", "fill"}

Readers == {c \in Client : client[c].at \in Reading}

Writers == {c \in Client : client[c].at = "invalidate"}

Spend(what) ==
    /\ left[what] > 0
    /\ left' = [left EXCEPT ![what] = @ - 1]

-----------------------------------------------------------------------------
(***************************************************************************)
(* Generations.                                                            *)
(***************************************************************************)

\* A generation the provider has lost is the one the process remembers, and
\* the epoch of the process if it remembers none.
Generation(p) ==
    IF gen[p] # None THEN gen[p]
    ELSE IF local[p] # None THEN local[p] ELSE <<epoch, 0>>

\* current_generations: remembers what it found and puts back what was missing.
current_generations(scopes) ==
    /\ local' = [p \in Path |-> IF p \in scopes THEN Generation(p) ELSE local[p]]
    /\ gen' = [p \in Path |-> IF p \in scopes THEN Generation(p) ELSE gen[p]]

generation_snapshots(p) == [s \in Ancestors(p) |-> Generation(s)]

\* With a grep's memo the first value of a scope is used to its end.
Memoized(memo, scopes) ==
    [s \in scopes \cup DOMAIN memo |->
        IF s \in DOMAIN memo THEN memo[s] ELSE Generation(s)]

generations_match(env, view) == \A s \in DOMAIN env.gens : env.gens[s] = view[s]

-----------------------------------------------------------------------------
(***************************************************************************)
(* read, read_dir and, with a memo, the reads of grep_via_cache.           *)
(***************************************************************************)
In(c, at) == client[c].at = at

Step(c, at) == client' = [client EXCEPT ![c].at = at]

\* Leave with an answer: the in-flight Arc and the lock are dropped.
Return(c, key, got, memo) ==
    /\ client' = [client EXCEPT ![c] = [Idle EXCEPT !.memo = memo]]
    /\ answer' = IF memo = None THEN Reply(key[1], key[2], got) ELSE answer

\* Policy and bypass come first; a bypassed read asks the backend.
Start(c, key, memo, history) ==
    /\ In(c, "idle")
    /\ Spend("calls")
    /\ since' = [since EXCEPT ![c] = history]
    /\ IF Policy(key[2]) /\ ~is_runtime_bypassed(key[2])
       THEN /\ Writers = {}
            /\ client' = [client EXCEPT ![c] = [Idle EXCEPT !.at = "probe", !.key = key,
                                                            !.memo = memo]]
            /\ UNCHANGED answer
       ELSE Return(c, key, Content(disk, key), memo)
    /\ UNCHANGED <<disk, cacheVars>>

read(c, key) == Start(c, key, None, None)

\* grep_via_cache opens with an empty memo; its further reads share it.
grep(c, key) == Start(c, key, <<>>, [k \in Asked |-> {Content(disk, k)}])

grep_goes_on(c, key) == client[c].memo # None /\ Start(c, key, client[c].memo, since[c])

\* acquire_inflight, after a probe that found nothing: the first to miss a key
\* leads, the others follow.  A follower that has probed again holds the mutex.
Missed(c, memo) ==
    LET key == client[c].key
        leads == \A d \in Client : client[d].role # None => client[d].key # key
    IN  client' = [client EXCEPT
            ![c].at = IF client[c].role = "follower" THEN "load" ELSE "lock",
            ![c].role = IF @ # None THEN @ ELSE IF leads THEN "leader" ELSE "follower",
            ![c].held = None,
            ![c].memo = memo]

probe(c) ==
    LET key == client[c].key IN
    /\ In(c, "probe")
    /\ IF object[key] = None
       THEN Missed(c, client[c].memo)
       ELSE client' = [client EXCEPT ![c].at = "check", ![c].held = object[key]]
    /\ UNCHANGED <<disk, answer, cacheVars, since, left>>

\* The generations are read, through the memo if this is a grep's read.
check(c) ==
    LET me == client[c]
        memo == IF me.memo = None THEN <<>> ELSE me.memo
        scopes == DOMAIN me.held.gens
        view == Memoized(memo, scopes)
        kept == IF me.memo = None THEN None ELSE view
    IN  /\ In(c, "check")
        /\ current_generations(scopes \ DOMAIN memo)
        /\ \/ /\ generations_match(me.held, view)
              /\ Return(c, me.key, me.held.value, kept)
              /\ UNCHANGED object
           \/ /\ ~generations_match(me.held, view)
              /\ object' = [object EXCEPT ![me.key] = None]
              /\ Missed(c, kept)
              /\ UNCHANGED answer
        /\ UNCHANGED <<disk, epoch, bypass, since, left>>

\* The get of the object, or of the generations, or the delete of an outdated
\* object fails: the path is bypassed from now on and the read goes on.
probe_fails(c) ==
    /\ In(c, "probe") \/ In(c, "check")
    /\ Spend("mishaps")
    /\ bypass' = mark_bypass(client[c].key[2])
    /\ Missed(c, client[c].memo)
    /\ UNCHANGED <<disk, answer, object, gen, local, epoch, since>>

\* The mutex of the key: a follower that gets it probes once more.
lock_inflight(c) ==
    /\ In(c, "lock")
    /\ \A d \in Client \ {c} :
           client[d].role # None /\ client[d].key = client[c].key => In(d, "lock")
    /\ Step(c, IF client[c].role = "leader" THEN "load" ELSE "probe")
    /\ UNCHANGED <<disk, answer, cacheVars, since, left>>

load(c) ==
    LET got == Content(disk, client[c].key) IN
    /\ In(c, "load")
    /\ IF got = Error
       THEN Return(c, client[c].key, Error, client[c].memo)
       ELSE /\ client' = [client EXCEPT ![c].at = "fill", ![c].held = got]
            /\ UNCHANGED answer
    /\ UNCHANGED <<disk, cacheVars, since, left>>

\* fill_file, fill_directory: the object carries the generations found now.
fill(c) ==
    LET me == client[c]
        scopes == Ancestors(me.key[2])
    IN  /\ In(c, "fill")
        /\ current_generations(scopes)
        /\ object' = [object EXCEPT
               ![me.key] = [value |-> me.held, gens |-> generation_snapshots(me.key[2])]]
        /\ Return(c, me.key, me.held, me.memo)
        /\ UNCHANGED <<disk, epoch, bypass, since, left>>

\* The generations cannot be read (nothing is stored), or the put fails: it may
\* have arrived all the same.
fill_fails(c) ==
    LET me == client[c]
        put == [value |-> me.held, gens |-> generation_snapshots(me.key[2])]
    IN  /\ In(c, "fill")
        /\ Spend("mishaps")
        /\ \/ UNCHANGED <<object, bypass>>
           \/ /\ bypass' = mark_bypass(me.key[2])
              /\ object' \in {object, [object EXCEPT ![me.key] = put]}
        /\ Return(c, me.key, me.held, me.memo)
        /\ UNCHANGED <<disk, gen, local, epoch, since>>

-----------------------------------------------------------------------------
(***************************************************************************)
(* Changes.  One holds operation_lock for writing, changes the backend and *)
(* then makes a list of provider calls.                                    *)
(***************************************************************************)
Call(do, kind, p) == [do |-> do, key |-> <<kind, p>>, value |-> None]

bump_generation(p) == <<Call("bump", "dir", p)>>

cache_delete(kind, p) == <<Call("delete", kind, p)>>

invalidate_path_objects(p) == cache_delete("file", p) \o cache_delete("dir", p)

invalidate_parent_directory(p) == cache_delete("dir", Parent(p))

\* What a grep may have met grows with every tree.
Remember(c, d) ==
    since' = [e \in Client |->
        IF e = c \/ since[e] = None THEN None
        ELSE [key \in Asked |-> since[e][key] \cup {Content(d, key)}]]

Change(c, at, d, calls) ==
    /\ In(c, "idle")
    /\ Spend("calls")
    /\ disk' = d
    /\ Remember(c, d)
    /\ client' = [client EXCEPT ![c] = [Idle EXCEPT !.at = at, !.todo = calls]]
    /\ UNCHANGED <<answer, cacheVars>>

Mutate(c, d, calls) ==
    /\ Writers = {} /\ Readers = {}
    /\ Change(c, "invalidate", d, calls)

\* create, and chmod, which shows in no content modelled here.
create(c, p) ==
    /\ CanHold(disk, p) /\ disk[p] # Dir
    /\ \E v \in Data :
           Mutate(c, [disk EXCEPT ![p] = IF @ = Absent THEN v ELSE @],
                  invalidate_path_objects(p) \o invalidate_parent_directory(p))

\* Mutant: the size and the time a listing shows are forgotten.
write_keeps_listing(c, p) ==
    /\ CanHold(disk, p) /\ disk[p] # Dir
    /\ \E v \in Data, whole \in BOOLEAN :
           Mutate(c, [disk EXCEPT ![p] = v],
                  cache_delete("file", p)
                  \o (IF whole /\ Policy(p)
                      THEN <<[Call("fill", "file", p) EXCEPT !.value = v]>> ELSE <<>>))

\* A write of a whole file stores the new content, any other only deletes.
write(c, p) ==
    /\ CanHold(disk, p) /\ disk[p] # Dir
    /\ \E v \in Data, whole \in BOOLEAN :
           Mutate(c, [disk EXCEPT ![p] = v],
                  cache_delete("file", p)
                  \o (IF whole /\ Policy(p)
                      THEN <<[Call("fill", "file", p) EXCEPT !.value = v]>> ELSE <<>>)
                  \o invalidate_parent_directory(p))

mkdir(c, p) ==
    /\ CanHold(disk, p) /\ disk[p] = Absent
    /\ Mutate(c, [disk EXCEPT ![p] = Dir],
              bump_generation(p) \o cache_delete("dir", p) \o invalidate_parent_directory(p))

\* A directory must be empty.
remove(c, p) ==
    /\ p # <<>> /\ disk[p] # Absent /\ Children(disk, p) = {}
    /\ Mutate(c, Without(disk, p),
              bump_generation(p) \o invalidate_path_objects(p)
              \o invalidate_parent_directory(p))

\* Mutant: what lies below is left to its own keys.
remove_all_no_bump(c, p) ==
    /\ p # <<>> /\ disk[p] # Absent
    /\ \E d \in RemovedParts(disk, p) :
           Mutate(c, d, invalidate_path_objects(p) \o invalidate_parent_directory(p))

\* Invalidates whether or not the backend got through.
remove_all(c, p) ==
    /\ p # <<>> /\ disk[p] # Absent
    /\ \E d \in RemovedParts(disk, p) :
           Mutate(c, d,
                  bump_generation(p) \o invalidate_path_objects(p)
                  \o invalidate_parent_directory(p))

\* rename; replace makes the same calls for two files.
rename(c, old, new) ==
    /\ Movable(disk, old, new)
    /\ Mutate(c, Moved(disk, old, new),
              bump_generation(old) \o bump_generation(new)
              \o invalidate_path_objects(old) \o invalidate_path_objects(new)
              \o invalidate_parent_directory(old) \o invalidate_parent_directory(new))

\* Every directory above is listed anew.
ensure_parent_dirs(c, p) ==
    /\ \A a \in Ancestors(p) \ {p} : ~IsFile(disk, a)
    /\ Mutate(c, WithParents(disk, p),
              [n \in 1..(Len(Parent(p)) + 1) |-> Call("delete", "dir", SubSeq(p, 1, n - 1))])

\* copy_within_mount: parents and content are written below the cache, without
\* its lock, then the target and its parent are invalidated.
copy_within_mount(c, p) ==
    /\ p # <<>> /\ disk[p] # Dir
    /\ \A a \in Ancestors(p) \ {p} : ~IsFile(disk, a)
    /\ \E v \in Data :
           Change(c, "raw", [WithParents(disk, p) EXCEPT ![p] = v],
                   invalidate_path_objects(p) \o invalidate_parent_directory(p))

\* The next call of the list; the last one gives the lock back.
Proceed(c) ==
    LET me == client[c] IN
    client' = [client EXCEPT ![c] =
        IF Len(me.todo) = 1 THEN Idle ELSE [me EXCEPT !.todo = Tail(me.todo)]]

Pending(c) == client[c].at \in {"invalidate", "raw"}

\* What a call does to the provider and to the process's generations.
Bumped(p) == <<Generation(p)[1], Generation(p)[2] + 1>>

Apply(call) ==
    LET p == call.key[2] IN
    CASE call.do = "delete" ->
           /\ object' = [object EXCEPT ![call.key] = None]
           /\ UNCHANGED <<gen, local>>
      [] call.do = "bump" ->
           /\ local' = [local EXCEPT ![p] = Bumped(p)]
           /\ gen' = [gen EXCEPT ![p] = Bumped(p)]
           /\ UNCHANGED object
      [] call.do = "fill" ->
           /\ current_generations(Ancestors(p))
           /\ object' = [object EXCEPT
                  ![call.key] = [value |-> call.value, gens |-> generation_snapshots(p)]]

\* A write does not fill what has come into bypass.
Skipped(call) == call.do = "fill" /\ is_runtime_bypassed(call.key[2])

invalidate(c) ==
    LET call == Head(client[c].todo) IN
    /\ Pending(c)
    /\ IF Skipped(call) THEN UNCHANGED <<object, gen, local>> ELSE Apply(call)
    /\ Proceed(c)
    /\ UNCHANGED <<disk, answer, epoch, bypass, since, left>>

\* A call that fails leaves its path in bypass, whether or not it reached the
\* provider; a bump whose put fails has been remembered by the process.
invalidate_fails(c) ==
    LET call == Head(client[c].todo)
        p == call.key[2]
    IN  /\ Pending(c)
        /\ ~Skipped(call)
        /\ Spend("mishaps")
        /\ bypass' = mark_bypass(p)
        /\ \/ Apply(call)
           \/ /\ local' \in {local, [local EXCEPT ![p] = IF call.do = "bump"
                                                        THEN Bumped(p) ELSE @]}
              /\ UNCHANGED <<object, gen>>
        /\ Proceed(c)
        /\ UNCHANGED <<disk, answer, epoch, since>>

-----------------------------------------------------------------------------
(***************************************************************************)
(* The provider drops keys when it likes; the process may be restarted.    *)
(***************************************************************************)
Evict ==
    /\ Spend("mishaps")
    /\ \/ /\ \E key \in Key : object[key] # None /\ object' = [object EXCEPT ![key] = None]
          /\ UNCHANGED gen
       \/ /\ \E p \in Path : gen[p] # None /\ gen' = [gen EXCEPT ![p] = None]
          /\ UNCHANGED object
    /\ UNCHANGED <<disk, answer, local, epoch, bypass, client, since>>

\* Meanwhile the provider may have dropped the generations and kept the objects.
Restart ==
    /\ CleanRestarts => bypass = {} /\ Readers = {} /\ \A c \in Client : ~Pending(c)
    /\ Spend("mishaps")
    /\ epoch' = epoch + 1
    /\ local' = [p \in Path |-> None]
    /\ bypass' = {}
    /\ gen' \in {gen, [p \in Path |-> None]}
    /\ client' = [c \in Client |-> Idle]
    /\ since' = [c \in Client |-> None]
    /\ UNCHANGED <<disk, answer, object>>

-----------------------------------------------------------------------------
Init ==
    /\ disk \in Mounted
    /\ answer = Reply("file", <<>>, Error)
    /\ object = [key \in Key |-> None]
    /\ gen = [p \in Path |-> None]
    /\ local = [p \in Path |-> None]
    /\ epoch = 1
    /\ bypass = {}
    /\ client = [c \in Client |-> Idle]
    /\ since = [c \in Client |-> None]
    /\ left = [calls |-> MaxCalls, mishaps |-> MaxMishaps]

ReadStep(c) ==
    \/ probe(c) \/ check(c) \/ probe_fails(c)
    \/ lock_inflight(c) \/ load(c) \/ fill(c) \/ fill_fails(c)

Operation(c) ==
    \/ \E key \in Asked : read(c, key) \/ grep(c, key) \/ grep_goes_on(c, key)
    \/ \E p \in Path :
          \/ create(c, p) \/ write(c, p) \/ mkdir(c, p)
          \/ remove(c, p) \/ remove_all(c, p)
          \/ ensure_parent_dirs(c, p)
    \/ \E p, q \in Path : rename(c, p, q)

Next ==
    \/ \E c \in Client : ReadStep(c) \/ Operation(c) \/ invalidate(c) \/ invalidate_fails(c)
    \/ Evict \/ Restart

Spec == Init /\ [][Next]_vars

\* With copies within a mount, which go past the cache.
RawNext == Next \/ \E c \in Client, p \in Path : copy_within_mount(c, p)

RawSpec == Init /\ [][RawNext]_vars

-----------------------------------------------------------------------------
(***************************************************************************)
(* Properties.                                                             *)
(***************************************************************************)
\* Reads through the cache and changes behave as those of a plain file system:
\* whatever is cached, evicted, outdated or out of reach, a read returns what
\* the backend holds at that moment.
Plain == INSTANCE PlainFs WITH disk <- disk, answer <- answer

ActsAsPlainFs == Plain!Spec

\* What a read would believe, because its path is not bypassed and its
\* generations are current, is what the backend holds.
BelieveOnlyCurrent ==
    \A key \in Key :
        /\ object[key] # None
        /\ ~is_runtime_bypassed(key[2])
        /\ \A s \in Ancestors(key[2]) : object[key].gens[s] = Generation(s)
        => object[key].value = Content(disk, key)

\* Whenever no change holds the lock, nothing outdated would be believed, be it
\* filled by a reader, left behind by a removed tree or kept over a restart.
BelievedIsCurrent == Writers = {} => BelieveOnlyCurrent

\* The same when nobody is at work any more: "the cache layer must not affect
\* filesystem correctness".  It fails for copies within a mount.
QuiescentIsCurrent == (\A c \in Client : In(c, "idle")) => BelieveOnlyCurrent

\* A grep reads the generation of a directory once and believes it to its end.
\* What it finds in the cache was in the backend at some time after it began.
GrepHit(c) == In(c, "check") /\ client'[c].at = "idle" /\ client[c].memo # None

GrepIsRecent ==
    [][\A c \in Client :
          GrepHit(c) => client[c].held.value \in since[c][client[c].key]]_vars

-----------------------------------------------------------------------------
(***************************************************************************)
(* The inductive invariant of the cache, for processes that stop cleanly.  *)
(***************************************************************************)
\* What a change has still to tell the provider.
ProviderCall ==
    [do : {"bump", "delete", "fill"}, key : Key, value : Data \cup {None}]

IsMemo(f) == f = None \/ IsSnapshot(f)

Fields == {"at", "key", "held", "role", "memo", "todo"}

\* The shape of the state; what an object holds is said where it matters.
Types ==
    /\ disk \in Tree
    /\ object = [key \in Key |-> object[key]]
    /\ gen \in [Path -> {None} \cup Gen] /\ local \in [Path -> {None} \cup Gen]
    /\ epoch \in Nat
    /\ bypass \in SUBSET Path
    /\ client = [c \in Client |-> client[c]]
    /\ \A c \in Client :
          /\ DOMAIN client[c] = Fields /\ ~In(c, "raw")
          /\ IsMemo(client[c].memo)

\* operation_lock, and what its holders have in their hands.
LockIsHeld ==
    /\ \A c, d \in Writers : c = d
    /\ Writers = {} \/ Readers = {}
    /\ \A c \in Readers : client[c].key \in Key
    /\ \A c \in Writers :
          /\ client[c].todo \in Seq(ProviderCall) /\ client[c].todo # <<>>
          /\ \A i \in 1..Len(client[c].todo) :
                client[c].todo[i].do = "fill"
                    => client[c].todo[i].value = Content(disk, client[c].todo[i].key)

\* Reads of a path can meet the cache: it is not bypassed, or was not when a read
\* of it, or of something below, began.
Trusted(p) ==
    ~is_runtime_bypassed(p) \/ \E c \in Readers : IsUnder(client[c].key[2], p)

\* No generation is of a process to come, and the two copies of one agree where it
\* matters: a bump that reached only the process has put its path into bypass.
GenerationsAgree ==
    /\ \A s \in Path : gen[s] # None => gen[s][1] <= epoch
    /\ \A s \in Path : local[s] # None => local[s][1] <= epoch
    /\ \A s \in Path : Trusted(s) /\ gen[s] # None /\ local[s] # None => gen[s] = local[s]

\* A provider call still to be made takes care of the object.
Covers(call, key) ==
    \/ call.do = "delete" /\ call.key = key
    \/ call.do = "bump" /\ IsUnder(key[2], call.key[2])

Covered(calls, key) == \E i \in 1..Len(calls) : Covers(calls[i], key)

Due(key) == \E c \in Writers : Covered(client[c].todo, key)

\* The generations of an object lie behind the current ones, so that a bump ends
\* all it covers; one of this process is remembered by it.
Behind(env, p) ==
    \A s \in Ancestors(p) :
        /\ env.gens[s][1] = Generation(s)[1] => env.gens[s][2] <= Generation(s)[2]
        /\ env.gens[s][1] <= epoch
        /\ local[s] = None => env.gens[s][1] < epoch

Matches(env, p) == \A s \in Ancestors(p) : env.gens[s] = Generation(s)

Current(env, key) == env.value = Content(disk, key)

\* An object does no harm: it is current, and will not be asked for once the tree
\* changes; or its generations tell whether it is.
Sound(env, key) ==
    /\ env.gens \in [Ancestors(key[2]) -> Gen]
    /\ \/ is_runtime_bypassed(key[2]) /\ Current(env, key)
       \/ /\ Behind(env, key[2])
          /\ Matches(env, key[2]) => Current(env, key) \/ Due(key)

ObjectsAreSound ==
    \A key \in Key : object[key] # None /\ Trusted(key[2]) => Sound(object[key], key)

ReadersAreSound ==
    \A c \in Readers :
        /\ In(c, "check") => Sound(client[c].held, client[c].key)
        /\ In(c, "fill") => client[c].held = Content(disk, client[c].key)

CacheInv ==
    Types /\ LockIsHeld /\ GenerationsAgree /\ ObjectsAreSound /\ ReadersAreSound

=============================================================================
