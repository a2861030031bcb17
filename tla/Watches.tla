------------------------------ MODULE Watches -------------------------------
(***************************************************************************)
(* Watch tasks: WatchManager (resource/watch_manager.py), the executions   *)
(* of WatchScheduler (resource/watch_scheduler.py), the callers in         *)
(* resource_service.py and server/routers/watches.py, and the moves and    *)
(* removals of service/fs_service.py.                                      *)
(*                                                                         *)
(* A watch task re-imports a source into its target URI from time to time. *)
(* All tasks are saved together, under the manager's lock, in four steps:  *)
(* write .tmp, remove .bak, move the store to .bak, move .tmp to the       *)
(* store.  A move is a copy and a removal (VikingFS.mv).                   *)
(*                                                                         *)
(* The leases of UriMutationCoordinator are used by what they promise (that *)
(* module shows it): accesses are shared, a mutation is alone on its URIs. *)
(* The retry loops of update_task, delete_task, get_task and _execute_task, *)
(* which take a lease on the target a task had and look again, are the     *)
(* step their last round is.  One account; sources, reasons and intervals  *)
(* are left out: a task is due whenever it is active.                      *)
(***************************************************************************)
EXTENDS Naturals, Sequences, FiniteSets, SequencesExt

CONSTANTS
    Client,     \* callers
    Task,       \* task ids
    Uri,        \* URIs, as sequences of names
    Resources,  \* those of resources, where watches are; the store's own files are not
    Found,      \* the URIs that exist at first
    Watched,    \* the tasks of the first store: a partial map from Task to Uri
    Boot,       \* the process that starts the service
    None, Torn,
    MaxConcurrency, \* executions at a time
    MaxCalls,   \* bound: calls of clients
    MaxFaults   \* bound: failed steps and crashes

ASSUME WatchAssumption ==
    /\ Found \subseteq Uri /\ Resources \subseteq Uri
    /\ MaxConcurrency \in Nat \ {0}
    /\ {MaxCalls, MaxFaults} \subseteq Nat

ASSUME UriAssumption == \A u \in Uri : u \in Seq(STRING)

\* What _tasks holds of each task, and what a save writes.
Record == [to : Uri, active : BOOLEAN]
TaskMap == [Task -> Record \cup {None}]

\* No URI is the target of two tasks at first.
ASSUME WatchedAssumption ==
    /\ DOMAIN Watched \subseteq Task
    /\ \A t \in DOMAIN Watched : Watched[t] \in Resources
    /\ \A s, t \in DOMAIN Watched : Watched[s] = Watched[t] => s = t

VARIABLES
    tasks,      \* _tasks: target and is_active of each task
    index,      \* _uri_to_task
    file,       \* the store, its backup and its successor
    tree,       \* the URIs that exist
    lock,       \* holder of WatchManager._lock
    lease,      \* the coordinator's lease of each process
    proc,       \* where each process is: clients, one execution per task, Boot
    promised,   \* history: what a restart may find
    strays,     \* history: what moves without a lease have brought
    left        \* what is left of the bounds

vars == <<tasks, index, file, tree, lock, lease, proc, promised, strays, left>>

Proc == Client \cup Task \cup {Boot}

ASSUME NoneAssumption ==
    /\ None \notin Proc \cup Uri \cup Record \cup {"done", "moved"}
    /\ {None, Torn} \cap TaskMap = {}

-----------------------------------------------------------------------------
(***************************************************************************)
(* URIs and leases.                                                        *)
(***************************************************************************)
Under(u, p) == IsPrefix(p, u)

Overlap(U, V) == \E u \in U, v \in V : Under(u, v) \/ Under(v, u)

\* _rewrite_uri_prefix
Rewrite(u, old, new) ==
    IF Under(u, old) THEN new \o SubSeq(u, Len(old) + 1, Len(u)) ELSE u

NoLease == [kind |-> "none", uris |-> {}]

CanAccess(p, uris) ==
    \A q \in Proc \ {p} : lease[q].kind = "mutation" => ~Overlap(lease[q].uris, uris)

CanMutate(p, uris) == \A q \in Proc \ {p} : ~Overlap(lease[q].uris, uris)

Access(p, uris) ==
    lease' = [lease EXCEPT ![p] = [kind |-> "access", uris |-> @.uris \cup uris]]

-----------------------------------------------------------------------------
Idle == [at |-> "idle", task |-> None, uri |-> None, new |-> None,
         after |-> None, undo |-> None]

In(p, at) == proc[p].at = at

Goto(p, at) == proc' = [proc EXCEPT ![p].at = at]

\* Ends a call or an execution; its lease goes with it.
Finish(p) ==
    /\ proc' = [proc EXCEPT ![p] = Idle]
    /\ lease' = [lease EXCEPT ![p] = NoLease]

Spend(what) ==
    /\ left[what] > 0
    /\ left' = [left EXCEPT ![what] = @ - 1]

Targeting(u) == {t \in Task : tasks[t] # None /\ Under(tasks[t].to, u)}

IndexOf(T) ==
    [u \in Uri |->
        IF \E t \in Task : T[t] # None /\ T[t].to = u
        THEN CHOOSE t \in Task : T[t] # None /\ T[t].to = u ELSE None]

-----------------------------------------------------------------------------
(***************************************************************************)
(* _save_tasks and _load_tasks.                                            *)
(***************************************************************************)

\* Writes the tasks with the lock held; goes on at `after`.
Save(p, T, after) ==
    /\ lock' = p
    /\ tasks' = T
    /\ proc' = [proc EXCEPT ![p].at = "tmp", ![p].after = after]
    /\ promised' = promised \cup {T}

\* Mutant: the store makes way for its successor without becoming the backup.
SaveStep_no_backup(at) ==
    CASE at = "tmp"    -> [file EXCEPT !.tmp = tasks]
      [] at = "rmbak"  -> [file EXCEPT !.bak = None]
      [] at = "rotate" -> [file EXCEPT !.store = None]
      [] at = "swap"   -> [file EXCEPT !.store = file.tmp, !.tmp = None]

SaveStep(at) ==
    CASE at = "tmp"    -> [file EXCEPT !.tmp = tasks]
      [] at = "rmbak"  -> [file EXCEPT !.bak = None]
      [] at = "rotate" -> IF file.store = None THEN file
                          ELSE [file EXCEPT !.bak = file.store, !.store = None]
      [] at = "swap"   -> [file EXCEPT !.store = file.tmp, !.tmp = None]

\* What a step that is broken off may leave.
Partly(at) ==
    CASE at = "tmp"    -> {file, [file EXCEPT !.tmp = Torn], [file EXCEPT !.tmp = tasks]}
      [] at = "rmbak"  -> {file, [file EXCEPT !.bak = None]}
      [] at = "rotate" -> {file} \cup (IF file.store = None THEN {}
                          ELSE {[file EXCEPT !.bak = Torn], [file EXCEPT !.bak = file.store]})
      [] at = "swap"   -> {file, [file EXCEPT !.store = Torn], [file EXCEPT !.store = file.tmp]}
      [] OTHER         -> {file}

Saving(p) == proc[p].at \in {"tmp", "rmbak", "rotate", "swap"}

NextSaveStep(at) ==
    CASE at = "tmp" -> "rmbak" [] at = "rmbak" -> "rotate" [] at = "rotate" -> "swap"

\* Mutant: what was changed for a move stays.
Failed_no_undo(p) ==
    /\ IF proc[p].after = "moved" THEN Goto(p, "rollback") /\ UNCHANGED lease ELSE Finish(p)
    /\ UNCHANGED <<tasks, index>>

\* Mutant: the targets were not kept anywhere.
Failed_forgets(p) ==
    IF proc[p].after = "moved"
    THEN /\ tasks' = [t \in Task |->
                IF t \in DOMAIN proc[p].undo.to
                THEN [tasks[t] EXCEPT !.to = None] ELSE tasks[t]]
         /\ index' = proc[p].undo.index
         /\ Goto(p, "rollback")
         /\ UNCHANGED lease
    ELSE /\ Finish(p)
         /\ UNCHANGED <<tasks, index>>

\* A failed save is an exception in the operation that saved: a move restores the
\* targets and goes back, any other keeps its change in memory.
Failed(p) ==
    IF proc[p].after = "moved"
    THEN /\ tasks' = [t \in Task |->
                IF t \in DOMAIN proc[p].undo.to
                THEN [tasks[t] EXCEPT !.to = proc[p].undo.to[t]] ELSE tasks[t]]
         /\ index' = proc[p].undo.index
         /\ Goto(p, "rollback")
         /\ UNCHANGED lease
    ELSE /\ Finish(p)
         /\ UNCHANGED <<tasks, index>>

save(p) ==
    /\ Saving(p)
    /\ file' = SaveStep(proc[p].at)
    /\ \/ /\ ~In(p, "swap")
          /\ Goto(p, NextSaveStep(proc[p].at))
          /\ UNCHANGED <<lock, lease, promised>>
       \/ /\ In(p, "swap")
          /\ lock' = None
          /\ promised' = {tasks}
          /\ Finish(p)
    /\ UNCHANGED <<tasks, index, tree, left, strays>>

\* A failed removal or rotation of the backup is passed over.
save_fails(p) ==
    /\ Saving(p)
    /\ Spend("faults")
    /\ file' \in Partly(proc[p].at)
    /\ \/ /\ proc[p].at \in {"rmbak", "rotate"}
          /\ Goto(p, NextSaveStep(proc[p].at))
          /\ UNCHANGED <<lock, lease, tasks, index>>
       \/ /\ proc[p].at \in {"tmp", "swap"}
          /\ lock' = None
          /\ Failed(p)
    /\ UNCHANGED <<tree, promised, strays>>

Readable(content) == content \notin {None, Torn}

Stored ==
    IF Readable(file'.store) THEN file'.store
    ELSE IF Readable(file'.bak) THEN file'.bak ELSE [t \in Task |-> None]

\* The process goes down in the middle of anything and comes up again: the
\* store is read, or its backup, which is then saved as the store.
restart ==
    /\ Spend("faults")
    /\ file' \in (IF lock = None THEN {file} ELSE Partly(proc[lock].at))
    /\ tasks' = Stored
    /\ index' = IndexOf(tasks')
    /\ lease' = [p \in Proc |-> NoLease]
    /\ promised' = {tasks'}
    /\ \/ /\ ~Readable(file'.store) /\ Readable(file'.bak)
          /\ lock' = Boot
          /\ proc' = [[p \in Proc |-> Idle] EXCEPT ![Boot].at = "tmp"]
       \/ /\ ~(~Readable(file'.store) /\ Readable(file'.bak))
          /\ lock' = None
          /\ proc' = [p \in Proc |-> Idle]
    /\ UNCHANGED <<tree, strays>>

-----------------------------------------------------------------------------
(***************************************************************************)
(* Calls on tasks.  A caller looks the task of a URI up and, in a later    *)
(* step, asks for the change.                                              *)
(***************************************************************************)
look_up(c, u) ==
    /\ In(c, "idle") /\ u \in Resources /\ lock = None /\ CanAccess(c, {u})
    /\ Spend("calls")
    /\ \E at \in {"create", "update", "pause", "resume", "delete"} :
          /\ (at = "create") = (index[u] = None)
          /\ proc' = [proc EXCEPT ![c] = [Idle EXCEPT !.at = at, !.task = index[u], !.uri = u]]
    /\ UNCHANGED <<tasks, index, file, tree, lock, lease, promised, strays>>

\* An id nobody has heard of.
Fresh == {t \in Task : tasks[t] = None /\ \A p \in Proc : proc[p].task # t}

create_task(c) ==
    LET u == proc[c].uri IN
    /\ In(c, "create") /\ lock = None /\ CanAccess(c, {u})
    /\ \/ /\ index[u] # None
          /\ Finish(c)
          /\ UNCHANGED <<tasks, index, lock, promised>>
       \/ /\ index[u] = None
          /\ \E t \in Fresh :
                /\ Save(c, [tasks EXCEPT ![t] = [to |-> u, active |-> TRUE]], "done")
                /\ index' = [index EXCEPT ![u] = t]
          /\ Access(c, {u})
    /\ UNCHANGED <<file, tree, left, strays>>

\* Mutant: the old target stays taken.
Retarget_keeps_old(t, u) == [index EXCEPT ![u] = t]

Retarget(t, u) == [index EXCEPT ![tasks[t].to] = None, ![u] = t]

\* update_task of add_resource: the target is set to what was asked for.
update_task(c) ==
    LET t == proc[c].task
        u == proc[c].uri
    IN  /\ In(c, "update") /\ lock = None
        /\ \/ /\ tasks[t] = None \/ index[u] \notin {None, t}
              /\ Finish(c)
              /\ UNCHANGED <<tasks, index, lock, promised>>
           \/ /\ tasks[t] # None /\ index[u] \in {None, t}
              /\ CanAccess(c, {u, tasks[t].to})
              /\ Access(c, {u, tasks[t].to})
              /\ Save(c, [tasks EXCEPT ![t] = [to |-> u, active |-> TRUE]], "done")
              /\ index' = Retarget(t, u)
        /\ UNCHANGED <<file, tree, left, strays>>

\* update_task of the scheduler, of a cancelled watch and of PATCH: is_active.
Activate(p, t, active) ==
    /\ lock = None
    /\ \/ /\ tasks[t] = None
          /\ Finish(p)
          /\ UNCHANGED <<tasks, lock, promised>>
       \/ /\ tasks[t] # None
          /\ CanAccess(p, {tasks[t].to})
          /\ Access(p, {tasks[t].to})
          /\ Save(p, [tasks EXCEPT ![t].active = active], "done")
    /\ UNCHANGED <<index, file, tree, left, strays>>

pause(c) == In(c, "pause") /\ Activate(c, proc[c].task, FALSE)

resume(c) == In(c, "resume") /\ Activate(c, proc[c].task, TRUE)

delete_task(c) ==
    LET t == proc[c].task IN
    /\ In(c, "delete") /\ lock = None
    /\ \/ /\ tasks[t] = None
          /\ Finish(c)
          /\ UNCHANGED <<tasks, index, lock, promised>>
       \/ /\ tasks[t] # None
          /\ CanAccess(c, {tasks[t].to})
          /\ Access(c, {tasks[t].to})
          /\ index' = [index EXCEPT ![tasks[t].to] = None]
          /\ Save(c, [tasks EXCEPT ![t] = None], "done")
    /\ UNCHANGED <<file, tree, left, strays>>

-----------------------------------------------------------------------------
(***************************************************************************)
(* FSService.mv and rm of resources.                                       *)
(***************************************************************************)
Moving(u) == {x \in tree : Under(x, u)}

\* VikingFS.mv: a copy, the records of the vector store, and the removal of the
\* source.
Copied(u, v) == tree \cup {Rewrite(x, u, v) : x \in Moving(u)}

Moved(u, v) == {x \in Copied(u, v) : ~Under(x, u)}

\* One that fails: in the copy, a part of which stays; at the vector store, and
\* then the target is removed, all of it if that works; in the removal.
PartlyMoved(u, v) ==
    {tree \cup part : part \in SUBSET (Copied(u, v) \ tree)}
        \cup {Copied(u, v) \ part : part \in SUBSET {x \in Copied(u, v) : Under(x, v)}}
        \cup {Copied(u, v) \ part : part \in SUBSET {x \in Copied(u, v) : Under(x, u)}}

\* Bounds: what is, or could be, below u has its place below v, and back; and of
\* two different URIs neither is below the other (the copy would be copied too).
Fits(u, v) ==
    /\ u = v \/ ~Overlap({u}, {v})
    /\ \A x \in Uri : /\ Under(x, u) => Rewrite(x, u, v) \in Uri
                      /\ Under(x, v) => Rewrite(x, v, u) \in Uri

\* FSService.mv, when not both URIs are of resources: neither a lease nor a look
\* at the watches.
mv_unwatched(c, u, v) ==
    /\ In(c, "idle") /\ left.calls > 0 /\ u \in tree /\ Fits(u, v)
    /\ ~({u, v} \subseteq Resources)
    /\ \/ /\ Spend("calls")
          /\ tree' = Moved(u, v)
       \/ /\ left.faults > 0
          /\ left' = [what \in DOMAIN left |-> left[what] - 1]
          /\ tree' \in PartlyMoved(u, v)
    /\ strays' = strays \cup (tree' \ tree)
    /\ UNCHANGED <<tasks, index, file, lock, lease, proc, promised>>

\* FSService.mv of a resource to a resource, in a task of its own that the
\* cancellation of the request leaves alone.
mv(c, u, v) ==
    /\ In(c, "idle") /\ Spend("calls") /\ u \in tree /\ Fits(u, v)
    /\ {u, v} \subseteq Resources
    /\ CanMutate(c, {u, v})
    /\ lease' = [lease EXCEPT ![c] = [kind |-> "mutation", uris |-> {u, v}]]
    /\ proc' = [proc EXCEPT ![c] = [Idle EXCEPT !.at = "validate", !.uri = u, !.new = v]]
    /\ UNCHANGED <<tasks, index, file, tree, lock, promised, strays>>

\* _plan_target_prefix_rewrite_unlocked: the tasks to move and their new targets.
Plan(u, v) == [t \in Targeting(u) |-> Rewrite(tasks[t].to, u, v)]

Conflicting(plan) == \E t \in DOMAIN plan : index[plan[t]] \notin {None, t}

validate(c) ==
    LET plan == Plan(proc[c].uri, proc[c].new) IN
    /\ In(c, "validate") /\ lock = None
    /\ IF Conflicting(plan) THEN Finish(c)
       ELSE Goto(c, "mv") /\ UNCHANGED lease
    /\ UNCHANGED <<tasks, index, file, tree, lock, promised, left, strays>>

\* The files: moved; not moved, as the source is gone, a path lock taken or the
\* target of the wrong kind; or the move fails on its way.
move_files(c) ==
    LET u == proc[c].uri
        v == proc[c].new
    IN  /\ In(c, "mv")
        /\ \/ /\ u \in tree
              /\ tree' = Moved(u, v)
              /\ Goto(c, "rewrite")
              /\ UNCHANGED <<lease, left>>
           \/ /\ Finish(c)
              /\ UNCHANGED <<tree, left>>
           \/ /\ Spend("faults")
              /\ tree' \in PartlyMoved(u, v)
              /\ Finish(c)
        /\ UNCHANGED <<tasks, index, file, lock, promised, strays>>

\* The plan is made anew, and never conflicts: the lease has kept it as validated.
rewrite_target_prefix(c) ==
    LET plan == Plan(proc[c].uri, proc[c].new) IN
    /\ In(c, "rewrite") /\ lock = None
    /\ \/ /\ DOMAIN plan = {}
          /\ Finish(c)
          /\ UNCHANGED <<tasks, index, lock, promised>>
       \/ /\ DOMAIN plan # {}
          /\ LET T == [t \in Task |-> IF t \in DOMAIN plan
                                      THEN [tasks[t] EXCEPT !.to = plan[t]] ELSE tasks[t]]
             IN  /\ tasks' = T
                 /\ index' = [w \in Uri |->
                        IF \E t \in DOMAIN plan : plan[t] = w
                        THEN CHOOSE t \in DOMAIN plan : plan[t] = w
                        ELSE IF index[w] \in DOMAIN plan THEN None ELSE index[w]]
                 /\ lock' = c
                 /\ promised' = promised \cup {T}
                 /\ proc' = [proc EXCEPT ![c].at = "tmp", ![c].after = "moved",
                        ![c].undo = [to |-> [t \in DOMAIN plan |-> tasks[t].to],
                                     index |-> index]]
          /\ UNCHANGED lease
    /\ UNCHANGED <<file, tree, left, strays>>

\* The targets could not be saved: the files go back, if they can.
rollback(c) ==
    LET u == proc[c].uri
        v == proc[c].new
    IN  /\ In(c, "rollback")
        /\ \/ /\ tree' = Moved(v, u)
              /\ UNCHANGED left
           \/ /\ Spend("faults")
              /\ tree' \in PartlyMoved(v, u)
        /\ Finish(c)
        /\ UNCHANGED <<tasks, index, file, lock, promised, strays>>

\* rm removes the files and then, in _sync_watch_after_rm, ends the watches of a
\* resource.
rm(c, u) ==
    /\ In(c, "idle")
    /\ Spend("calls")
    /\ tree' = tree \ Moving(u)
    /\ proc' = IF u \in Resources
               THEN [proc EXCEPT ![c] = [Idle EXCEPT !.at = "sync", !.uri = u]] ELSE proc
    /\ UNCHANGED <<tasks, index, file, lock, lease, promised, strays>>

deactivate_under(c) ==
    LET u == proc[c].uri IN
    /\ In(c, "sync") /\ lock = None /\ CanAccess(c, {u})
    /\ \/ /\ Targeting(u) = {}
          /\ Finish(c)
          /\ UNCHANGED <<tasks, lock, promised>>
       \/ /\ Targeting(u) # {}
          /\ Access(c, {u})
          /\ Save(c, [t \in Task |-> IF t \in Targeting(u)
                                     THEN [tasks[t] EXCEPT !.active = FALSE] ELSE tasks[t]],
                  "done")
    /\ UNCHANGED <<index, file, tree, left, strays>>

-----------------------------------------------------------------------------
(***************************************************************************)
(* WatchScheduler: one execution per task at a time (_executing_tasks).    *)
(***************************************************************************)
Mark(t) ==
    /\ In(t, "idle") /\ tasks[t] # None /\ lock = None
    /\ proc' = [proc EXCEPT ![t] = [Idle EXCEPT !.at = "marked", !.task = t]]
    /\ UNCHANGED <<tasks, index, file, tree, lock, lease, promised, strays>>

\* get_due_tasks, in the loop.
due(t) == tasks[t] # None /\ tasks[t].active /\ Mark(t) /\ UNCHANGED left

\* schedule_task: POST .../trigger, of a paused task too.
trigger(t) == Spend("calls") /\ Mark(t)

Running == {t \in Task : proc[t].at \notin {"idle", "marked"}}

\* Mutant: the task is executed as the loop found it, without a lease.
execute_task_no_lease(t) ==
    /\ In(t, "marked") /\ lock = None /\ Cardinality(Running) < MaxConcurrency
    /\ \/ /\ tasks[t] = None
          /\ Finish(t)
       \/ /\ tasks[t] # None
          /\ proc' = [proc EXCEPT ![t].at = "check", ![t].uri = tasks[t].to]
          /\ UNCHANGED lease
    /\ UNCHANGED <<tasks, index, file, tree, lock, promised, left, strays>>

\* _execute_task: the target of the moment, held to the end of the execution.
execute_task(t) ==
    /\ In(t, "marked") /\ lock = None /\ Cardinality(Running) < MaxConcurrency
    /\ \/ /\ tasks[t] = None
          /\ Finish(t)
       \/ /\ tasks[t] # None
          /\ CanAccess(t, {tasks[t].to})
          /\ Access(t, {tasks[t].to})
          /\ proc' = [proc EXCEPT ![t].at = "check", ![t].uri = tasks[t].to]
    /\ UNCHANGED <<tasks, index, file, tree, lock, promised, left, strays>>

\* The source may be gone, the target must exist; not to know is to go on.
check(t) ==
    /\ In(t, "check")
    /\ \/ Goto(t, "deactivate") /\ UNCHANGED left
       \/ proc[t].uri \in tree /\ Goto(t, "refresh") /\ UNCHANGED left
       \/ Goto(t, "refresh") /\ Spend("faults")
    /\ UNCHANGED <<tasks, index, file, tree, lock, lease, promised, strays>>

\* refresh_resource imports into the target, or fails.
refresh(t) ==
    /\ In(t, "refresh")
    /\ \/ tree' = tree \cup {proc[t].uri} /\ Goto(t, "time")
       \/ UNCHANGED tree /\ Goto(t, "time")
       \/ UNCHANGED tree /\ Goto(t, "deactivate")
    /\ UNCHANGED <<tasks, index, file, lock, lease, promised, left, strays>>

\* Mutant: the execution time is noted whatever was found.
deactivate_noted_only(t) ==
    /\ In(t, "deactivate") /\ lock = None
    /\ IF tasks[t] = None
       THEN Finish(t) /\ UNCHANGED <<tasks, lock, promised>>
       ELSE Save(t, tasks, "done") /\ UNCHANGED lease
    /\ UNCHANGED <<index, file, tree, left, strays>>

deactivate(t) == In(t, "deactivate") /\ Activate(t, t, FALSE)

update_execution_time(t) ==
    /\ In(t, "time") /\ lock = None
    /\ IF tasks[t] = None
       THEN Finish(t) /\ UNCHANGED <<tasks, lock, promised>>
       ELSE Save(t, tasks, "done") /\ UNCHANGED lease
    /\ UNCHANGED <<index, file, tree, left, strays>>

-----------------------------------------------------------------------------
First == [t \in Task |-> IF t \in DOMAIN Watched
                         THEN [to |-> Watched[t], active |-> TRUE] ELSE None]

Init ==
    /\ tasks = First
    /\ index = IndexOf(First)
    /\ file = [store |-> First, bak |-> None, tmp |-> None]
    /\ tree = Found
    /\ lock = None
    /\ lease = [p \in Proc |-> NoLease]
    /\ proc = [p \in Proc |-> Idle]
    /\ promised = {First}
    /\ strays = {}
    /\ left = [calls |-> MaxCalls, faults |-> MaxFaults]

Call(c) ==
    \/ \E u \in Uri : look_up(c, u) \/ rm(c, u)
    \/ \E u, v \in Uri : mv(c, u, v) \/ mv_unwatched(c, u, v)

Work(c) ==
    \/ create_task(c) \/ update_task(c) \/ pause(c) \/ resume(c) \/ delete_task(c)
    \/ validate(c) \/ move_files(c) \/ rewrite_target_prefix(c) \/ rollback(c)
    \/ deactivate_under(c)

Execution(t) ==
    \/ execute_task(t) \/ check(t) \/ refresh(t)
    \/ deactivate(t) \/ update_execution_time(t)

Next ==
    \/ \E c \in Client : Call(c) \/ Work(c)
    \/ \E t \in Task : due(t) \/ trigger(t) \/ Execution(t)
    \/ \E p \in Proc : save(p) \/ save_fails(p)
    \/ restart

\* Processes go on; the manager's lock is handed over in the order of requests.
Fairness ==
    /\ \A c \in Client : SF_vars(Work(c))
    /\ \A t \in Task : SF_vars(due(t)) /\ SF_vars(Execution(t))
    /\ \A p \in Proc : WF_vars(save(p))

Spec == Init /\ [][Next]_vars

FairSpec == Spec /\ Fairness

-----------------------------------------------------------------------------
(***************************************************************************)
(* Properties.                                                             *)
(***************************************************************************)
\* Values stay in their sets.
TypeOK ==
    /\ tasks \in TaskMap
    /\ index \in [Uri -> Task \cup {None}]
    /\ tree \subseteq Uri
    /\ lock \in Proc \cup {None}

\* A URI is taken in _uri_to_task exactly if one task targets it: after failed
\* saves, undone moves and restarts no target is blocked or watched twice.
IndexMatches ==
    /\ \A u \in Uri : index[u] # None => tasks[index[u]] # None /\ tasks[index[u]].to = u
    /\ \A t \in Task : tasks[t] # None => index[tasks[t].to] = t

\* A restart, be it in the middle of a save, finds the tasks of the last save
\* that was reported done, or of one that was not.
RestartKeepsSaved == [][restart => tasks' \in promised]_vars

\* A move of a resource that is over has left the files and the targets of the
\* watches below them on the same side: at the new place after a save, and then
\* nothing is left at the old one but what a move without a lease brought there
\* meanwhile; at the old place after a rollback, unless the way back fails itself.
\* One that fails while it copies and removes leaves the targets at the old place
\* and files at both; but, a move onto itself apart, it never loses one.
MoveEnds(c) ==
    /\ lease[c].kind = "mutation" /\ lease'[c] = NoLease
    /\ ~restart

MoveIsAtomic ==
    [][\A c \in Client : MoveEnds(c) =>
          LET u == proc[c].uri
              v == proc[c].new
          IN  /\ Saving(c) => \A t \in DOMAIN proc[c].undo.to :
                     tasks'[t].to = Rewrite(proc[c].undo.to[t], u, v)
              /\ In(c, "rewrite") => \A t \in Task : tasks'[t] # None => ~Under(tasks'[t].to, u)
              /\ Saving(c) \/ In(c, "rewrite") => \A x \in tree' \ strays : ~Under(x, u)
              /\ In(c, "rollback") =>
                    /\ \A t \in DOMAIN proc[c].undo.to : tasks'[t].to = proc[c].undo.to[t]
                    /\ left' = left => \A x \in tree' : ~Under(x, v)
              /\ In(c, "mv") /\ u # v =>
                    \A x \in Moving(u) : x \in tree' \/ Rewrite(x, u, v) \in tree'
              /\ In(c, "rollback") /\ u # v =>
                    \A x \in Moving(v) : x \in tree' \/ Rewrite(x, v, u) \in tree']_vars

\* What an execution refreshes is not moved away under it by the move of a resource
\* to a resource, nor by the way back: from its look at the target to the end of
\* the import it has that for itself.
NotMovedUnderRefresh ==
    [][\A t \in Task, c \in Client :
          In(t, "refresh") /\ (In(c, "mv") \/ In(c, "rollback")) /\ tree' # tree
             => refresh(t) \/ ~Overlap({proc[t].uri}, {proc[c].uri, proc[c].new})]_vars

\* The same of every move.
NeverMovedUnderRefresh ==
    [][\A t \in Task :
          In(t, "refresh") /\ (\E d \in Client, u, v \in Uri : mv_unwatched(d, u, v))
             => (proc[t].uri \in tree => proc[t].uri \in tree')]_vars

\* A watch of something that is no longer there does not stay active for ever.
StaleWatchesEnd ==
    \A t \in Task :
        (tasks[t] # None /\ tasks[t].active /\ tasks[t].to \notin tree)
            ~> (tasks[t] # None => ~tasks[t].active \/ tasks[t].to \in tree)

-----------------------------------------------------------------------------
(***************************************************************************)
(* The inductive invariant.                                                *)
(***************************************************************************)
\* A map of the tasks and an index that tell the same.
Agree(T, I) ==
    /\ \A u \in Uri : I[u] # None => T[I[u]] # None /\ T[I[u]].to = u
    /\ \A t \in Task : T[t] # None => I[T[t].to] = t

\* Maps in which no target is shared: all that is ever in a file.
Sane(T) ==
    /\ T \in TaskMap
    /\ \A s, t \in Task : T[s] # None /\ T[t] # None /\ T[s].to = T[t].to => s = t

Labels ==
    {"idle", "create", "update", "pause", "resume", "delete", "sync",
     "validate", "mv", "rewrite", "rollback", "tmp", "rmbak", "rotate", "swap",
     "marked", "check", "refresh", "time", "deactivate"}

Undo == [to : UNION {[D -> Uri] : D \in SUBSET Task}, index : [Uri -> Task \cup {None}]]

Types ==
    /\ proc \in [Proc -> [at : Labels, task : Task \cup {None}, uri : Uri \cup {None},
                          new : Uri \cup {None}, after : {None, "done", "moved"},
                          undo : Undo \cup {None}]]
    /\ lease \in [Proc -> [kind : {"none", "access", "mutation"}, uris : SUBSET Uri]]
    /\ left \in [calls : Nat, faults : Nat]
    /\ promised \subseteq TaskMap
    /\ DOMAIN file = {"store", "bak", "tmp"}
    /\ \A f \in {"store", "bak", "tmp"} : Readable(file[f]) => Sane(file[f])

LockIsHeld == \A p \in Proc : Saving(p) <=> lock = p

LeasesExclude ==
    \A p, q \in Proc :
        p # q /\ lease[p].kind = "mutation" => ~Overlap(lease[p].uris, lease[q].uris)

\* The move of a resource, from its lease to the end of its save or its rollback.
Moves(p) ==
    \/ proc[p].at \in {"validate", "mv", "rewrite", "rollback"}
    \/ Saving(p) /\ proc[p].after = "moved"

\* Once the files have gone nothing comes to their old place with a lease.
Emptied(p) ==
    Moves(p) /\ proc[p].at \notin {"validate", "mv"}
        => \A x \in tree \ strays : ~Under(x, proc[p].uri)

\* The call knows its task and its URIs, a move has them for itself.
Known(p) ==
    /\ Emptied(p)
    /\ proc[p].at \in {"create", "update", "sync"} => proc[p].uri \in Uri
    /\ proc[p].at \in {"update", "pause", "resume", "delete"} => proc[p].task \in Task
    /\ proc[p].at \in {"check", "refresh"} =>
          proc[p].uri \in Uri /\ proc[p].uri \in lease[p].uris
    /\ lease[p].kind = "mutation" <=> Moves(p)
    /\ Moves(p) =>
          /\ proc[p].uri \in Uri /\ proc[p].new \in Uri
          /\ lease[p].uris = {proc[p].uri, proc[p].new}
          /\ Fits(proc[p].uri, proc[p].new)

\* No task has the place that a task of the move will get: what
\* _plan_target_prefix_rewrite_unlocked finds before the files go it finds after.
HasRoom(p) ==
    proc[p].at \in {"mv", "rewrite"} =>
        \A s, t \in Task :
            s # t /\ t \in Targeting(proc[p].uri) /\ tasks[s] # None
                => tasks[s].to # Rewrite(tasks[t].to, proc[p].uri, proc[p].new)

\* What a move has changed can be changed back while its save goes on, and has been
\* when it is undone.
Restored(p) ==
    [t \in Task |-> IF t \in DOMAIN proc[p].undo.to
                    THEN [tasks[t] EXCEPT !.to = proc[p].undo.to[t]] ELSE tasks[t]]

CanGoBack(p) ==
    /\ Saving(p) /\ proc[p].after = "moved" =>
          /\ proc[p].undo \in Undo
          /\ Agree(Restored(p), proc[p].undo.index)
          /\ \A t \in DOMAIN proc[p].undo.to :
                /\ tasks[t] # None
                /\ Under(proc[p].undo.to[t], proc[p].uri)
                /\ tasks[t].to = Rewrite(proc[p].undo.to[t], proc[p].uri, proc[p].new)
    /\ In(p, "rollback") =>
          /\ proc[p].undo \in Undo
          /\ \A t \in DOMAIN proc[p].undo.to :
                /\ tasks[t] # None
                /\ Under(proc[p].undo.to[t], proc[p].uri)
                /\ tasks[t].to = proc[p].undo.to[t]

IInv ==
    /\ TypeOK /\ Types /\ IndexMatches /\ LockIsHeld /\ LeasesExclude
    /\ \A p \in Proc : Known(p) /\ HasRoom(p) /\ CanGoBack(p)

\* Up to the first fault the store, or the backup while there is no store, holds
\* tasks that a restart may find, and a successor is complete before it is swapped in.
SaveIsWhole ==
    /\ left.faults <= MaxFaults
    /\ left.faults = MaxFaults =>
          /\ tasks \in promised
          /\ lock # None /\ proc[lock].at \in {"rmbak", "rotate", "swap"} => file.tmp = tasks
          /\ IF lock # None /\ proc[lock].at = "swap"
             THEN file.store = None /\ file.bak \in promised
             ELSE file.store \in promised

=============================================================================
