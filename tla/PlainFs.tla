------------------------------ MODULE PlainFs ------------------------------
(***************************************************************************)
(* What a mounted file system promises its callers: one tree, changed in   *)
(* one step, and reads that answer with what the tree holds at the moment  *)
(* they return.  CachedFs is shown to implement it.                        *)
(***************************************************************************)
EXTENDS FsTree

VARIABLES
    disk,     \* the tree
    answer    \* what the last read returned

vars == <<disk, answer>>

Writes(d) ==
    {[d EXCEPT ![p] = v] : p \in {q \in Path : CanHold(d, q) /\ d[q] # Dir}, v \in Data}

Copies(d) ==
    {[WithParents(d, p) EXCEPT ![p] = v] :
        p \in {q \in Path \ {<<>>} : \A a \in Ancestors(q) \ {q} : ~IsFile(d, a)}, v \in Data}

Mkdirs(d) ==
    {[d EXCEPT ![p] = Dir] : p \in {q \in Path : CanHold(d, q) /\ d[q] = Absent}}

Removes(d) ==
    {Without(d, p) : p \in {q \in Path \ {<<>>} : Children(d, q) = {}}}

RemoveAlls(d) ==
    UNION {RemovedParts(d, p) : p \in {q \in Path \ {<<>>} : d[q] # Absent}}

Renames(d) ==
    {Moved(d, m[1], m[2]) : m \in {n \in Path \X Path : Movable(d, n[1], n[2])}}

Ensures(d) ==
    {WithParents(d, p) : p \in {q \in Path : \A a \in Ancestors(q) \ {q} : ~IsFile(d, a)}}

-----------------------------------------------------------------------------
Init ==
    /\ disk \in Tree
    /\ disk[<<>>] = Dir
    /\ \A p \in Path \ {<<>>} : disk[p] # Absent => CanHold(disk, p)
    /\ answer = Reply("file", <<>>, Error)

Change ==
    /\ disk' \in Writes(disk) \cup Copies(disk) \cup Mkdirs(disk) \cup Removes(disk) \cup RemoveAlls(disk)
                 \cup Renames(disk) \cup Ensures(disk)
    /\ UNCHANGED answer

Read ==
    /\ \E kind \in {"file", "dir"}, p \in Path :
           answer' = Reply(kind, p, Contents(disk, kind, p))
    /\ UNCHANGED disk

Next == Change \/ Read

Spec == Init /\ [][Next]_vars

=============================================================================
