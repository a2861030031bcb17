------------------------------- MODULE FsTree -------------------------------
(***************************************************************************)
(* The contract of a backend as the wrappers of crates/ragfs rely on it    *)
(* (trait FileSystem): a tree of files and directories, what a read shows  *)
(* of it and the trees a call leads to.  A call the backend refuses        *)
(* changes nothing.                                                        *)
(***************************************************************************)
EXTENDS Naturals, Sequences

CONSTANTS
    Path,     \* paths of the mount, sequences of names, <<>> is its root
    Data,     \* contents of files
    Absent, Dir, Error

Name == UNION {{p[i] : i \in 1..Len(p)} : p \in Path}

\* Paths are sequences, and what lies above a path is a path.
ASSUME PathAssumption ==
    /\ <<>> \in Path
    /\ Path \subseteq Seq(Name)
    /\ \A p \in Path : \A n \in 0..Len(p) : SubSeq(p, 1, n) \in Path

ASSUME EntryAssumption == Absent \notin Data /\ Dir \notin Data /\ Absent # Dir

-----------------------------------------------------------------------------
IsUnder(p, scope) ==
    /\ Len(scope) <= Len(p)
    /\ \A i \in 1..Len(scope) : p[i] = scope[i]

Parent(p) == IF p = <<>> THEN p ELSE SubSeq(p, 1, Len(p) - 1)

Ancestors(p) == {SubSeq(p, 1, n) : n \in 0..Len(p)}

Tree == [Path -> Data \cup {Absent, Dir}]

IsFile(d, p) == d[p] \in Data

\* The entries of a directory with what a listing shows of each (size and
\* time of a file follow its content).
Children(d, p) == {q \in Path : q # p /\ Parent(q) = p /\ d[q] # Absent}

Listing(d, p) == [q \in Children(d, p) |-> d[q]]

Contents(d, kind, p) ==
    CASE kind = "file" /\ d[p] \in Data -> d[p]
      [] kind = "dir" /\ d[p] = Dir     -> Listing(d, p)
      [] OTHER                          -> Error

Reply(kind, p, got) == [kind |-> kind, path |-> p, got |-> got]

\* Trees a call leads to.
Without(d, scope) == [p \in Path |-> IF IsUnder(p, scope) THEN Absent ELSE d[p]]

Moved(d, old, new) ==
    [p \in Path |->
        IF IsUnder(p, new)
        THEN LET q == old \o SubSeq(p, Len(new) + 1, Len(p))
             IN  IF q \in Path THEN d[q] ELSE Absent
        ELSE IF IsUnder(p, old) THEN Absent ELSE d[p]]

WithParents(d, p) ==
    [q \in Path |-> IF q # p /\ IsUnder(p, q) THEN Dir ELSE d[q]]

CanHold(d, p) == p # <<>> /\ d[Parent(p)] = Dir

\* A recursive removal that fails may have removed any part from below.
RemovedParts(d, scope) ==
    LET closed == {g \in SUBSET {p \in Path : IsUnder(p, scope)} :
                       \A p \in g, q \in Path : IsUnder(q, p) => q \in g}
    IN  {[p \in Path |-> IF p \in gone THEN Absent ELSE d[p]] : gone \in closed}

Movable(d, old, new) ==
    /\ old # <<>> /\ d[old] # Absent
    /\ CanHold(d, new)
    /\ ~IsUnder(new, old) /\ ~IsUnder(old, new)
    /\ \A p \in Path : IsUnder(p, old) /\ d[p] # Absent
                         => new \o SubSeq(p, Len(old) + 1, Len(p)) \in Path
    /\ d[new] = Absent \/ (IsFile(d, old) /\ IsFile(d, new))

=============================================================================
