------------------------------ MODULE MCEvict ------------------------------
(* Three interchangeable owners on one path: two of them may find the      *)
(* third's orphaned token at the same time.                                *)
EXTENDS PathLock, TLC

Target == <<"a">>

MCPath == {<<>>, Target}

MCRank == [p \in MCPath |-> Len(p)]

MCBatches == [o \in Owner |-> {{[path |-> Target, kind |-> "Exact"]}}]

Symmetry == Permutations(Owner)

=============================================================================
