----------------------------- MODULE MCPathLock -----------------------------
(* Two owners over a directory and a file in it: subtree, directory, file  *)
(* and mixed batches against each other.                                   *)
EXTENDS PathLock

Exact(p) == [path |-> p, kind |-> "Exact"]
Tree(p) == [path |-> p, kind |-> "Tree"]

Dir == <<"a">>
File == <<"a", "b">>

MCPath == {<<>>, Dir, File}

MCFiles == {File}

MCRank == [p \in MCPath |-> Len(p)]

MCBatches ==
    [o \in Owner |-> IF o = "o1" THEN {{Tree(Dir)}, {Exact(Dir), Exact(File)}}
                     ELSE {{Exact(File)}, {Exact(Dir), Tree(Dir), Exact(File)}}]

\* A subtree against a file in it.
TreeAndFile == [o \in Owner |-> IF o = "o1" THEN {{Tree(Dir)}} ELSE {{Exact(File)}}]

=============================================================================
