---------------------------- MODULE MCTaskQueue ----------------------------
(***************************************************************************)
(* TaskQueue with a root message and up to two descendants, which are      *)
(* alike.                                                                  *)
(***************************************************************************)
EXTENDS TaskQueue, TLC

CONSTANTS r, c1, c2

Two == {r, c1}

Three == {r, c1, c2}

Descendants == Permutations(Msg \ {Root})

=============================================================================
