-------------------------- MODULE MCSessionCommit --------------------------
(* SessionCommit for TLC: workers are interchangeable.                     *)
EXTENDS SessionCommit, TLC

Workers == Permutations(Worker)

============================================================================
