----------------------------- MODULE MCWatches ------------------------------
(* A watched file in a directory, a directory to move it to, and a memory. *)
EXTENDS Watches, TLC

CONSTANTS t1, t2

MCResources == {<<"a">>, <<"a", "x">>, <<"b">>, <<"b", "x">>}

MCUri == MCResources \cup {<<"m">>}

MCFound == {<<"a">>, <<"a", "x">>, <<"m">>}

MCWatched == t1 :> <<"a", "x">>

Symmetry == Permutations(Client)

=============================================================================
