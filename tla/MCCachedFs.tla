----------------------------- MODULE MCCachedFs -----------------------------
(* A directory with a file, and a place to move either to.                 *)
EXTENDS CachedFs, TLC

MCPath == {<<>>, <<"a">>, <<"b">>, <<"a", "x">>}

MCMounted ==
    {[p \in MCPath |-> CASE p \in {<<>>, <<"a">>} -> Dir [] p = <<"a", "x">> -> v [] OTHER -> Absent]
        : v \in Data}

MCUncached == {<<"b">>}

MCAsked == {<<"file", <<"b">>>>, <<"file", <<"a", "x">>>>, <<"dir", <<"a">>>>, <<"dir", <<>>>>}

Symmetry == Permutations(Client) \cup Permutations(Data)

=============================================================================
