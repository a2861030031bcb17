---------------------- MODULE MCUriMutationCoordinator ----------------------
(* Three coroutines, a directory r with a child r/a, a sibling s, the two   *)
(* scopes of a move, and the empty scope of a task without a target URI.    *)
EXTENDS UriMutationCoordinator

MCScope == { {<<"r">>}, {<<"r", "a">>}, {<<"r", "a">>, <<"s">>}, {} }
=============================================================================
