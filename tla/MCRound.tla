------------------------------ MODULE MCRound ------------------------------
(* Instances of Round: hostnames and ids with the characters that matter. *)
EXTENDS Round

TwoNodes   == {"n1", "n2"}
NameInUse  == <<"n", "_", "1">>
SomeNames  == {<<>>, <<"h", T!Backslash, ".">>}
SomeIDs    == {<<>>, <<T!Backslash, "_">>}
OneID      == {<<"unknown">>}
=============================================================================
