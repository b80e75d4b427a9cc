---------------------------- MODULE MCAuthoring -----------------------------
(* Small scales, two weights, and bands at nothing, a half and two thirds.  *)
(* Sections whose names share a slug, have none, or are one themselves.     *)
EXTENDS AuthoringInv

MCMinimums == {<<0, 1>>, <<1, 2>>, <<2, 3>>}

MCNames == {<<"a">>, <<"a", "!">>, <<"!">>, <<"?">>}

\* A column the import doesn't read, in the middle; and headers it refuses.
MCHeaders == {<<<<"ref">>, <<"stem">>>>, <<<<"stem">>, <<"note">>, <<" ", "ref">>>>,
              <<<<"stem">>, <<"stem">>>>, <<<<"ref">>, <<>>>>, <<<<>>, <<" ">>>>}

MCColumns == {<<"ref">>, <<"stem">>}

MCStem == <<"stem">>

MCPieces == {"x", " ", ",", ";", "\t", "\"", "\n", "\r"}

=============================================================================
