------------------------ MODULE MCContentRestorator -------------------------
(***************************************************************************)
(* Two keywords of different length over three characters and a blank; one *)
(* of them is in the global command list, the other (as in the tests) not. *)
(***************************************************************************)
EXTENDS ContentRestorator

MCChars == {"a", "b", "c", " "}
MCBlanks == {" "}
MCAiCommands == {<<"a", "b">>}
MCWords == MCAiCommands \cup {<<"b", "a", "c">>}
MCPieces == {<<>>, <<"a">>, <<"b">>, <<"c">>, <<" ">>,
             <<"a", "b">>, <<"b", "a">>, <<" ", " ">>, <<"a", "b", " ", "c">>}
=============================================================================
