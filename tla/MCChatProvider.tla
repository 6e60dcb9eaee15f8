--------------------------- MODULE MCChatProvider ---------------------------
(***************************************************************************)
(* Constants for ChatProvider: a keyword of two characters, so that a      *)
(* reply can be too short, the keyword, the keyword with a blank or with   *)
(* more text, or something else, in one chunk or in several; and, for the  *)
(* runs about many rounds, two keywords of one character in whole chunks.  *)
(***************************************************************************)
EXTENDS ChatProvider

TextChars == {"k", "x", " "}
TextBlanks == {" "}
TextWords == {<<"k", "k">>}
TextPieces == {<<>>, <<"k">>, <<"k", "k">>, <<"x">>, <<" ">>}

LoopChars == {"k", "m", "x"}
LoopWords == {<<"k">>, <<"m">>}
LoopPieces == {<<"k">>, <<"m">>, <<"x">>}
=============================================================================
