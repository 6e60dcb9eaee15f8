--------------------------- MODULE OllamaCommands ---------------------------
(***************************************************************************)
(* The pure part of commands/: the heuristic every keyword-only command    *)
(* applies to the reply it is given. A text is a sequence of characters;   *)
(* only two facts about a character matter, whether it is the same one and *)
(* whether std::isspace accepts it (the set Blanks).                       *)
(***************************************************************************)
EXTENDS Integers, Sequences, FiniteSetsExt

CONSTANT Blanks   \* the characters std::isspace accepts

(***************************************************************************)
(* trim_copy: the text without its leading and trailing blanks.            *)
(***************************************************************************)
Solid(text) == {i \in 1 .. Len(text) : text[i] \notin Blanks}

Trim(text) ==
  IF Solid(text) = {} THEN <<>>
  ELSE SubSeq(text, Min(Solid(text)), Max(Solid(text)))

\* Faulty variant of the definition below: blanks around the keyword count.
UntrimmedRequest(keyword, request) == request = keyword

(***************************************************************************)
(* MakeTypicalResponseForKeywordOnly: a text is a request to fulfil iff   *)
(* it is the keyword and nothing else; otherwise the model was talking to  *)
(* the user. The date and time such a request yields are not modelled.     *)
(***************************************************************************)
IsRequestToFulfill(keyword, request) == Trim(request) = keyword
=============================================================================
