---------------------------- MODULE ChatRequest -----------------------------
(***************************************************************************)
(* The constructor of CChunkedContentProvider as a function of the user's  *)
(* request, up to the start of the thread: it checks the request and       *)
(* inserts the list of keywords as a system message                        *)
(* (MakeCommandsAvailForAi). Of a message only the role counts; the list   *)
(* of keywords is the message Prompt.                                      *)
(***************************************************************************)
EXTENDS Integers, Sequences, SequencesExt

CONSTANTS System,  \* the role "system"
          Prompt,  \* the message inserted
          Missing  \* a field the request, or one of its messages, does not have

Accepted(messages) == [kind |-> "accepted", messages |-> messages]
Rejected == [kind |-> "rejected", messages |-> <<>>]
Undefined == [kind |-> "undefined", messages |-> <<>>]

\* Faulty variant: the two roles of the predicate are swapped.
BoundariesSwapped(messages) ==
  {i \in 1 .. Len(messages) - 1 :
     messages[i] # messages[i + 1] /\ messages[i + 1] = System}

\* What std::adjacent_find looks for: a system message before another role.
Boundaries(messages) ==
  {i \in 1 .. Len(messages) - 1 :
     messages[i] # messages[i + 1] /\ messages[i] = System}

End(messages) == Len(messages) + 1

AdjacentFind(messages) ==
  IF Boundaries(messages) = {} THEN End(messages) ELSE Min(Boundaries(messages))

\* Faulty variant: the iterator is not advanced.
PlaceBefore(messages) == AdjacentFind(messages)

\* The iterator is advanced, from end() too, before it is compared with end().
Place(messages) ==
  LET it == AdjacentFind(messages) + 1
  IN  IF it = End(messages) THEN 1 ELSE it

\* The predicate reads the roles up to the first boundary with the const
\* operator[], which has no value for a message without one.
ReadsMissingRole(messages) ==
  /\ Len(messages) > 1
  /\ \E i \in DOMAIN messages :
       /\ messages[i] = Missing
       /\ \A b \in Boundaries(messages) : i <= b + 1

\* To insert behind end() is undefined, for the vector below the JSON array.
MakeCommandsAvailForAi(messages) ==
  IF ReadsMissingRole(messages) \/ Place(messages) > End(messages) THEN Undefined
  ELSE Accepted(InsertAt(messages, Place(messages), Prompt))

(***************************************************************************)
(* Without "messages" the insertion throws, as into a null value.          *)
(***************************************************************************)
Construct(asked) ==
  IF ~ asked.isJson \/ asked.stream # "true" \/ asked.messages = Missing
  THEN Rejected
  ELSE MakeCommandsAvailForAi(asked.messages)
=============================================================================
