-------------------------- MODULE ChatConstruction --------------------------
(***************************************************************************)
(* A behaviour is one request, its body as nlohmann::json parses it, and   *)
(* what the constructor of CChunkedContentProvider makes of it.            *)
(***************************************************************************)
EXTENDS ChatRequest

CONSTANTS Roles,     \* the roles a message of a request may have, Missing too
          MaxLength  \* bound: messages of a request

ASSUME LengthAssumption == MaxLength \in Nat

VARIABLES request,  \* what the user sends
          outcome   \* what the constructor makes of it, <<>> before

(***************************************************************************)
(* A request as nlohmann::json parses it: whether the body is JSON at all, *)
(* its "stream" and the roles of its "messages".                           *)
(***************************************************************************)
UserRequests ==
  [isJson : BOOLEAN,
   stream : {Missing, "notBoolean", "false", "true"},
   messages : {Missing} \cup BoundedSeq(Roles, MaxLength)]

Init ==
  /\ request \in UserRequests
  /\ outcome = <<>>

Next ==
  /\ outcome = <<>>
  /\ outcome' = <<Construct(request)>>
  /\ UNCHANGED request

Spec == Init /\ [][Next]_<<request, outcome>>

-----------------------------------------------------------------------------
Is(kind) == outcome # <<>> /\ outcome[1].kind = kind

(***************************************************************************)
(* The list of keywords ends the first run of system messages and changes  *)
(* nothing else: without it the conversation is the user's own, right      *)
(* before it stands a system message, right after it another role, and no  *)
(* run of system messages ends earlier (chunkedcontentprovider.cpp:144-176)*)
(***************************************************************************)
PromptEndsSystemRun ==
  Is("accepted") =>
    \E i \in 2 .. Len(outcome[1].messages) - 1 :
      LET told == outcome[1].messages
      IN  /\ told[i] = Prompt
          /\ RemoveAt(told, i) = request.messages
          /\ told[i - 1] = System
          /\ told[i + 1] # System
          /\ \E k \in 1 .. i - 1 : \A j \in 1 .. i - 1 : told[j] = System <=> j >= k

(***************************************************************************)
(* The iterator is never advanced past the end for a conversation in which *)
(* any system message is followed, near or far, by another role: if every  *)
(* message has a role, the behaviour is undefined just for the other       *)
(* conversations (cpp:149-156).                                            *)
(***************************************************************************)
DefinedAfterSystem ==
  Is("undefined") =>
    \/ \E i \in DOMAIN request.messages : request.messages[i] = Missing
    \/ ~ \E i, j \in DOMAIN request.messages :
           i < j /\ request.messages[i] = System /\ request.messages[j] # System
=============================================================================
