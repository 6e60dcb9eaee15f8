---------------------------- MODULE ProxyServer -----------------------------
(***************************************************************************)
(* COllamaProxyServer (network/ollama_proxy): the routes it installs and   *)
(* their two handlers, on the worker threads of httplib. Every client      *)
(* sends one request, which waits in httplib's queue until a worker takes  *)
(* it. A forwarded request holds its worker until Ollama has answered, a   *)
(* chat holds it as ChatLife says, which is what ChatProvider implements.  *)
(***************************************************************************)
EXTENDS Integers, Sequences, FiniteSets

CONSTANTS Clients,
          Requests,    \* what they may send
          NumWorkers,  \* threads of httplib's pool
          System, Prompt, Missing,  \* as in ChatRequest
          NoChat

VARIABLES request,  \* what a client has sent
          place,    \* where the request is
          waiting,  \* httplib's queue
          chats,    \* the chats that were started
          status,   \* the status of the response
          up        \* the process is alive

vars == <<request, place, waiting, chats, status, up>>

Life(c) == INSTANCE ChatLife WITH chat <- chats[c]
Provider == INSTANCE ChatRequest

ASSUME ServerAssumption ==
  /\ IsFiniteSet(Clients)
  /\ NumWorkers \in Nat \ {0}
  /\ \A c \in Clients : NoChat \notin Life(c)!Chats

NoRequest == [method |-> "none"]

(***************************************************************************)
(* The routes of InstallHandlers: "/api/chat" comes first, and the pattern *)
(* "/(.+)" wants something after the slash.                                *)
(***************************************************************************)
Route(r) ==
  CASE r.method = "POST" /\ r.path = "/api/chat" -> "HandlePostApiChat"
    [] r.method \in {"GET", "POST", "PUT", "DELETE"} /\ r.path # "/"
         /\ ~ (r.method = "POST" /\ r.path = "/api/chat")
         -> "DefaultProxyEverything"
    [] OTHER -> "none"

IsJson(r) == r.contentType = "application/json"

\* The provider's constructor throws, succeeds, or is undefined.
Fate(r) == Provider!Construct(r.body).kind

-----------------------------------------------------------------------------
Arrive(c) ==
  /\ place[c] = "away"
  /\ request' \in {[request EXCEPT ![c] = r] : r \in Requests}
  /\ place' = [place EXCEPT ![c] = "waiting"]
  /\ waiting' = Append(waiting, c)
  /\ UNCHANGED <<chats, status, up>>

Held == {c \in Clients : place[c] \in {"handling", "constructing", "streaming"}}

TakeRequest ==
  /\ waiting # <<>>
  /\ Cardinality(Held) < NumWorkers
  /\ place' = [place EXCEPT ![Head(waiting)] = "handling"]
  /\ waiting' = Tail(waiting)
  /\ UNCHANGED <<request, chats, status, up>>

Handles(c, handler) == place[c] = "handling" /\ Route(request[c]) = handler

Respond(c, code) ==
  /\ place' = [place EXCEPT ![c] = "finished"]
  /\ status' = [status EXCEPT ![c] = code]
  /\ UNCHANGED <<request, waiting, chats, up>>

NotFound(c) == Handles(c, "none") /\ Respond(c, "404")

\* What Ollama may answer to a forwarded request: 200 as well as an error.
Forwarded == {"200", "404", "500"}

\* Faulty variant: an error of the client for Ollama is not looked at.
DefaultProxyUnset(c) ==
  /\ Handles(c, "DefaultProxyEverything")
  /\ \E code \in Forwarded \cup {"none"} : Respond(c, code)

\* The status is what Ollama answered, unless nothing could be got from it.
DefaultProxyEverything(c) ==
  /\ Handles(c, "DefaultProxyEverything")
  /\ \E code \in Forwarded \cup {"502"} : Respond(c, code)

(***************************************************************************)
(* HandlePostApiChat: the status is 504 for a wrong content type; else it  *)
(* is 200, then the provider is built, and 504 again if that throws.       *)
(***************************************************************************)
RejectContentType(c) ==
  /\ Handles(c, "HandlePostApiChat")
  /\ ~ IsJson(request[c])
  /\ Respond(c, "504")

BeginChat(c) ==
  /\ Handles(c, "HandlePostApiChat")
  /\ IsJson(request[c])
  /\ place' = [place EXCEPT ![c] = "constructing"]
  /\ status' = [status EXCEPT ![c] = "200"]
  /\ UNCHANGED <<request, waiting, chats, up>>

RefuseChat(c) ==
  /\ place[c] = "constructing"
  /\ Fate(request[c]) = "rejected"
  /\ Respond(c, "504")

\* The provider's thread starts. What is undefined may go well.
StartChat(c) ==
  /\ place[c] = "constructing"
  /\ Fate(request[c]) \in {"accepted", "undefined"}
  /\ chats' = [chats EXCEPT ![c] = Life(c)!Fresh]
  /\ place' = [place EXCEPT ![c] = "streaming"]
  /\ UNCHANGED <<request, waiting, status, up>>

\* Or it may not.
PromptCrashes(c) ==
  /\ place[c] = "constructing"
  /\ Fate(request[c]) = "undefined"
  /\ up' = FALSE
  /\ UNCHANGED <<request, place, waiting, chats, status>>

\* A thread that dies takes the process along, with everybody else's chat.
Becomes(c, t) ==
  /\ chats' = [chats EXCEPT ![c] = t]
  /\ up' = (t.thread # "dead")
  /\ place' = [place EXCEPT ![c] = IF t.worker = "released" THEN "finished" ELSE @]
  /\ UNCHANGED <<request, waiting, status>>

ThreadGoes(c) ==
  /\ place[c] = "streaming"
  /\ \E t \in Life(c)!Chats : Life(c)!ThreadStep(chats[c], t) /\ Becomes(c, t)

WorkerGoes(c) ==
  /\ place[c] = "streaming"
  /\ \E t \in Life(c)!Chats : Life(c)!WorkerStep(chats[c], t) /\ Becomes(c, t)

ClientGoes(c) ==
  /\ place[c] = "streaming"
  /\ \E t \in Life(c)!Chats : Life(c)!ClientStep(chats[c], t) /\ Becomes(c, t)

-----------------------------------------------------------------------------
Init ==
  /\ request = [c \in Clients |-> NoRequest]
  /\ place = [c \in Clients |-> "away"]
  /\ waiting = <<>>
  /\ chats = [c \in Clients |-> NoChat]
  /\ status = [c \in Clients |-> "none"]
  /\ up = TRUE

Handle(c) ==
  \/ NotFound(c) \/ DefaultProxyEverything(c)
  \/ RejectContentType(c) \/ BeginChat(c) \/ RefuseChat(c) \/ StartChat(c)
  \/ PromptCrashes(c)

\* Thread or worker of a chat whose client has gone get on with its release.
Release(c) ==
  /\ place[c] = "streaming"
  /\ chats[c].client = "gone"
  /\ ThreadGoes(c) \/ WorkerGoes(c)

Next ==
  /\ up
  /\ \/ TakeRequest
     \/ \E c \in Clients :
          \/ Arrive(c) \/ Handle(c)
          \/ ThreadGoes(c) \/ WorkerGoes(c) \/ ClientGoes(c)

Spec == Init /\ [][Next]_vars

(***************************************************************************)
(* Workers take what waits, a handler returns (the client for Ollama has a *)
(* timeout), and a chat whose client has gone is released: the property    *)
(* ClosedIsReleased of ChatProvider. Nobody must come or leave, and the    *)
(* chat of a client who stays need not get on.                             *)
(***************************************************************************)
FairSpec ==
  /\ Spec
  /\ WF_vars(up /\ TakeRequest)
  /\ \A c \in Clients :
       /\ WF_vars(up /\ Handle(c))
       /\ WF_vars(up /\ Release(c))

-----------------------------------------------------------------------------
\* Every variable holds a value of its type; who waits is queued, and who has been
\* answered has a status.
TypeOK ==
  /\ request \in [Clients -> Requests \cup {NoRequest}]
  /\ place \in [Clients -> {"away", "waiting", "handling", "constructing",
                           "streaming", "finished"}]
  /\ waiting \in Seq({c \in Clients : place[c] = "waiting"})
  /\ \A c \in Clients : chats[c] \in Life(c)!Chats \cup {NoChat}
  /\ status \in [Clients -> Forwarded \cup {"none", "200", "404", "502", "504"}]
  /\ \A c \in Clients :
       status[c] # "none" <=> place[c] \in {"constructing", "streaming", "finished"}
  /\ up \in BOOLEAN

Running(c) == chats[c] # NoChat /\ chats[c].thread = "running"

(***************************************************************************)
(* However many clients come, and leave while their chats go on, there     *)
(* are never more Ollama threads than httplib has workers: none            *)
(* survives the provider it belongs to (ollama_proxy.cpp:119-127 with the  *)
(* destructor, chunkedcontentprovider.cpp:102-109).                        *)
(***************************************************************************)
ThreadsBounded == Cardinality({c \in Clients : Running(c)}) <= NumWorkers

(***************************************************************************)
(* A request waits for ever only if every worker streams to a client who   *)
(* stays: as operator() never ends a response, that many such clients stop *)
(* the server, but departed clients, refused chats and requests that are   *)
(* forwarded do not (chunkedcontentprovider.cpp:217).                      *)
(***************************************************************************)
HeldForGood ==
  {c \in Clients : place[c] = "streaming" /\ chats[c].client = "there"}

RequestsServed ==
  \A c \in Clients :
    place[c] = "waiting" ~>
      (place[c] # "waiting" \/ ~ up \/ Cardinality(HeldForGood) = NumWorkers)
=============================================================================
