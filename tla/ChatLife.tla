------------------------------ MODULE ChatLife ------------------------------
(***************************************************************************)
(* What one chat is to the rest of the program, from the moment its        *)
(* CChunkedContentProvider is built until httplib has dropped it: a thread *)
(* that may come to an end, or die and take the process along, a worker of *)
(* httplib that streams to the client, and the client, who may leave.      *)
(* ChatProvider implements this specification; ProxyServer builds on it.   *)
(***************************************************************************)
VARIABLE chat

Chats == [thread : {"running", "over", "dead"},
          worker : {"streaming", "releasing", "released"},
          client : {"there", "gone"}]

Fresh == [thread |-> "running", worker |-> "streaming", client |-> "there"]

ThreadStep(s, t) ==
  /\ s.thread = "running"
  /\ t \in {[s EXCEPT !.thread = "over"], [s EXCEPT !.thread = "dead"]}

\* Faulty variant: the thread is not joined.
WorkerStepDetached(s, t) ==
  \/ s.worker = "streaming" /\ s.client = "gone" /\ t = [s EXCEPT !.worker = "releasing"]
  \/ s.worker = "releasing" /\ t = [s EXCEPT !.worker = "released"]

\* Faulty variant: the worker never learns that the client has gone.
WorkerStepDeaf(s, t) ==
  s.worker = "releasing" /\ s.thread = "over" /\ t = [s EXCEPT !.worker = "released"]

\* The worker streams as long as the client is there, whether or not the thread
\* is over, and drops the provider by joining the thread.
WorkerStep(s, t) ==
  \/ /\ s.worker = "streaming"
     /\ s.client = "gone"
     /\ t = [s EXCEPT !.worker = "releasing"]
  \/ /\ s.worker = "releasing"
     /\ s.thread = "over"
     /\ t = [s EXCEPT !.worker = "released"]

ClientStep(s, t) ==
  /\ s.client = "there"
  /\ t = [s EXCEPT !.client = "gone"]

Step(s, t) ==
  /\ s.thread # "dead"
  /\ ThreadStep(s, t) \/ WorkerStep(s, t) \/ ClientStep(s, t)

Init == chat = Fresh

Next == \E t \in Chats : Step(chat, t) /\ chat' = t

Spec == Init /\ [][Next]_chat

(***************************************************************************)
(* When the client has gone the worker gets free again: the join of the    *)
(* destructor comes to its end, wherever the thread was                    *)
(* (chunkedcontentprovider.cpp:102-109).                                   *)
(***************************************************************************)
ClosedIsReleased ==
  chat.client = "gone" ~> (chat.worker = "released" \/ chat.thread = "dead")
=============================================================================
