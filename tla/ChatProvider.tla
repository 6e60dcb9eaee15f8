---------------------------- MODULE ChatProvider ----------------------------
(***************************************************************************)
(* CChunkedContentProvider (network/chunkedcontentprovider): one chat of   *)
(* one client. Two threads share an object:                                *)
(*                                                                         *)
(*   - the Ollama thread (RunOllamaThread) asks Ollama, feeds each chunk   *)
(*     to the content restorator, serves the commands of the model and     *)
(*     queues what the user is to see;                                     *)
(*   - the server thread of httplib calls operator(), which empties the    *)
(*     queue into the client's connection, and in the end destroys the     *)
(*     object, which joins the Ollama thread.                              *)
(*                                                                         *)
(* They meet in TCommObject: a queue and a flag that only ever rises. A    *)
(* step of a thread reads or writes that shared state once; two loads of a *)
(* flag that only rises, with nothing shared between them, count as one.   *)
(***************************************************************************)
EXTENDS Integers, Sequences, SequencesExt

CONSTANTS Chars,      \* the characters a reply is made of
          Blanks,     \* those of them std::isspace accepts
          Words,      \* the keywords of the backend, GetAiCommands()
          Pieces,     \* the contents one chunk of Ollama may carry
          MaxText,    \* bound: characters of one reply
          MaxRounds,  \* bound: replies of one chat
          NullOpt,    \* the restorator detected nothing yet
          CEnd,       \* the restorator passes everything on
          NoCommand   \* the loop detector's empty lastCommand

ASSUME ChatAssumption ==
  /\ Words \subseteq Seq(Chars)
  /\ Pieces \subseteq Seq(Chars)
  /\ {NullOpt, CEnd, NoCommand} \cap Words = {}
  /\ NullOpt # CEnd
  /\ MaxText \in Nat
  /\ MaxRounds \in Nat \ {0}

\* What the keyword list of the program satisfies: see ContentRestorator.
ASSUME KeywordAssumption ==
  /\ \A w \in Words : w # <<>> /\ w[1] \notin Blanks /\ w[Len(w)] \notin Blanks
  /\ \A v, w \in Words : IsPrefix(v, w) => v = w

VARIABLES
  ollamaToUser,   \* the queue of TCommObject
  disconnectAll,  \* the flag of TCommObject
  shouldStop,     \* the stop flag startNewRunner hands to the thread
  thread,         \* where the Ollama thread is
  outbox,         \* what it is about to pass to SendToUser
  checked,        \* it is inside SendToUser, between the test and the push
  request,        \* the messages of the next request, <<>> when empty()
  fut,            \* state of the future execOllamaRequest returns
  ping,           \* pingGen
  loopDetector,   \* loopDetector
  lastDetected, lastData, result, received,  \* commandDetector
  server,         \* where the server thread is
  what,           \* the message operator() has popped, or <<>>
  clientOpen,     \* the client still holds the connection
  written,        \* history: the messages passed to sink.write
  sent,           \* history: the requests passed to chat()
  reply,          \* history: the text received in this round
  late            \* history: pushes after the flag had risen

channelVars == <<ollamaToUser, disconnectAll>>
threadVars == <<request, fut, ping, loopDetector, sent, reply>>
sendVars == <<outbox, checked, late>>
detectorVars == <<lastDetected, lastData, result, received>>
clientVars == <<clientOpen, written>>
serverVars == <<server, what, shouldStop, clientVars>>
vars == <<channelVars, thread, threadVars, sendVars, detectorVars, serverVars>>

Detector == INSTANCE ContentRestorator WITH AiCommands <- Words
Commands == INSTANCE OllamaCommands
Loop == INSTANCE AiLoopDetector
Pinger == INSTANCE UserPinger

(***************************************************************************)
(* Messages to the user: pings, "text" (sendPlainTextToUser, or a response *)
(* that looked like a command) and "raw", a chunk of Ollama as it came.    *)
(* Only the latter can tell the client that the reply is done.             *)
(***************************************************************************)
\* Faulty variant: "done" is copied although more may follow.
PlainDone(text) == [kind |-> "text", text |-> text, done |-> TRUE]

Plain(text) == [kind |-> "text", text |-> text, done |-> FALSE]

Raw(chunk) ==
  [kind |-> "raw", text |-> chunk.content, done |-> chunk.done = "true"]

\* Messages to Ollama: the user's own, and the backend's word on a command.
FromUser == [command |-> NoCommand, answer |-> "user"]
FromBackend(command, answer) == [command |-> command, answer |-> answer]

Looping == ~ shouldStop /\ ~ disconnectAll

-----------------------------------------------------------------------------
(***************************************************************************)
(* SendToUser, for the head of the outbox: test the flag, then push.       *)
(***************************************************************************)
\* Faulty variant: the flag is not tested.
SendUnchecked ==
  /\ outbox # <<>>
  /\ ~ checked
  /\ checked' = TRUE
  /\ UNCHANGED <<outbox, channelVars, thread, threadVars, detectorVars,
                 serverVars, late>>

SendCheck ==
  /\ outbox # <<>>
  /\ ~ checked
  /\ IF disconnectAll
     THEN outbox' = Tail(outbox) /\ UNCHANGED checked
     ELSE checked' = TRUE /\ UNCHANGED outbox
  /\ UNCHANGED <<channelVars, thread, threadVars, detectorVars, serverVars,
                 late>>

SendPush ==
  /\ checked
  /\ ollamaToUser' = Append(ollamaToUser, Head(outbox))
  /\ outbox' = Tail(outbox)
  /\ checked' = FALSE
  /\ late' = IF disconnectAll THEN late + 1 ELSE late
  /\ UNCHANGED <<disconnectAll, thread, threadVars, detectorVars, serverVars>>

At(place) == thread = place /\ outbox = <<>>

-----------------------------------------------------------------------------
(***************************************************************************)
(* The outer loop: one round is one request to Ollama and its reply.       *)
(***************************************************************************)
StartRound ==
  /\ At("outer")
  /\ Looping
  /\ request # <<>>
  /\ thread' = "chat"
  /\ ping' = Pinger!Restarted
  /\ sent' = Append(sent, request)
  /\ request' = <<>>
  /\ fut' = "pending"
  /\ reply' = <<>>
  /\ UNCHANGED <<channelVars, loopDetector, sendVars, detectorVars, serverVars>>

\* pingGen.Restart takes the request's "model" for a string, and throws when it
\* is none. Every round uses the same one, so only the first can fail.
ModelMissing ==
  /\ At("outer")
  /\ Looping
  /\ sent = <<>>
  /\ thread' = "terminated"
  /\ UNCHANGED <<channelVars, threadVars, sendVars, detectorVars, serverVars>>

LeaveLoop ==
  /\ At("outer")
  /\ ~ Looping \/ request = <<>>
  /\ thread' = "closing"
  /\ outbox' = Pinger!FinishReply(ping)
  /\ ping' = Pinger!AfterFinish
  /\ UNCHANGED <<channelVars, checked, request, fut, loopDetector, sent,
                 detectorVars, serverVars, reply, late>>

\* Faulty variant: the thread first waits for the queue to be emptied.
CloseThreadDrained ==
  /\ At("closing")
  /\ ollamaToUser = <<>>
  /\ disconnectAll' = TRUE
  /\ thread' = "done"
  /\ UNCHANGED <<ollamaToUser, threadVars, sendVars, detectorVars, serverVars>>

CloseThread ==
  /\ At("closing")
  /\ disconnectAll' = TRUE
  /\ thread' = "done"
  /\ UNCHANGED <<ollamaToUser, threadVars, sendVars, detectorVars, serverVars>>

-----------------------------------------------------------------------------
(***************************************************************************)
(* ollamaServer.chat(): Ollama streams, and calls ollamaResponseHandler    *)
(* for each chunk, which answers whether to go on.                         *)
(*                                                                         *)
(* Bounds, with no counterpart in the code, which make a chat finite: a    *)
(* chunk that is not the last one carries text while anybody listens, a    *)
(* reply has at most MaxText characters, and the reply of round MaxRounds  *)
(* is not a command. The program limits neither replies nor rounds.        *)
(***************************************************************************)
MayArrive(chunk) ==
  /\ chunk.done = "false" /\ chunk.content = <<>> => disconnectAll
  /\ Len(received) + Len(chunk.content) <= MaxText
  /\ Len(sent) = MaxRounds /\ chunk.done # "absent" =>
       \A w \in Words : ~ Detector!CouldBecome(w, received \o chunk.content)

\* Faulty variant: a reply too short for any keyword is not flushed at its end.
IsPassToUser(decision) == decision.kind = "PassToUser"

IsPlainText(decision) ==
  \/ decision.kind = "PassToUser"
  \/ decision.kind = "NeedMoreData" /\ decision.status = "OllamaSentAll"

IsRelayed(decision) ==
  decision.kind = "AlreadyDetected" /\ decision.status # "CommunicationFailure"

KeepTalking == ~ disconnectAll

\* The handler up to its answer. A command ends the chat at once.
HandleResponse(chunk) ==
  /\ At("chat")
  /\ KeepTalking
  /\ Detector!Update(chunk)
  /\ reply' = IF chunk.done = "absent" THEN reply ELSE reply \o chunk.content
  /\ outbox' = CASE IsPlainText(result') ->
                      Pinger!FinishReply(ping) \o <<Plain(result'.text)>>
                 [] IsRelayed(result') -> <<Raw(chunk)>>
                 [] OTHER -> <<>>
  /\ ping' = IF IsPlainText(result') THEN Pinger!AfterFinish ELSE ping
  /\ IF result'.kind = "Detected"
     THEN thread' = "wait" /\ fut' = "set"
     ELSE thread' = "verdict" /\ UNCHANGED fut
  /\ UNCHANGED <<channelVars, checked, request, loopDetector, sent,
                 serverVars, late>>

\* When chat() returns without a command, nobody can set the promise any more.
ChatReturns ==
  /\ thread' = "wait"
  /\ fut' = "broken"
  /\ UNCHANGED <<ollamaToUser, request, ping, loopDetector, sent, sendVars,
                 detectorVars, serverVars, reply>>

\* The handler's first test.
HandlerDisconnected ==
  /\ At("chat")
  /\ ~ KeepTalking
  /\ ChatReturns
  /\ UNCHANGED disconnectAll

\* respondToUserAndOllama, once everything is sent.
KeepReading ==
  /\ At("verdict")
  /\ result.status = "OllamaHasMore"
  /\ KeepTalking
  /\ thread' = "chat"
  /\ UNCHANGED <<channelVars, threadVars, sendVars, detectorVars, serverVars>>

\* Faulty variant: the end of a reply does not disconnect.
StopReadingConnected ==
  /\ At("verdict")
  /\ result.status # "OllamaHasMore" \/ ~ KeepTalking
  /\ ChatReturns
  /\ UNCHANGED disconnectAll

StopReading ==
  /\ At("verdict")
  /\ result.status # "OllamaHasMore" \/ ~ KeepTalking
  /\ disconnectAll' = TRUE
  /\ ChatReturns

\* Ollama ends the stream before a chunk that says it is done.
StreamEnds ==
  /\ At("chat")
  /\ ChatReturns
  /\ UNCHANGED disconnectAll

\* chat() itself throws, as when Ollama cannot be reached: nothing catches it.
ChatThrows ==
  /\ At("chat")
  /\ thread' = "terminated"
  /\ UNCHANGED <<channelVars, threadVars, sendVars, detectorVars, serverVars>>

\* Reading the chunk throws. The handler takes that for a failure of Ollama.
HandlerThrows ==
  /\ At("chat")
  /\ KeepTalking
  /\ disconnectAll' = TRUE
  /\ ChatReturns

-----------------------------------------------------------------------------
(***************************************************************************)
(* The inner loop. chat() has returned, so the future is always ready.     *)
(***************************************************************************)
LeaveRound ==
  /\ At("wait")
  /\ ~ Looping
  /\ thread' = "endRound"
  /\ UNCHANGED <<channelVars, threadVars, sendVars, detectorVars, serverVars>>

FutureReady ==
  /\ At("wait")
  /\ Looping
  /\ thread' = "get"
  /\ UNCHANGED <<channelVars, threadVars, sendVars, detectorVars, serverVars>>

\* fut.get() of a broken promise throws, and nothing in the thread catches it.
\* The flag is not looked at again: it may have risen since FutureReady.
GetThrows ==
  /\ At("get")
  /\ fut = "broken"
  /\ thread' = "terminated"
  /\ UNCHANGED <<channelVars, threadVars, sendVars, detectorVars, serverVars>>

\* MakeResponseForOllama pings before it asks the command for its answer.
GetCommand ==
  /\ At("get")
  /\ fut = "set"
  /\ thread' = "serve"
  /\ outbox' = Pinger!PingReply(ping)
  /\ ping' = Pinger!AfterPing(ping)
  /\ UNCHANGED <<channelVars, checked, request, fut, loopDetector, sent,
                 detectorVars, serverVars, reply, late>>

\* A message of the proxy's own carries the time, and so does the answer to a
\* command: finding the time zone may throw, and nothing here catches that.
TimeThrows ==
  /\ \/ At("get") /\ fut = "set"
     \/ At("serve")
     \/ At("endRound") /\ Pinger!FinishReply(ping) # <<>>
  /\ thread' = "terminated"
  /\ UNCHANGED <<channelVars, threadVars, sendVars, detectorVars, serverVars>>

\* The reply was the keyword alone: answer the model, unless it repeats itself.
FulfillRequest ==
  /\ At("serve")
  /\ Commands!IsRequestToFulfill(result.word, result.text)
  /\ thread' = "endRound"
  /\ outbox' = Pinger!PingReply(ping)
  /\ ping' = Pinger!AfterPing(ping)
  /\ loopDetector' = Loop!LoopUpdate(loopDetector, result.word)
  /\ request' = <<FromUser, FromBackend(result.word,
                    IF Loop!IsLooping(loopDetector') THEN "stop" ELSE "value")>>
  /\ Detector!Reset
  /\ UNCHANGED <<channelVars, checked, fut, sent, serverVars, reply, late>>

\* The reply only began with the keyword: it was meant for the user.
RespondToUser ==
  /\ At("serve")
  /\ ~ Commands!IsRequestToFulfill(result.word, result.text)
  /\ thread' = "endRound"
  /\ outbox' = Pinger!FinishReply(ping) \o <<Plain(result.text)>>
  /\ ping' = Pinger!AfterFinish
  /\ loopDetector' = Loop!LoopReset
  /\ UNCHANGED <<channelVars, checked, request, fut, sent, detectorVars,
                 serverVars, reply, late>>

EndRound ==
  /\ At("endRound")
  /\ thread' = "outer"
  /\ outbox' = Pinger!FinishReply(ping)
  /\ ping' = Pinger!AfterFinish
  /\ UNCHANGED <<channelVars, checked, request, fut, loopDetector, sent,
                 detectorVars, serverVars, reply, late>>

-----------------------------------------------------------------------------
(***************************************************************************)
(* The server thread: operator() and the destructor. httplib calls the     *)
(* provider again and again until it answers false, or until httplib finds *)
(* the connection closed; then it drops the provider.                      *)
(***************************************************************************)
ollamaVars == <<thread, threadVars, sendVars, detectorVars>>

CallProvider ==
  /\ server = "idle"
  /\ server' = "popping"
  /\ UNCHANGED <<channelVars, ollamaVars, what, shouldStop, clientVars>>

\* Faulty variant: what is queued is left there once the flag is up.
QueueEmptyOrDisconnected ==
  /\ server = "popping"
  /\ ollamaToUser = <<>> \/ disconnectAll
  /\ server' = "idle"
  /\ UNCHANGED <<channelVars, ollamaVars, what, shouldStop, clientVars>>

\* "Keep channel opened to user": true even when there is nothing more to come.
QueueEmpty ==
  /\ server = "popping"
  /\ ollamaToUser = <<>>
  /\ server' = "idle"
  /\ UNCHANGED <<channelVars, ollamaVars, what, shouldStop, clientVars>>

GetStringForUser ==
  /\ server = "popping"
  /\ ollamaToUser # <<>>
  /\ server' = "holding"
  /\ what' = <<Head(ollamaToUser)>>
  /\ ollamaToUser' = Tail(ollamaToUser)
  /\ UNCHANGED <<disconnectAll, ollamaVars, shouldStop, clientVars>>

\* The result of sink.write is not looked at, so it may have failed.
Write ==
  /\ server = "holding"
  /\ server' = "popping"
  /\ what' = <<>>
  /\ written' = written \o what
  /\ UNCHANGED <<channelVars, ollamaVars, clientOpen, shouldStop>>

NotWritable ==
  /\ server = "holding"
  /\ ~ clientOpen
  /\ server' = "released"
  /\ disconnectAll' = TRUE
  /\ UNCHANGED <<ollamaToUser, ollamaVars, what, shouldStop, clientVars>>

\* httplib itself notices, between two calls, that the client has gone.
ConnectionLost ==
  /\ server = "idle"
  /\ ~ clientOpen
  /\ server' = "released"
  /\ UNCHANGED <<channelVars, ollamaVars, what, shouldStop, clientVars>>

Destroy ==
  /\ server = "released"
  /\ server' = "stopping"
  /\ disconnectAll' = TRUE
  /\ UNCHANGED <<ollamaToUser, ollamaVars, what, shouldStop, clientVars>>

ResetThread ==
  /\ server = "stopping"
  /\ server' = "joining"
  /\ shouldStop' = TRUE
  /\ UNCHANGED <<channelVars, ollamaVars, what, clientVars>>

\* Faulty variant: the thread is detached.
JoinDetached ==
  /\ server = "joining"
  /\ server' = "joined"
  /\ UNCHANGED <<channelVars, ollamaVars, what, shouldStop, clientVars>>

Join ==
  /\ server = "joining"
  /\ thread = "done"
  /\ server' = "joined"
  /\ UNCHANGED <<channelVars, ollamaVars, what, shouldStop, clientVars>>

\* The client may hang up at any time, or take nothing for longer than httplib
\* waits to write, which is the same to the server.
ClientCloses ==
  /\ clientOpen
  /\ clientOpen' = FALSE
  /\ UNCHANGED <<channelVars, ollamaVars, server, what, shouldStop, written>>

-----------------------------------------------------------------------------
Init ==
  /\ ollamaToUser = <<>>
  /\ disconnectAll = FALSE
  /\ shouldStop = FALSE
  /\ thread = "outer"
  /\ outbox = <<>>
  /\ checked = FALSE
  /\ request = <<FromUser>>
  /\ fut = "pending"
  /\ ping = "none"
  /\ loopDetector = Loop!LoopReset
  /\ Detector!Init
  /\ server = "idle"
  /\ what = <<>>
  /\ clientOpen = TRUE
  /\ written = <<>>
  /\ sent = <<>>
  /\ reply = <<>>
  /\ late = 0

\* An uncaught exception ends the process, and with it every thread.
Alive == thread # "terminated"

OllamaThread ==
  \/ SendCheck \/ SendPush
  \/ StartRound \/ ModelMissing \/ LeaveLoop \/ CloseThread
  \/ KeepReading \/ StopReading
  \/ LeaveRound \/ FutureReady \/ GetThrows \/ GetCommand \/ TimeThrows
  \/ FulfillRequest \/ RespondToUser \/ EndRound

Ollama ==
  \/ \E chunk \in Detector!Response : MayArrive(chunk) /\ HandleResponse(chunk)
  \/ HandlerDisconnected \/ HandlerThrows \/ StreamEnds \/ ChatThrows

ServerThread ==
  \/ CallProvider \/ QueueEmpty \/ GetStringForUser \/ Write \/ NotWritable
  \/ Destroy \/ ResetThread \/ Join

\* Nothing is left to happen once the provider is destroyed or the process dead.
Over ==
  /\ server = "joined" \/ ~ Alive
  /\ UNCHANGED vars

Next ==
  \/ Alive /\ (OllamaThread \/ Ollama \/ ServerThread \/ ConnectionLost \/ ClientCloses)
  \/ Over

Spec == Init /\ [][Next]_vars

(***************************************************************************)
(* Both threads run, httplib finds out that a client has gone, and Ollama  *)
(* goes on with a stream or ends it. Nothing makes a client hang up.       *)
(***************************************************************************)
FairSpec ==
  /\ Spec
  /\ WF_vars(Alive /\ OllamaThread)
  /\ WF_vars(Alive /\ ServerThread)
  /\ WF_vars(Alive /\ Ollama)
  /\ SF_vars(Alive /\ ConnectionLost)

-----------------------------------------------------------------------------
\* Every variable holds a value of its C++ type.
Message == [kind : {"working", "dot", "finish", "text", "raw"},
            text : Seq(Chars),
            done : BOOLEAN]

Answer == [command : Words \cup {NoCommand}, answer : {"user", "value", "stop"}]

TypeOK ==
  /\ ollamaToUser \in Seq(Message)
  /\ {disconnectAll, shouldStop, checked, clientOpen} \subseteq BOOLEAN
  /\ thread \in {"outer", "chat", "verdict", "wait", "get", "serve", "endRound",
                 "closing", "done", "terminated"}
  /\ outbox \in Seq(Message)
  /\ request \in Seq(Answer)
  /\ fut \in {"pending", "set", "broken"}
  /\ ping \in Pinger!Pinger
  /\ loopDetector \in [lastCommand : Words \cup {NoCommand}, counter : Nat]
  /\ lastDetected \in Words \cup {NullOpt, CEnd}
  /\ {lastData, received, reply} \subseteq Seq(Chars)
  /\ result \in Detector!Result
  /\ server \in {"idle", "popping", "holding", "released", "stopping",
                 "joining", "joined"}
  /\ what \in Seq(Message)
  /\ written \in Seq(Message)
  /\ sent \in Seq(Seq(Answer))
  /\ late \in Nat

\* What a user who stays has been or will be shown, in order, and its text.
Stream == written \o what \o ollamaToUser

ShownText(messages) ==
  FlattenSeq([i \in 1 .. Len(messages) |-> messages[i].text])

(***************************************************************************)
(* The user sees the reply of Ollama and nothing else of the chat: the     *)
(* texts on their way to the user, put together, are a beginning of the    *)
(* present reply, and the whole of it once Ollama has said it is done and  *)
(* the thread has finished with the client still there. Whatever replies   *)
(* were served as commands before, however the reply was cut into chunks,  *)
(* and whenever the client went (chunkedcontentprovider.cpp:289-319).      *)
(***************************************************************************)
ShownIsReply ==
  /\ IsPrefix(ShownText(Stream \o outbox), reply)
  /\ thread = "done" /\ clientOpen /\ result.status = "OllamaSentAll"
       => ShownText(Stream) = reply

(***************************************************************************)
(* A reply that is nothing but a keyword is between the model and the      *)
(* backend: while the reply so far is one, none of it is shown, in the     *)
(* first round and in every later one (cpp:310-318: "It must not be sent   *)
(* to user").                                                              *)
(***************************************************************************)
CommandsStayHidden ==
  \A w \in Words :
    IsPrefix(w, reply) /\ Commands!IsRequestToFulfill(w, reply)
      => ShownText(Stream \o outbox) = <<>>

(***************************************************************************)
(* A client can read the stream as it comes: any number of ping lines,     *)
(* each opened, continued and closed before anything else; then one text   *)
(* and chunks of Ollama; and nothing after a message that says "done", so  *)
(* that a client which stops reading there misses nothing (CPinger, the    *)
(* once_flag Ping and Finish share, ReplaceOllamaText).                    *)
(***************************************************************************)
MayFollow(first, second) ==
  \/ first.kind \in {"working", "dot"} /\ second.kind \in {"dot", "finish"}
  \/ first.kind = "finish" /\ second.kind \in {"working", "text", "raw"}
  \/ first.kind \in {"text", "raw"} /\ ~ first.done /\ second.kind = "raw"

StreamReadable ==
  /\ Stream # <<>> => Stream[1].kind \in {"working", "text", "raw"}
  /\ \A i \in 1 .. Len(Stream) - 1 : MayFollow(Stream[i], Stream[i + 1])

(***************************************************************************)
(* Nothing around the thread catches an exception, so one ends the whole   *)
(* process. A reply that is complete or failed and that begins with no     *)
(* keyword never does: the thread dies while it has yet to hear the end of *)
(* a reply (no model, chat() throws, the stream was cut and the promise    *)
(* dropped) or while it serves a reply that begins with a keyword          *)
(* (cpp:250-257, 343, 363, 366-405, 446-457).                              *)
(***************************************************************************)
PlainRepliesAreSafe ==
  thread = "terminated" =>
    IF fut = "set" THEN \E w \in Words : IsPrefix(w, reply)
    ELSE result.status = "OllamaHasMore"

(***************************************************************************)
(* Over the requests of a chat: a command gets at most two values in a     *)
(* row, each further repetition is told to stop, and no command is told    *)
(* to stop that was not repeated (CAiLoopDetector with cpp:386-397).       *)
(***************************************************************************)
AnswerOf(i) == Last(sent[i])

RepeatsAreStopped ==
  \A i \in 2 .. Len(sent) :
    (AnswerOf(i).answer = "stop") <=>
      /\ i > 3
      /\ AnswerOf(i - 1).command = AnswerOf(i).command
      /\ AnswerOf(i - 2).command = AnswerOf(i).command

(***************************************************************************)
(* SendToUser tests the flag and pushes without a lock around both, and    *)
(* operator() pops while the flag may rise: together they make a channel   *)
(* that keeps the order, loses nothing and lets at most the one message in *)
(* whose test had passed when it was closed (cpp:184-217, 466-492).        *)
(***************************************************************************)
Channel == INSTANCE UserChannel
  WITH stream <- Stream, delivered <- Len(written), closed <- disconnectAll

ChannelKept == Channel!Spec

(***************************************************************************)
(* To the rest of the program a chat behaves as ChatLife says: httplib's   *)
(* worker is held exactly until the client has gone and the thread is over,*)
(* and after that no thread is left (cpp:102-109, 179-228, runners.h).     *)
(***************************************************************************)
Life == INSTANCE ChatLife WITH chat <-
  [thread |-> CASE thread = "done" -> "over"
                [] thread = "terminated" -> "dead"
                [] OTHER -> "running",
   worker |-> CASE server \in {"idle", "popping", "holding"} -> "streaming"
                [] server = "joined" -> "released"
                [] OTHER -> "releasing",
   client |-> IF clientOpen THEN "there" ELSE "gone"]

LifeKept == Life!Spec

\* The destructor's join ends when the client has gone (cpp:102-109).
ClosedIsReleased == Life!ClosedIsReleased

(***************************************************************************)
(* From the chunk on that completes a reply, a client who stays is written *)
(* all of it, or it was a command and the restorator is reset for the next *)
(* reply, or serving it ended the process. What is still queued when       *)
(* DisconnectAll stops the thread is written all the same (cpp:184, 408).  *)
(***************************************************************************)
ReplyDelivered ==
  result.status = "OllamaSentAll"
    ~> (\/ ShownText(written) = reply \/ ~ clientOpen
        \/ result.status # "OllamaSentAll" \/ ~ Alive)

(***************************************************************************)
(* cpp:243-244 says the handler must "stop sink if we're done, otherwise   *)
(* client will keep repeating": once the thread is done, the provider lets *)
(* the response end.                                                       *)
(***************************************************************************)
SinkStopsWhenDone ==
  (thread = "done") ~> (server \in {"released", "stopping", "joining", "joined"})

(***************************************************************************)
(* cpp:370-371 takes a ready future for a "request from Ollama", to be     *)
(* handled: the value is there when get() is called.                       *)
(***************************************************************************)
ReadyMeansRequest == At("get") => fut = "set"

(***************************************************************************)
(* The conversation noted at cpp:494-498 asks the model to get the time    *)
(* twice and "compare them": a request carries every answer of the backend *)
(* so far.                                                                 *)
(***************************************************************************)
AnswersAccumulate == \A i \in 1 .. Len(sent) : Len(sent[i]) >= i
=============================================================================
