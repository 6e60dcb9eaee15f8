-------------------------- MODULE ChatProviderProofs ------------------------
(***************************************************************************)
(* Proofs about ChatProvider, for every alphabet, every keywords and       *)
(* chunks, and any number of rounds.                                       *)
(***************************************************************************)
EXTENDS ChatProvider, TextLemmas

-----------------------------------------------------------------------------
(* A chat implements ChatLife.                                             *)

Ended == {"done", "terminated"}

Streaming == {"idle", "popping", "holding"}

ThreadLife(place) ==
  CASE place = "done" -> "over"
    [] place = "terminated" -> "dead"
    [] OTHER -> "running"

WorkerLife(place) ==
  CASE place \in Streaming -> "streaming"
    [] place = "joined" -> "released"
    [] OTHER -> "releasing"

LifeState == [thread |-> ThreadLife(thread),
              worker |-> WorkerLife(server),
              client |-> IF clientOpen THEN "there" ELSE "gone"]

\* A step of the Ollama thread leaves the server thread alone, and the thread has
\* a next step only while it has not ended.
LEMMA ThreadSide ==
  ASSUME OllamaThread \/ Ollama
  PROVE  /\ server' = server /\ clientOpen' = clientOpen
         /\ thread' = thread \/ thread \notin Ended
<1>1. CASE SendCheck \/ SendPush
  BY <1>1 DEF SendCheck, SendPush, serverVars, clientVars
<1>2. CASE StartRound \/ ModelMissing \/ LeaveLoop \/ CloseThread
  BY <1>2 DEF StartRound, ModelMissing, LeaveLoop, CloseThread, At, Ended,
              serverVars, clientVars
<1>3. CASE KeepReading \/ StopReading \/ LeaveRound \/ EndRound
  BY <1>3 DEF KeepReading, StopReading, LeaveRound, EndRound,
              ChatReturns, At, Ended, serverVars, clientVars
<1>4. CASE FutureReady \/ GetThrows \/ GetCommand \/ TimeThrows
           \/ FulfillRequest \/ RespondToUser
  BY <1>4 DEF FutureReady, GetThrows, GetCommand, TimeThrows, FulfillRequest,
              RespondToUser, At, Ended, serverVars, clientVars
<1>5. ASSUME NEW chunk \in Detector!Response, HandleResponse(chunk)
      PROVE  /\ server' = server /\ clientOpen' = clientOpen
             /\ thread \notin Ended
  BY <1>5 DEF HandleResponse, At, Ended, serverVars, clientVars
<1>6. CASE HandlerDisconnected \/ HandlerThrows \/ StreamEnds \/ ChatThrows
  BY <1>6 DEF HandlerDisconnected, HandlerThrows, StreamEnds, ChatThrows,
              ChatReturns, At, Ended, serverVars, clientVars
<1> QED BY <1>1, <1>2, <1>3, <1>4, <1>5, <1>6 DEF OllamaThread, Ollama

\* A step of the other side leaves the Ollama thread alone.
LEMMA ServerSide ==
  ASSUME ServerThread \/ ConnectionLost \/ ClientCloses
  PROVE  /\ thread' = thread
         /\ \/ /\ WorkerLife(server') = WorkerLife(server)
               /\ clientOpen' = clientOpen
            \/ /\ server \in Streaming /\ server' = "released"
               /\ ~ clientOpen /\ clientOpen' = clientOpen
            \/ /\ server = "joining" /\ server' = "joined"
               /\ thread = "done" /\ clientOpen' = clientOpen
            \/ /\ server' = server
               /\ clientOpen /\ ~ clientOpen'
<1>1. CASE CallProvider \/ QueueEmpty \/ GetStringForUser \/ Write
  BY <1>1 DEF CallProvider, QueueEmpty, GetStringForUser, Write, ollamaVars,
              clientVars, WorkerLife, Streaming
<1>2. CASE NotWritable \/ ConnectionLost
  BY <1>2 DEF NotWritable, ConnectionLost, ollamaVars, clientVars, Streaming
<1>3. CASE Destroy \/ ResetThread
  BY <1>3 DEF Destroy, ResetThread, ollamaVars, clientVars, WorkerLife, Streaming
<1>4. CASE Join
  BY <1>4 DEF Join, ollamaVars, clientVars
<1>5. CASE ClientCloses
  BY <1>5 DEF ClientCloses, ollamaVars
<1> QED BY <1>1, <1>2, <1>3, <1>4, <1>5 DEF ServerThread

LEMMA LifeSteps ==
  ASSUME Next
  PROVE  Life!Next \/ UNCHANGED LifeState
<1>1. CASE Over
  BY <1>1 DEF Over, vars, serverVars, clientVars, LifeState
<1>t. LifeState' \in Life!Chats
  BY DEF LifeState, ThreadLife, WorkerLife, Life!Chats
<1>n. ASSUME Life!Step(LifeState, LifeState')
      PROVE  Life!Next
  BY <1>t, <1>n DEF Life!Next, LifeState, ThreadLife, WorkerLife, Streaming
<1>2. CASE Alive /\ (OllamaThread \/ Ollama)
  <2>1. CASE ThreadLife(thread') = ThreadLife(thread)
    BY <1>2, <2>1, ThreadSide DEF LifeState
  <2>2. CASE ThreadLife(thread') # ThreadLife(thread)
    <3>1. thread \notin Ended /\ thread' \in Ended
      BY <1>2, <2>2, ThreadSide DEF ThreadLife, Ended
    <3>2. Life!ThreadStep(LifeState, LifeState')
      BY <1>2, <3>1, ThreadSide
      DEF LifeState, ThreadLife, Ended, Life!ThreadStep
    <3>3. LifeState.thread # "dead"
      BY <3>1 DEF LifeState, ThreadLife, Ended
    <3> QED BY <1>n, <3>2, <3>3 DEF Life!Step
  <2> QED BY <2>1, <2>2
<1>3. CASE Alive /\ (ServerThread \/ ConnectionLost \/ ClientCloses)
  <2>1. LifeState.thread # "dead"
    BY <1>3 DEF Alive, LifeState, ThreadLife
  <2>2. CASE WorkerLife(server') = WorkerLife(server) /\ clientOpen' = clientOpen
    BY <1>3, <2>2, ServerSide DEF LifeState
  <2>3. CASE /\ server \in Streaming /\ server' = "released"
             /\ ~ clientOpen /\ clientOpen' = clientOpen
    <3>1. Life!WorkerStep(LifeState, LifeState')
      BY <1>3, <2>3, ServerSide
      DEF LifeState, WorkerLife, Streaming, Life!WorkerStep
    <3> QED BY <1>n, <2>1, <3>1 DEF Life!Step
  <2>4. CASE /\ server = "joining" /\ server' = "joined"
             /\ thread = "done" /\ clientOpen' = clientOpen
    <3>1. Life!WorkerStep(LifeState, LifeState')
      BY <1>3, <2>4, ServerSide
      DEF LifeState, ThreadLife, WorkerLife, Streaming, Life!WorkerStep
    <3> QED BY <1>n, <2>1, <3>1 DEF Life!Step
  <2>5. CASE server' = server /\ clientOpen /\ ~ clientOpen'
    <3>1. thread' = thread
      BY <1>3, ServerSide
    <3>2. LifeState = [thread |-> ThreadLife(thread),
                       worker |-> WorkerLife(server), client |-> "there"]
      BY <2>5 DEF LifeState
    <3>3. LifeState' = [thread |-> ThreadLife(thread),
                        worker |-> WorkerLife(server), client |-> "gone"]
      BY <2>5, <3>1 DEF LifeState, ThreadLife, WorkerLife
    <3>4. Life!ClientStep(LifeState, LifeState')
      BY <3>2, <3>3 DEF Life!ClientStep
    <3> QED BY <1>n, <2>1, <3>4 DEF Life!Step
  <2> QED BY <1>3, <2>2, <2>3, <2>4, <2>5, ServerSide
<1> QED BY <1>1, <1>2, <1>3 DEF Next

(***************************************************************************)
(* Every chat, with any keywords and any stream of Ollama, lives as the    *)
(* rest of the program takes it to live (ChatLife): its worker is free     *)
(* only when the client has gone and no thread is left                     *)
(* (chunkedcontentprovider.cpp:102-109, 179-228, 356-410).                 *)
(***************************************************************************)
THEOREM LivesAsPromised == Spec => LifeKept
<1>1. Init => Life!Init
  BY DEF Init, Life!Init, Life!Fresh
<1>2. [Next]_vars => [Life!Next]_LifeState
  BY LifeSteps DEF vars, serverVars, clientVars, LifeState
<1> QED BY <1>1, <1>2, PTL
    DEF Spec, LifeKept, Life!Spec, LifeState, ThreadLife, WorkerLife, Streaming

-----------------------------------------------------------------------------
(* Types.                                                                  *)

DetectorTypes ==
  /\ lastDetected \in Words \cup {NullOpt, CEnd}
  /\ lastData \in Seq(Chars)
  /\ received \in Seq(Chars)
  /\ result \in Detector!Result

ChunkTypes(chunk) ==
  /\ chunk.content \in Seq(Chars)
  /\ chunk.done \in {"true", "false", "absent"}
  /\ Detector!Status(chunk) \in {"OllamaHasMore", "OllamaSentAll"}
  /\ Detector!Collected(chunk) \in Seq(Chars)
  /\ received \o chunk.content \in Seq(Chars)

LEMMA ChunkTyped ==
  ASSUME DetectorTypes, NEW chunk \in Detector!Response
  PROVE  ChunkTypes(chunk)
<1>1. /\ chunk.content \in Seq(Chars)
      /\ chunk.done \in {"true", "false", "absent"}
  BY ChatAssumption DEF Detector!Response
<1> QED BY <1>1, ConcatProperties
        DEF DetectorTypes, ChunkTypes, Detector!Status, Detector!Collected

\* What Update returns, made of parts of the right types.
LEMMA ReturnTyped ==
  ASSUME NEW status \in {"OllamaHasMore", "OllamaSentAll", "CommunicationFailure"},
         NEW kind \in {"None", "NeedMoreData", "PassToUser", "Detected",
                       "AlreadyDetected", "Threw"},
         NEW text \in Seq(Chars), NEW word \in Words \cup {NullOpt},
         Detector!Return(status, kind, text, word)
  PROVE  /\ result' \in Detector!Result
         /\ result'.status = status /\ result'.kind = kind
         /\ result'.text = text /\ result'.word = word
BY DEF Detector!Return, Detector!Result, Detector!Text

\* The restorator's part of the variables keeps to its types, and a command that
\* is handed over is a keyword.
LEMMA UpdateTyped ==
  ASSUME DetectorTypes, NEW chunk \in Detector!Response, Detector!Update(chunk)
  PROVE  DetectorTypes' /\ (result'.kind = "Detected" => result'.word \in Words)
<1>c. ChunkTypes(chunk)
  BY ChunkTyped
<1>e. <<>> \in Seq(Chars)
  BY EmptySeq
<1>w. ASSUME lastDetected # NullOpt, lastDetected # CEnd
      PROVE  lastDetected \in Words
  BY <1>w DEF DetectorTypes
<1> DEFINE Goal == DetectorTypes' /\ (result'.kind = "Detected" => result'.word \in Words)
<1>a. ASSUME received' = received \o chunk.content
      PROVE  received' \in Seq(Chars)
  BY <1>a, <1>c DEF ChunkTypes
<1>n. ASSUME NEW w \in Words \cup {NullOpt}, Detector!NeedMoreData(chunk, w),
             received' = received \o chunk.content
      PROVE  Goal
  <2>1. Detector!Return(Detector!Status(chunk), "NeedMoreData",
                        Detector!Collected(chunk), NullOpt)
    BY <1>n DEF Detector!NeedMoreData
  <2>2. result' \in Detector!Result /\ result'.kind = "NeedMoreData"
    BY <1>c, <2>1, ReturnTyped DEF ChunkTypes
  <2> QED BY <1>a, <1>c, <1>n, <2>2
          DEF DetectorTypes, ChunkTypes, Detector!NeedMoreData
<1>p. ASSUME Detector!FinalizePassToUser(chunk),
             received' = received \o chunk.content
      PROVE  Goal
  <2>1. Detector!Return(Detector!Status(chunk), "PassToUser",
                        Detector!Collected(chunk), NullOpt)
    BY <1>p DEF Detector!FinalizePassToUser
  <2>2. result' \in Detector!Result /\ result'.kind = "PassToUser"
    BY <1>c, <2>1, ReturnTyped DEF ChunkTypes
  <2> QED BY <1>a, <1>e, <1>p, <2>2 DEF DetectorTypes, Detector!FinalizePassToUser
<1>d. ASSUME NEW w \in Words, Detector!AllReceivedResult(chunk, w),
             received' = received \o chunk.content
      PROVE  Goal
  <2>1. Detector!Return("OllamaSentAll", "Detected", Detector!Collected(chunk), w)
    BY <1>d DEF Detector!AllReceivedResult
  <2>2. result' \in Detector!Result /\ result'.word = w
    BY <1>c, <2>1, ReturnTyped DEF ChunkTypes
  <2> QED BY <1>a, <1>e, <1>d, <2>2 DEF DetectorTypes, Detector!AllReceivedResult
<1>1. CASE Detector!NoDone(chunk)
  <2>1. Detector!Return("CommunicationFailure", "AlreadyDetected", <<>>, NullOpt)
    BY <1>1 DEF Detector!NoDone
  <2>2. result' \in Detector!Result /\ result'.kind = "AlreadyDetected"
    BY <1>e, <2>1, ReturnTyped
  <2> QED BY <1>1, <2>2 DEF DetectorTypes, Detector!NoDone
<1>2. CASE Detector!AlreadyDecided(chunk)
  <2>1. Detector!Return(Detector!Status(chunk), "AlreadyDetected", <<>>, NullOpt)
    BY <1>2 DEF Detector!AlreadyDecided
  <2>2. result' \in Detector!Result /\ result'.kind = "AlreadyDetected"
    BY <1>c, <1>e, <2>1, ReturnTyped DEF ChunkTypes
  <2> QED BY <1>a, <1>2, <2>2 DEF DetectorTypes, Detector!AlreadyDecided
<1>3. CASE Detector!FullyReceived(chunk)
  BY <1>3, <1>w, <1>d DEF Detector!FullyReceived, Detector!Receiving
<1>4. CASE Detector!PartlyReceived(chunk)
  <2>1. received' = received \o chunk.content /\ lastDetected \in Words
    BY <1>4, <1>w DEF Detector!PartlyReceived, Detector!Receiving
  <2>2. Detector!NeedMoreData(chunk, lastDetected) \/ Detector!FinalizePassToUser(chunk)
    BY <1>4, <2>1 DEF Detector!PartlyReceived
  <2> QED BY <2>1, <2>2, <1>n, <1>p
<1>5. CASE Detector!Recognize(chunk)
  <2>1. PICK w \in Words :
          Detector!NeedMoreData(chunk, w) \/ Detector!AllReceivedResult(chunk, w)
    BY <1>5 DEF Detector!Recognize, Detector!Matching, Detector!Fitting
  <2>2. received' = received \o chunk.content
    BY <1>5 DEF Detector!Recognize, Detector!Receiving
  <2> QED BY <2>1, <2>2, <1>n, <1>d
<1>6. CASE Detector!StillTooShort(chunk)
  BY <1>6, <1>n DEF Detector!StillTooShort, Detector!Receiving
<1>7. CASE Detector!NothingFound(chunk)
  BY <1>7, <1>p DEF Detector!NothingFound, Detector!Receiving
<1> QED BY <1>1, <1>2, <1>3, <1>4, <1>5, <1>6, <1>7 DEF Detector!Update

\* Init and Reset leave the restorator with nothing.
LEMMA ResetTyped ==
  /\ Detector!Init => DetectorTypes /\ result.status = "OllamaHasMore"
  /\ Detector!Reset => DetectorTypes' /\ result'.status = "OllamaHasMore"
<1>1. <<>> \in Seq(Chars)
  BY EmptySeq
<1>2. Detector!NoResult \in Detector!Result
      /\ Detector!NoResult.status = "OllamaHasMore"
  BY <1>1 DEF Detector!NoResult, Detector!Result, Detector!Text
<1> QED BY <1>1, <1>2 DEF Detector!Init, Detector!Reset, DetectorTypes

ServerTypes ==
  /\ ollamaToUser \in Seq(Message)
  /\ what \in Seq(Message)
  /\ written \in Seq(Message)
  /\ disconnectAll \in BOOLEAN
  /\ shouldStop \in BOOLEAN
  /\ clientOpen \in BOOLEAN
  /\ server \in {"idle", "popping", "holding", "released", "stopping",
                 "joining", "joined"}

SendTypes ==
  /\ outbox \in Seq(Message)
  /\ checked \in BOOLEAN
  /\ late \in Nat
  /\ checked => outbox # <<>>

ThreadTypes ==
  /\ thread \in {"outer", "chat", "verdict", "wait", "get", "serve", "endRound",
                 "closing", "done", "terminated"}
  /\ request \in Seq(Answer)
  /\ fut \in {"pending", "set", "broken"}
  /\ ping \in Pinger!Pinger
  /\ loopDetector \in [lastCommand : Words \cup {NoCommand}, counter : Nat]
  /\ sent \in Seq(Seq(Answer))
  /\ reply \in Seq(Chars)

\* A promise that is set holds a keyword, and only such a one is served.
Answering == {"wait", "get", "serve"}

FutureHoldsCommand ==
  /\ thread \in Answering /\ fut = "set" => result.word \in Words
  /\ thread = "serve" => fut = "set"

ChatTypes ==
  ServerTypes /\ SendTypes /\ ThreadTypes /\ DetectorTypes /\ FutureHoldsCommand

\* The pinger's messages and states, and the messages made of a text.
LEMMA PingerTyped ==
  ASSUME NEW p \in Pinger!Pinger
  PROVE  /\ Pinger!PingReply(p) \in Seq(Message)
         /\ Pinger!FinishReply(p) \in Seq(Message)
         /\ Pinger!AfterPing(p) \in Pinger!Pinger
         /\ Pinger!AfterFinish \in Pinger!Pinger
         /\ Pinger!Restarted \in Pinger!Pinger
<1>1. <<>> \in Seq(Chars)
  BY EmptySeq
<1>2. \A k \in {"working", "dot", "finish"} : Pinger!Notice(k) \in Message
  BY <1>1 DEF Pinger!Notice, Message
<1>3. \A k \in {"working", "dot", "finish"} : <<Pinger!Notice(k)>> \in Seq(Message)
  BY <1>2
<1>4. <<>> \in Seq(Message)
  BY EmptySeq
<1>5. Pinger!PingReply(p) \in Seq(Message)
  BY <1>3, <1>4 DEF Pinger!PingReply
<1>6. Pinger!FinishReply(p) \in Seq(Message)
  BY <1>3, <1>4 DEF Pinger!FinishReply
<1> QED BY <1>5, <1>6
        DEF Pinger!Pinger, Pinger!AfterPing, Pinger!AfterFinish, Pinger!Restarted

LEMMA TextTyped ==
  /\ \A text \in Seq(Chars) : <<Plain(text)>> \in Seq(Message)
  /\ \A chunk \in Detector!Response : <<Raw(chunk)>> \in Seq(Message)
<1>1. ASSUME NEW text \in Seq(Chars)
      PROVE  <<Plain(text)>> \in Seq(Message)
  <2>1. Plain(text) \in Message
    BY DEF Plain, Message
  <2> QED BY <2>1
<1>2. ASSUME NEW chunk \in Detector!Response
      PROVE  <<Raw(chunk)>> \in Seq(Message)
  <2>1. Raw(chunk) \in Message
    BY ChatAssumption DEF Raw, Message, Detector!Response
  <2> QED BY <2>1
<1> QED BY <1>1, <1>2

LEMMA SendTyped ==
  ASSUME ChatTypes, SendCheck \/ SendPush
  PROVE  ChatTypes'
<1>1. CASE SendCheck
  <2>1. UNCHANGED <<thread, ServerTypes, ThreadTypes, DetectorTypes, fut, result>>
    BY <1>1 DEF SendCheck, channelVars, threadVars, detectorVars, serverVars,
                clientVars, ServerTypes, ThreadTypes, DetectorTypes
  <2>2. SendTypes'
    BY <1>1, HeadTailProperties DEF SendCheck, ChatTypes, SendTypes
  <2> QED BY <2>1, <2>2 DEF ChatTypes, FutureHoldsCommand
<1>2. CASE SendPush
  <2>1. UNCHANGED <<thread, ThreadTypes, DetectorTypes, fut, result>>
    BY <1>2 DEF SendPush, threadVars, detectorVars, ThreadTypes, DetectorTypes
  <2>2. outbox # <<>> /\ outbox \in Seq(Message) /\ late \in Nat
        /\ ollamaToUser \in Seq(Message)
    BY <1>2 DEF SendPush, ChatTypes, SendTypes, ServerTypes
  <2>3. Head(outbox) \in Message /\ Tail(outbox) \in Seq(Message)
    BY <2>2, HeadTailProperties
  <2>4. Append(ollamaToUser, Head(outbox)) \in Seq(Message)
    BY <2>2, <2>3, AppendProperties
  <2>5. SendTypes'
    <3>1. outbox' = Tail(outbox) /\ checked' = FALSE
          /\ (late' = late + 1 \/ late' = late)
      BY <1>2 DEF SendPush
    <3>2. late' \in Nat
      BY <2>2, <3>1
    <3>3. checked' \in BOOLEAN /\ (checked' => outbox' # <<>>)
      BY <3>1
    <3> QED BY <2>3, <3>1, <3>2, <3>3 DEF SendTypes
  <2>6. ServerTypes'
    BY <1>2, <2>4 DEF SendPush, serverVars, clientVars, ChatTypes, ServerTypes
  <2> QED BY <2>1, <2>5, <2>6 DEF ChatTypes, FutureHoldsCommand
<1> QED BY <1>1, <1>2

\* A step of the thread from a place where nothing is left to be sent.
LEMMA PlaceTyped ==
  ASSUME ChatTypes, outbox = <<>>, UNCHANGED <<checked, late, serverVars>>,
         ollamaToUser' = ollamaToUser, disconnectAll' \in BOOLEAN,
         outbox' \in Seq(Message),
         ThreadTypes', DetectorTypes', FutureHoldsCommand'
  PROVE  ChatTypes'
<1>1. ServerTypes'
  BY DEF ChatTypes, ServerTypes, serverVars, clientVars
<1>2. SendTypes'
  BY DEF ChatTypes, SendTypes
<1> QED BY <1>1, <1>2 DEF ChatTypes

\* The steps of the thread that send nothing and leave the restorator alone.
LEMMA QuietTyped ==
  ASSUME ChatTypes,
         \/ StartRound \/ ModelMissing \/ CloseThread \/ KeepReading \/ StopReading
         \/ LeaveRound \/ FutureReady \/ GetThrows \/ TimeThrows
         \/ HandlerDisconnected \/ HandlerThrows \/ StreamEnds \/ ChatThrows
  PROVE  ChatTypes'
<1>1. outbox = <<>> /\ UNCHANGED <<outbox, checked, late, serverVars, ollamaToUser>>
      /\ disconnectAll' \in {TRUE, disconnectAll}
      /\ UNCHANGED detectorVars
  BY DEF StartRound, ModelMissing, CloseThread, KeepReading, StopReading,
         LeaveRound, FutureReady, GetThrows, TimeThrows, HandlerDisconnected,
         HandlerThrows, StreamEnds, ChatThrows, ChatReturns, At, sendVars, channelVars
<1>2. disconnectAll' \in BOOLEAN /\ outbox' \in Seq(Message)
  BY <1>1 DEF ChatTypes, ServerTypes, SendTypes
<1>3. DetectorTypes' /\ result' = result
  BY <1>1 DEF ChatTypes, DetectorTypes, detectorVars
<1>4. CASE StartRound
  <2>1. <<>> \in Seq(Chars) /\ <<>> \in Seq(Answer)
    BY EmptySeq
  <2>2. Append(sent, request) \in Seq(Seq(Answer))
    BY AppendProperties DEF ChatTypes, ThreadTypes
  <2>3. ThreadTypes' /\ thread' \notin Answering
    BY <1>4, <2>1, <2>2
    DEF StartRound, ChatTypes, ThreadTypes, Pinger!Restarted, Pinger!Pinger, Answering
  <2> QED BY <1>1, <1>2, <1>3, <2>3, PlaceTyped DEF FutureHoldsCommand, Answering
<1>5. CASE ModelMissing \/ CloseThread \/ KeepReading \/ LeaveRound \/ GetThrows
           \/ TimeThrows \/ ChatThrows
  <2>1. ThreadTypes' /\ thread' \notin Answering
    BY <1>5 DEF ModelMissing, CloseThread, KeepReading, LeaveRound, GetThrows,
                TimeThrows, ChatThrows, threadVars, ChatTypes, ThreadTypes, Answering
  <2> QED BY <1>1, <1>2, <1>3, <2>1, PlaceTyped DEF FutureHoldsCommand, Answering
<1>6. CASE HandlerDisconnected \/ HandlerThrows \/ StreamEnds \/ StopReading
  <2>1. ThreadTypes' /\ thread' = "wait" /\ fut' # "set"
    BY <1>6 DEF HandlerDisconnected, HandlerThrows, StreamEnds, StopReading,
                ChatReturns, ChatTypes, ThreadTypes
  <2> QED BY <1>1, <1>2, <1>3, <2>1, PlaceTyped DEF FutureHoldsCommand, Answering
<1>7. CASE FutureReady
  <2>1. ThreadTypes' /\ thread = "wait" /\ thread' = "get" /\ fut' = fut
    BY <1>7 DEF FutureReady, At, threadVars, ChatTypes, ThreadTypes
  <2>2. FutureHoldsCommand'
    BY <1>3, <2>1 DEF ChatTypes, FutureHoldsCommand, Answering
  <2> QED BY <1>1, <1>2, <1>3, <2>1, <2>2, PlaceTyped
<1> QED BY <1>4, <1>5, <1>6, <1>7

LEMMA FinishTyped ==
  ASSUME ChatTypes, LeaveLoop \/ EndRound
  PROVE  ChatTypes'
<1>1. outbox = <<>> /\ UNCHANGED <<checked, late, serverVars, channelVars>>
      /\ UNCHANGED detectorVars /\ outbox' = Pinger!FinishReply(ping)
  BY DEF LeaveLoop, EndRound, At
<1>2. ping \in Pinger!Pinger
  BY DEF ChatTypes, ThreadTypes
<1>3. ollamaToUser' = ollamaToUser /\ disconnectAll' \in BOOLEAN
  BY <1>1 DEF channelVars, ChatTypes, ServerTypes
<1>4. outbox' \in Seq(Message)
  BY <1>1, <1>2, PingerTyped
<1>5. DetectorTypes'
  BY <1>1 DEF ChatTypes, DetectorTypes, detectorVars
<1>6. ThreadTypes' /\ thread' \notin Answering
  BY <1>2, PingerTyped DEF LeaveLoop, EndRound, ChatTypes, ThreadTypes, Answering
<1> QED BY <1>1, <1>3, <1>4, <1>5, <1>6, PlaceTyped DEF FutureHoldsCommand, Answering

\* The first ping of a command.
LEMMA GetTyped ==
  ASSUME ChatTypes, GetCommand
  PROVE  ChatTypes'
<1>1. /\ outbox = <<>> /\ UNCHANGED <<checked, late, serverVars, channelVars>>
      /\ thread = "get" /\ fut = "set" /\ fut' = fut /\ thread' = "serve"
      /\ UNCHANGED detectorVars /\ outbox' = Pinger!PingReply(ping)
  BY DEF GetCommand, At
<1>2. ping \in Pinger!Pinger
  BY DEF ChatTypes, ThreadTypes
<1>3. ollamaToUser' = ollamaToUser /\ disconnectAll' \in BOOLEAN
  BY <1>1 DEF channelVars, ChatTypes, ServerTypes
<1>4. outbox' \in Seq(Message)
  BY <1>1, <1>2, PingerTyped
<1>5. DetectorTypes' /\ result' = result
  BY <1>1 DEF ChatTypes, DetectorTypes, detectorVars
<1>6. ThreadTypes'
  BY <1>2, PingerTyped DEF GetCommand, ChatTypes, ThreadTypes
<1>7. FutureHoldsCommand'
  BY <1>1, <1>5 DEF ChatTypes, FutureHoldsCommand, Answering
<1> QED BY <1>1, <1>3, <1>4, <1>5, <1>6, <1>7, PlaceTyped

LEMMA HandleTyped ==
  ASSUME ChatTypes, NEW chunk \in Detector!Response, HandleResponse(chunk)
  PROVE  ChatTypes'
<1>1. outbox = <<>> /\ UNCHANGED <<checked, late, serverVars, channelVars>>
      /\ Detector!Update(chunk)
  BY DEF HandleResponse, At
<1>2. DetectorTypes' /\ (result'.kind = "Detected" => result'.word \in Words)
  BY <1>1, UpdateTyped DEF ChatTypes
<1>3. chunk.content \in Seq(Chars) /\ ping \in Pinger!Pinger /\ reply \in Seq(Chars)
  BY ChatAssumption DEF Detector!Response, ChatTypes, ThreadTypes
<1>4. outbox' \in Seq(Message)
  <2>1. result'.text \in Seq(Chars)
    BY <1>2 DEF DetectorTypes, Detector!Result, Detector!Text
  <2>2. Pinger!FinishReply(ping) \in Seq(Message)
        /\ <<Plain(result'.text)>> \in Seq(Message)
        /\ <<Raw(chunk)>> \in Seq(Message) /\ <<>> \in Seq(Message)
    BY <1>3, <2>1, PingerTyped, TextTyped, EmptySeq
  <2>3. Pinger!FinishReply(ping) \o <<Plain(result'.text)>> \in Seq(Message)
    BY <2>2, ConcatProperties
  <2>4. outbox' \in {Pinger!FinishReply(ping) \o <<Plain(result'.text)>>,
                     <<Raw(chunk)>>, <<>>}
    BY DEF HandleResponse
  <2> QED BY <2>2, <2>3, <2>4
<1>5. ThreadTypes'
  <2>1. reply' \in Seq(Chars)
    BY <1>3, ConcatProperties DEF HandleResponse
  <2>2. ping' \in Pinger!Pinger
    BY <1>3, PingerTyped DEF HandleResponse
  <2> QED BY <2>1, <2>2 DEF HandleResponse, ChatTypes, ThreadTypes
<1>6. FutureHoldsCommand'
  BY <1>2 DEF HandleResponse, FutureHoldsCommand, Answering
<1>7. ollamaToUser' = ollamaToUser /\ disconnectAll' \in BOOLEAN
  BY <1>1 DEF channelVars, ChatTypes, ServerTypes
<1> QED BY <1>1, <1>2, <1>4, <1>5, <1>6, <1>7, PlaceTyped

LEMMA CommandTyped ==
  ASSUME ChatTypes, FulfillRequest \/ RespondToUser
  PROVE  ChatTypes'
<1>1. outbox = <<>> /\ UNCHANGED <<checked, late, serverVars, channelVars>>
      /\ thread = "serve" /\ fut = "set" /\ thread' = "endRound"
      /\ UNCHANGED <<fut, sent, reply>>
  BY DEF FulfillRequest, RespondToUser, At, ChatTypes, FutureHoldsCommand
<1>2. result.word \in Words /\ ping \in Pinger!Pinger
  BY <1>1 DEF ChatTypes, FutureHoldsCommand, Answering, ThreadTypes
<1>3. ollamaToUser' = ollamaToUser /\ disconnectAll' \in BOOLEAN
      /\ FutureHoldsCommand'
  BY <1>1 DEF channelVars, ChatTypes, ServerTypes, FutureHoldsCommand, Answering
<1>p. /\ Pinger!PingReply(ping) \in Seq(Message)
      /\ Pinger!AfterPing(ping) \in Pinger!Pinger
      /\ Pinger!FinishReply(ping) \in Seq(Message)
      /\ Pinger!AfterFinish \in Pinger!Pinger
  BY <1>2, PingerTyped
<1>4. CASE FulfillRequest
  <2>1. outbox' \in Seq(Message)
    BY <1>4, <1>p DEF FulfillRequest
  <2>2. DetectorTypes'
    BY <1>4, ResetTyped DEF FulfillRequest
  <2>3. loopDetector' \in [lastCommand : Words \cup {NoCommand}, counter : Nat]
    <3> DEFINE Loops == [lastCommand : Words \cup {NoCommand}, counter : Nat]
    <3>1. loopDetector \in Loops
      BY DEF ChatTypes, ThreadTypes
    <3>2. \A d \in Loops, w \in Words : Loop!LoopUpdate(d, w) \in Loops
      BY DEF Loop!LoopUpdate
    <3>3. loopDetector' = Loop!LoopUpdate(loopDetector, result.word)
      BY <1>4 DEF FulfillRequest
    <3> QED BY <1>2, <3>1, <3>2, <3>3
  <2>4. request' \in Seq(Answer)
    <3>1. FromUser \in Answer
      BY DEF FromUser, Answer
    <3>2. \A a \in {"stop", "value"} : FromBackend(result.word, a) \in Answer
      BY <1>2 DEF FromBackend, Answer
    <3>3. \E a \in {"stop", "value"} :
            request' = <<FromUser, FromBackend(result.word, a)>>
      BY <1>4 DEF FulfillRequest
    <3> QED BY <3>1, <3>2, <3>3
  <2>5. ThreadTypes'
    BY <1>1, <1>4, <1>p, <2>3, <2>4 DEF FulfillRequest, ChatTypes, ThreadTypes
  <2> QED BY <1>1, <1>3, <2>1, <2>2, <2>5, PlaceTyped
<1>5. CASE RespondToUser
  <2>1. result.text \in Seq(Chars)
    BY DEF ChatTypes, DetectorTypes, Detector!Result, Detector!Text
  <2>2. <<Plain(result.text)>> \in Seq(Message)
    BY <2>1, TextTyped
  <2>3. outbox' \in Seq(Message)
    BY <1>5, <1>p, <2>2, ConcatProperties DEF RespondToUser
  <2>4. DetectorTypes'
    BY <1>5 DEF RespondToUser, ChatTypes, DetectorTypes, detectorVars
  <2>5. ThreadTypes'
    BY <1>1, <1>5, <1>p DEF RespondToUser, Loop!LoopReset, ChatTypes, ThreadTypes
  <2> QED BY <1>1, <1>3, <2>3, <2>4, <2>5, PlaceTyped
<1> QED BY <1>4, <1>5

\* A step of httplib's thread, or of the client.
LEMMA ServerTyped ==
  ASSUME ChatTypes, ServerThread \/ ConnectionLost \/ ClientCloses
  PROVE  ChatTypes'
<1>1. UNCHANGED ollamaVars
  BY DEF ServerThread, ConnectionLost, ClientCloses, CallProvider, QueueEmpty,
         GetStringForUser, Write, NotWritable, Destroy, ResetThread, Join
<1>2. SendTypes' /\ ThreadTypes' /\ DetectorTypes' /\ FutureHoldsCommand'
  BY <1>1 DEF ollamaVars, sendVars, threadVars, detectorVars, ChatTypes,
              SendTypes, ThreadTypes, DetectorTypes, FutureHoldsCommand
<1>3. CASE GetStringForUser
  <2>1. Head(ollamaToUser) \in Message /\ Tail(ollamaToUser) \in Seq(Message)
    BY <1>3, HeadTailProperties DEF GetStringForUser, ChatTypes, ServerTypes
  <2>2. <<Head(ollamaToUser)>> \in Seq(Message)
    BY <2>1
  <2>3. ServerTypes'
    BY <1>3, <2>1, <2>2 DEF GetStringForUser, clientVars, ChatTypes, ServerTypes
  <2> QED BY <1>2, <2>3 DEF ChatTypes
<1>4. CASE Write
  <2>1. written \o what \in Seq(Message) /\ <<>> \in Seq(Message)
    BY ConcatProperties, EmptySeq DEF ChatTypes, ServerTypes
  <2>2. ServerTypes'
    BY <1>4, <2>1 DEF Write, channelVars, ChatTypes, ServerTypes
  <2> QED BY <1>2, <2>2 DEF ChatTypes
<1>5. CASE CallProvider \/ QueueEmpty \/ NotWritable \/ Destroy \/ ResetThread
           \/ Join \/ ConnectionLost \/ ClientCloses
  <2>1. ServerTypes'
    BY <1>5 DEF CallProvider, QueueEmpty, NotWritable, Destroy, ResetThread, Join,
         ConnectionLost, ClientCloses, channelVars, clientVars, ChatTypes, ServerTypes
  <2> QED BY <1>2, <2>1 DEF ChatTypes
<1> QED BY <1>3, <1>4, <1>5 DEF ServerThread

LEMMA InitTyped == Init => ChatTypes
<1> SUFFICES ASSUME Init PROVE ChatTypes
  OBVIOUS
<1>1. <<>> \in Seq(Message) /\ <<>> \in Seq(Chars) /\ <<>> \in Seq(Seq(Answer))
  BY EmptySeq
<1>2. <<FromUser>> \in Seq(Answer)
  <2>1. FromUser \in Answer
    BY DEF FromUser, Answer
  <2> QED BY <2>1
<1>3. ServerTypes
  BY <1>1 DEF Init, ServerTypes
<1>4. SendTypes
  BY <1>1 DEF Init, SendTypes
<1>5. ThreadTypes /\ FutureHoldsCommand
  BY <1>1, <1>2
  DEF Init, ThreadTypes, FutureHoldsCommand, Answering, Pinger!Pinger, Loop!LoopReset
<1>6. DetectorTypes
  BY ResetTyped DEF Init
<1> QED BY <1>3, <1>4, <1>5, <1>6 DEF ChatTypes

LEMMA NextTyped ==
  ASSUME ChatTypes, [Next]_vars
  PROVE  ChatTypes'
<1>1. CASE UNCHANGED vars
  BY <1>1 DEF vars, channelVars, threadVars, sendVars, detectorVars, serverVars,
         clientVars, ChatTypes, ServerTypes, SendTypes, ThreadTypes,
         DetectorTypes, FutureHoldsCommand
<1>2. CASE OllamaThread
  BY <1>2, SendTyped, QuietTyped, FinishTyped, GetTyped, CommandTyped DEF OllamaThread
<1>3. CASE Ollama
  BY <1>3, HandleTyped, QuietTyped DEF Ollama
<1>4. CASE ServerThread \/ ConnectionLost \/ ClientCloses
  BY <1>4, ServerTyped
<1> QED BY <1>1, <1>2, <1>3, <1>4 DEF Next, Over

\* The strengthening of TypeOK that is inductive.
THEOREM ChatTyped == Spec => []ChatTypes
<1>1. Init => ChatTypes
  BY InitTyped
<1>2. ChatTypes /\ [Next]_vars => ChatTypes'
  BY NextTyped
<1> QED BY <1>1, <1>2, PTL DEF Spec

(***************************************************************************)
(* Every variable of a chat keeps to its type, for any keywords and any    *)
(* stream (chunkedcontentprovider.cpp:179-457).                            *)
(***************************************************************************)
THEOREM TypeCorrect == Spec => []TypeOK
<1>1. ChatTypes => TypeOK
  BY DEF ChatTypes, ServerTypes, SendTypes, ThreadTypes, DetectorTypes, TypeOK
<1> QED BY <1>1, ChatTyped, PTL

-----------------------------------------------------------------------------
(* Queue and flag implement UserChannel.                                   *)

(***************************************************************************)
(* Why at most one message is late: the thread is inside SendToUser at     *)
(* most once, and does not get in again when the flag is up.               *)
(***************************************************************************)
ChannelInv ==
  /\ server \in {"idle", "popping"} => what = <<>>
  /\ server = "holding" => Len(what) = 1
  /\ late \in {0, 1}
  /\ ~ disconnectAll => late = 0
  /\ checked /\ disconnectAll => late = 0

LEMMA AddedAtEnd ==
  ASSUME NEW S, NEW s \in Seq(S), NEW e \in S
  PROVE  /\ s \o <<e>> \in Seq(S)
         /\ Len(s \o <<e>>) = Len(s) + 1
         /\ SubSeq(s \o <<e>>, 1, Len(s)) = s
<1>1. <<e>> \in Seq(S) /\ Len(<<e>>) = 1
  OBVIOUS
<1>2. /\ s \o <<e>> \in Seq(S) /\ Len(s) \in Nat
      /\ Len(s \o <<e>>) = Len(s) + 1
      /\ \A i \in 1 .. Len(s) : (s \o <<e>>)[i] = s[i]
  BY <1>1, ConcatProperties, LenProperties
<1>3. \A i \in 1 .. Len(s) : (s \o <<e>>)[i] \in S
  BY <1>2, ElementOfSeq
<1>4. /\ SubSeq(s \o <<e>>, 1, Len(s)) \in Seq(S)
      /\ Len(SubSeq(s \o <<e>>, 1, Len(s))) = Len(s)
      /\ \A i \in 1 .. Len(s) : SubSeq(s \o <<e>>, 1, Len(s))[i] = s[i]
  BY <1>2, <1>3, SubSeqProperties
<1> QED BY <1>2, <1>4, SeqEqual

\* The steps of the thread that are not inside SendToUser: the channel is at most
\* closed.
LEMMA ThreadLeavesStream ==
  ASSUME OllamaThread \/ Ollama, ~ SendCheck, ~ SendPush
  PROVE  /\ UNCHANGED <<ollamaToUser, what, written, late, server, checked>>
         /\ disconnectAll' \in {TRUE, disconnectAll}
<1>1. CASE StartRound \/ ModelMissing \/ LeaveLoop \/ CloseThread \/ EndRound
  BY <1>1 DEF StartRound, ModelMissing, LeaveLoop, CloseThread, EndRound,
              channelVars, sendVars, serverVars, clientVars
<1>2. CASE KeepReading \/ StopReading \/ LeaveRound \/ FutureReady \/ GetThrows
           \/ TimeThrows
  BY <1>2 DEF KeepReading, StopReading, LeaveRound, FutureReady, GetThrows,
              TimeThrows, ChatReturns, channelVars, sendVars, serverVars, clientVars
<1>3. CASE GetCommand \/ FulfillRequest \/ RespondToUser
  BY <1>3 DEF GetCommand, FulfillRequest, RespondToUser, channelVars, serverVars,
              clientVars
<1>4. CASE HandlerDisconnected \/ HandlerThrows \/ StreamEnds \/ ChatThrows
  BY <1>4 DEF HandlerDisconnected, HandlerThrows, StreamEnds, ChatThrows,
              ChatReturns, channelVars, sendVars, serverVars, clientVars
<1>5. ASSUME NEW chunk \in Detector!Response, HandleResponse(chunk)
      PROVE  UNCHANGED <<ollamaToUser, what, written, late, server, checked,
                         disconnectAll>>
  BY <1>5 DEF HandleResponse, channelVars, serverVars, clientVars
<1> QED BY <1>1, <1>2, <1>3, <1>4, <1>5 DEF OllamaThread, Ollama

LEMMA StreamTyped ==
  ASSUME ChatTypes
  PROVE  /\ ollamaToUser \in Seq(Message) /\ what \in Seq(Message)
         /\ written \in Seq(Message) /\ outbox \in Seq(Message)
         /\ written \o what \in Seq(Message)
         /\ Stream \in Seq(Message)
         /\ disconnectAll \in BOOLEAN
<1>1. /\ ollamaToUser \in Seq(Message) /\ what \in Seq(Message)
      /\ written \in Seq(Message) /\ outbox \in Seq(Message)
      /\ disconnectAll \in BOOLEAN
  BY DEF ChatTypes, ServerTypes, SendTypes
<1>2. written \o what \in Seq(Message)
  BY <1>1, ConcatProperties
<1> QED BY <1>1, <1>2, ConcatProperties DEF Stream

\* Only a push changes what has been or will be shown, and only at its end.
LEMMA StreamSteps ==
  ASSUME ChatTypes, ChannelInv, [Next]_vars
  PROVE  IF SendPush THEN Stream' = Stream \o <<Head(outbox)>>
         ELSE Stream' = Stream
<1>t. /\ ollamaToUser \in Seq(Message) /\ what \in Seq(Message)
      /\ written \in Seq(Message) /\ outbox \in Seq(Message)
      /\ written \o what \in Seq(Message)
  BY StreamTyped
<1>1. CASE SendPush
  <2> DEFINE e == Head(outbox)
  <2>1. e \in Message /\ ollamaToUser' = Append(ollamaToUser, e)
        /\ UNCHANGED <<what, written>>
    BY <1>1, <1>t, HeadTailProperties
    DEF SendPush, serverVars, clientVars, ChatTypes, SendTypes
  <2> HIDE DEF e
  <2>2. Append(ollamaToUser, e) = ollamaToUser \o <<e>>
    BY <1>t, <2>1, AppendIsConcat
  <2>3. <<e>> \in Seq(Message)
    BY <2>1
  <2>4. (written \o what) \o (ollamaToUser \o <<e>>)
          = ((written \o what) \o ollamaToUser) \o <<e>>
    BY <1>t, <2>3, ConcatAssociative
  <2>5. Stream' = Stream \o <<e>>
    BY <2>1, <2>2, <2>4 DEF Stream
  <2> QED BY <1>1, <2>5 DEF e
<1>2. CASE GetStringForUser
  <2> DEFINE h == Head(ollamaToUser)
             r == Tail(ollamaToUser)
  <2>1. /\ h \in Message /\ r \in Seq(Message) /\ what = <<>>
        /\ ollamaToUser = <<h>> \o r
        /\ ollamaToUser' = r /\ what' = <<h>>
        /\ UNCHANGED <<written, checked>>
    BY <1>2, <1>t, HeadTailProperties, ConcatProperties, SeqEqual
    DEF GetStringForUser, ollamaVars, sendVars, clientVars, ChannelInv
  <2> HIDE DEF h, r
  <2>2. <<h>> \in Seq(Message)
    BY <2>1
  <2>3. written \o what = written
    BY <1>t, <2>1, ConcatEmptySeq
  <2>4. (written \o <<h>>) \o r = written \o (<<h>> \o r)
    BY <1>t, <2>1, <2>2, ConcatAssociative
  <2>5. Stream' = Stream
    BY <2>1, <2>3, <2>4 DEF Stream
  <2> QED BY <2>1, <2>5 DEF SendPush
<1>3. CASE Write
  <2>1. what' = <<>> /\ written' = written \o what /\ UNCHANGED <<ollamaToUser, checked>>
    BY <1>3 DEF Write, channelVars, ollamaVars, sendVars
  <2>2. (written \o what) \o <<>> = written \o what
    BY <1>t, ConcatEmptySeq
  <2>3. Stream' = Stream
    BY <2>1, <2>2 DEF Stream
  <2> QED BY <2>1, <2>3 DEF SendPush
<1>4. CASE ~ SendPush /\ ~ GetStringForUser /\ ~ Write
  <2>1. CASE (OllamaThread \/ Ollama) /\ ~ SendCheck
    BY <1>4, <2>1, ThreadLeavesStream DEF Stream
  <2>2. CASE SendCheck
    BY <1>4, <2>2 DEF SendCheck, channelVars, serverVars, clientVars, Stream
  <2>3. CASE CallProvider \/ QueueEmpty \/ NotWritable \/ Destroy \/ ResetThread
             \/ Join \/ ConnectionLost \/ ClientCloses
    BY <1>4, <2>3 DEF CallProvider, QueueEmpty, NotWritable, Destroy, ResetThread,
         Join, ConnectionLost, ClientCloses, channelVars, clientVars, Stream
  <2>4. CASE UNCHANGED vars
    BY <1>4, <2>4 DEF vars, channelVars, serverVars, clientVars, Stream
  <2> QED BY <1>4, <2>1, <2>2, <2>3, <2>4 DEF Next, ServerThread, Over
<1> QED BY <1>1, <1>2, <1>3, <1>4

LEMMA ChannelSteps ==
  ASSUME ChatTypes, ChannelInv, [Next]_vars
  PROVE  ChannelInv' /\ [Channel!Next]_(Channel!vars)
<1> DEFINE Goal == ChannelInv' /\ [Channel!Next]_(Channel!vars)
<1>t. /\ ollamaToUser \in Seq(Message) /\ what \in Seq(Message)
      /\ written \in Seq(Message) /\ outbox \in Seq(Message)
      /\ written \o what \in Seq(Message) /\ Stream \in Seq(Message)
      /\ disconnectAll \in BOOLEAN
  BY StreamTyped
<1>s. ASSUME UNCHANGED <<ollamaToUser, what, written, late>>
      PROVE  UNCHANGED <<Stream, Len(written), late>>
  BY <1>s DEF Stream
<1>c. ASSUME UNCHANGED <<ollamaToUser, what, written, late, server, checked>>,
             disconnectAll' \in {TRUE, disconnectAll}
      PROVE  Goal
  <2>1. ChannelInv'
    BY <1>c, <1>t DEF ChannelInv
  <2>2. CASE disconnectAll' = disconnectAll
    BY <1>c, <1>s, <2>1, <2>2 DEF Channel!vars
  <2>3. CASE disconnectAll' = TRUE
    <3>1. Channel!Close
      BY <1>c, <1>s, <2>3 DEF Channel!Close
    <3> QED BY <2>1, <3>1 DEF Channel!Next
  <2> QED BY <1>c, <2>2, <2>3
<1>1. CASE SendCheck
  <2>1. UNCHANGED <<ollamaToUser, what, written, late, server, disconnectAll>>
    BY <1>1 DEF SendCheck, channelVars, serverVars, clientVars
  <2>2. ChannelInv'
    BY <1>1, <2>1 DEF SendCheck, ChannelInv
  <2> QED BY <1>s, <2>1, <2>2 DEF Channel!vars
<1>2. CASE SendPush
  <2> DEFINE e == Head(outbox)
  <2>1. /\ checked /\ ~ checked' /\ e \in Message
        /\ ollamaToUser' = Append(ollamaToUser, e)
        /\ late' = IF disconnectAll THEN late + 1 ELSE late
        /\ UNCHANGED <<what, written, server, disconnectAll>>
    BY <1>2, <1>t, HeadTailProperties
    DEF SendPush, serverVars, clientVars, ChatTypes, SendTypes
  <2> HIDE DEF e
  <2>2. Stream' = Stream \o <<e>>
    BY <1>2, StreamSteps DEF e
  <2>3. late = 0
    BY <2>1, <1>t DEF ChannelInv
  <2>4. late' = IF disconnectAll THEN 1 ELSE 0
    BY <2>1, <2>3
  <2>5. ChannelInv'
    BY <2>1, <2>4, <1>t DEF ChannelInv
  <2>6. Channel!Send
    BY <1>t, <2>1, <2>2, <2>3, <2>4, AddedAtEnd DEF Channel!Send
  <2> QED BY <2>5, <2>6 DEF Channel!Next
<1>3. CASE (OllamaThread \/ Ollama) /\ ~ SendCheck /\ ~ SendPush
  BY <1>3, <1>c, ThreadLeavesStream
<1>4. CASE GetStringForUser
  <2>1. /\ Len(what') = 1 /\ server' = "holding"
        /\ UNCHANGED <<written, disconnectAll, late, checked>>
    BY <1>4 DEF GetStringForUser, ollamaVars, sendVars, clientVars
  <2>2. Stream' = Stream
    BY <2>1, StreamSteps DEF SendPush
  <2>3. ChannelInv'
    BY <2>1 DEF ChannelInv
  <2> QED BY <2>1, <2>2, <2>3 DEF Channel!vars
<1>5. CASE Write
  <2>1. /\ Len(what) = 1 /\ what' = <<>> /\ written' = written \o what
        /\ server' = "popping"
        /\ UNCHANGED <<ollamaToUser, disconnectAll, late, checked>>
    BY <1>5 DEF Write, channelVars, ollamaVars, sendVars, ChannelInv
  <2>2. Stream' = Stream
    BY <2>1, StreamSteps DEF SendPush
  <2>3. Len(written') = Len(written) + 1 /\ Len(written) < Len(Stream)
    <3>1. /\ Len(written) \in Nat /\ Len(what) \in Nat /\ Len(ollamaToUser) \in Nat
          /\ Len(written \o what) = Len(written) + Len(what)
          /\ Len(Stream) = Len(written \o what) + Len(ollamaToUser)
      BY <1>t, LenProperties, ConcatProperties DEF Stream
    <3> QED BY <2>1, <3>1
  <2>4. ChannelInv'
    BY <2>1 DEF ChannelInv
  <2>5. Channel!Deliver
    BY <2>1, <2>2, <2>3 DEF Channel!Deliver
  <2> QED BY <2>4, <2>5 DEF Channel!Next
<1>6. CASE CallProvider \/ QueueEmpty \/ NotWritable \/ Destroy \/ ResetThread
           \/ Join \/ ConnectionLost \/ ClientCloses
  <2>1. /\ UNCHANGED <<ollamaToUser, what, written, late, checked>>
        /\ disconnectAll' \in {TRUE, disconnectAll}
        /\ \/ server' = server
           \/ server' \notin {"idle", "popping", "holding"}
           \/ server \in {"idle", "popping"} /\ server' \in {"idle", "popping"}
    BY <1>6 DEF CallProvider, QueueEmpty, NotWritable, Destroy, ResetThread, Join,
         ConnectionLost, ClientCloses, ollamaVars, sendVars, channelVars, clientVars
  <2>2. ChannelInv'
    BY <2>1, <1>t DEF ChannelInv
  <2>3. CASE disconnectAll' = disconnectAll
    BY <1>s, <2>1, <2>2, <2>3 DEF Channel!vars
  <2>4. CASE disconnectAll' = TRUE
    <3>1. Channel!Close
      BY <1>s, <2>1, <2>4 DEF Channel!Close
    <3> QED BY <2>2, <3>1 DEF Channel!Next
  <2> QED BY <2>1, <2>3, <2>4
<1>7. CASE UNCHANGED vars
  BY <1>7, <1>c DEF vars, channelVars, sendVars, serverVars, clientVars
<1> QED BY <1>1, <1>2, <1>3, <1>4, <1>5, <1>6, <1>7
        DEF Next, ServerThread, Over

LEMMA ChannelInvKept == Spec => []ChannelInv
<1>1. Init => ChannelInv
  BY DEF Init, ChannelInv
<1>2. ChatTypes /\ ChannelInv /\ [Next]_vars => ChannelInv'
  BY ChannelSteps
<1> QED BY <1>1, <1>2, ChatTyped, PTL DEF Spec

(***************************************************************************)
(* The queue and the flag of TCommObject, with two threads at them, are a  *)
(* channel that keeps the order, loses nothing, and lets at most one       *)
(* message in after it was closed (cpp:184-217, 466-492).                  *)
(***************************************************************************)
THEOREM KeepsChannel == Spec => ChannelKept
<1>1. Init => Channel!Init
  <2> SUFFICES ASSUME Init PROVE Channel!Init
    OBVIOUS
  <2>1. Stream = <<>> /\ Len(written) = 0
    BY EmptySeq, ConcatEmptySeq DEF Init, Stream
  <2> QED BY <2>1 DEF Init, Channel!Init
<1>2. ChatTypes /\ ChannelInv /\ [Next]_vars => [Channel!Next]_(Channel!vars)
  BY ChannelSteps
<1> QED BY <1>1, <1>2, ChatTyped, ChannelInvKept, PTL
    DEF Spec, ChannelKept, Channel!Spec

-----------------------------------------------------------------------------
(* When the process dies.                                                  *)

HasMore == result.status = "OllamaHasMore"

(***************************************************************************)
(* Where a round stands, told by the future and by what the restorator     *)
(* returned last: a request that is still to be sent finds the restorator  *)
(* as it was when it was built, or reset; a broken promise that get() may  *)
(* meet is that of a stream cut short, though the flag may have risen      *)
(* since; and nobody is pinged before a command was detected.              *)
(***************************************************************************)
BeforeFirst ==
  sent = <<>> =>
    /\ HasMore
    /\ fut = "pending"
    /\ thread \in {"outer", "closing", "done", "terminated"}

InRound ==
  /\ thread \in {"chat", "verdict", "wait", "get", "serve"} => request = <<>>
  /\ thread \in {"chat", "verdict"} => fut = "pending"
  /\ thread = "chat" => HasMore
  /\ thread = "wait" /\ fut = "broken" /\ ~ disconnectAll => HasMore
  /\ thread = "get" /\ fut = "broken" => HasMore
  /\ ping = "used" => fut = "set"

BetweenRounds == thread \in {"outer", "endRound"} /\ request # <<>> => HasMore

DiesEarly == thread = "terminated" => fut = "set" \/ HasMore

DieInv == BeforeFirst /\ InRound /\ BetweenRounds /\ DiesEarly

\* Whoever is not the Ollama thread at most raises the flag.
LEMMA DieOthers ==
  ASSUME DieInv, Alive, UNCHANGED <<thread, request, fut, ping, sent, result>>,
         disconnectAll' \in {TRUE, disconnectAll}
  PROVE  DieInv'
BY DEF DieInv, BeforeFirst, InRound, BetweenRounds, HasMore, DiesEarly, Alive

\* The steps around a round.
LEMMA DieLoop ==
  ASSUME ChatTypes, DieInv,
         StartRound \/ ModelMissing \/ LeaveLoop \/ CloseThread \/ EndRound
  PROVE  DieInv'
<1>1. result' = result
  BY DEF StartRound, ModelMissing, LeaveLoop, CloseThread, EndRound, detectorVars
<1>2. CASE StartRound
  <2>1. sent' # <<>>
    <3>1. sent' = Append(sent, request) /\ sent \in Seq(Seq(Answer))
          /\ request \in Seq(Answer)
      BY <1>2 DEF StartRound, ChatTypes, ThreadTypes
    <3> QED BY <3>1, AppendProperties
  <2>2. HasMore /\ thread' = "chat" /\ request' = <<>> /\ fut' = "pending"
        /\ ping' = "fresh"
    BY <1>2 DEF StartRound, At, DieInv, BetweenRounds, Pinger!Restarted
  <2> QED BY <1>1, <2>1, <2>2
          DEF DieInv, BeforeFirst, InRound, BetweenRounds, HasMore, DiesEarly
<1>3. CASE ModelMissing
  <2>1. /\ HasMore /\ fut = "pending" /\ thread' = "terminated"
        /\ UNCHANGED <<fut, ping, sent, request>>
    BY <1>3 DEF ModelMissing, DieInv, BeforeFirst, threadVars
  <2> QED BY <1>1, <2>1
          DEF DieInv, BeforeFirst, InRound, BetweenRounds, HasMore, DiesEarly
<1>4. CASE LeaveLoop \/ CloseThread
  <2>1. thread' \in {"closing", "done"} /\ UNCHANGED <<fut, sent, request>>
        /\ ping' \in {"none", ping}
    BY <1>4 DEF LeaveLoop, CloseThread, threadVars, Pinger!AfterFinish
  <2> QED BY <1>1, <2>1
          DEF DieInv, BeforeFirst, InRound, BetweenRounds, HasMore, DiesEarly
<1>5. CASE EndRound
  <2>1. thread = "endRound" /\ thread' = "outer" /\ UNCHANGED <<fut, sent, request>>
        /\ ping' = "none"
    BY <1>5 DEF EndRound, At, Pinger!AfterFinish
  <2> QED BY <1>1, <2>1
          DEF DieInv, BeforeFirst, InRound, BetweenRounds, HasMore, DiesEarly
<1> QED BY <1>2, <1>3, <1>4, <1>5

\* chat() is running, or returns, or throws.
LEMMA DieChat ==
  ASSUME DieInv,
         \/ \E chunk \in Detector!Response : HandleResponse(chunk)
         \/ KeepReading \/ StopReading
         \/ HandlerDisconnected \/ HandlerThrows \/ StreamEnds \/ ChatThrows
  PROVE  DieInv'
<1>1. /\ thread \in {"chat", "verdict"} /\ UNCHANGED <<sent, request>>
      /\ ping' \in {"none", ping}
  BY DEF HandleResponse, KeepReading, StopReading, HandlerDisconnected,
         HandlerThrows, StreamEnds, ChatThrows, ChatReturns, At, threadVars,
         Pinger!AfterFinish
<1>2. sent # <<>> /\ request = <<>> /\ fut = "pending" /\ ping' # "used"
  BY <1>1 DEF DieInv, BeforeFirst, InRound
<1>3. ASSUME NEW chunk \in Detector!Response, HandleResponse(chunk)
      PROVE  \/ thread' = "wait" /\ fut' = "set"
             \/ thread' = "verdict" /\ fut' = fut
  BY <1>3 DEF HandleResponse
<1>4. CASE KeepReading \/ ChatThrows
  <2>1. HasMore /\ HasMore' /\ fut' = fut /\ thread' \in {"chat", "terminated"}
    BY <1>4 DEF KeepReading, ChatThrows, At, threadVars, detectorVars, HasMore,
                DieInv, InRound
  <2> QED BY <1>1, <1>2, <2>1
          DEF DieInv, BeforeFirst, InRound, BetweenRounds, HasMore, DiesEarly
<1>5. CASE HandlerDisconnected \/ HandlerThrows \/ StreamEnds \/ StopReading
  <2>1. /\ thread' = "wait" /\ fut' = "broken" /\ result' = result
        /\ disconnectAll' \/ thread = "chat"
    BY <1>5 DEF HandlerDisconnected, HandlerThrows, StreamEnds, StopReading,
                ChatReturns, KeepTalking, At, detectorVars
  <2>2. disconnectAll' \/ HasMore'
    BY <2>1 DEF DieInv, InRound, HasMore
  <2> QED BY <1>1, <1>2, <2>1, <2>2
          DEF DieInv, BeforeFirst, InRound, BetweenRounds, HasMore, DiesEarly
<1>6. CASE \E chunk \in Detector!Response : HandleResponse(chunk)
  BY <1>1, <1>2, <1>3, <1>6
  DEF DieInv, BeforeFirst, InRound, BetweenRounds, HasMore, DiesEarly
<1> QED BY <1>4, <1>5, <1>6

\* chat() has returned.
LEMMA DieAnswer ==
  ASSUME ChatTypes, DieInv,
         \/ LeaveRound \/ FutureReady \/ GetThrows \/ GetCommand
         \/ FulfillRequest \/ RespondToUser
  PROVE  DieInv'
<1>1. thread \in Answering /\ UNCHANGED <<fut, sent, disconnectAll>>
  BY DEF LeaveRound, FutureReady, GetThrows, GetCommand, FulfillRequest,
         RespondToUser, At, threadVars, channelVars, Answering
<1>2. sent # <<>> /\ request = <<>>
  BY <1>1 DEF DieInv, BeforeFirst, InRound, Answering
<1>3. CASE LeaveRound \/ FutureReady \/ GetThrows
  <2>1. result' = result /\ ping' = ping /\ request' = <<>>
    BY <1>2, <1>3 DEF LeaveRound, FutureReady, GetThrows, threadVars, detectorVars
  <2>2. \/ thread' = "endRound"
        \/ thread' \in {"get", "terminated"} /\ (fut = "broken" => HasMore)
             /\ (thread' = "terminated" => fut = "broken")
    BY <1>3 DEF LeaveRound, FutureReady, GetThrows, At, Looping, DieInv, InRound
  <2> QED BY <1>1, <1>2, <2>1, <2>2
          DEF DieInv, BeforeFirst, InRound, BetweenRounds, HasMore, DiesEarly
<1>4. CASE GetCommand
  <2>1. fut = "set" /\ thread' = "serve" /\ request' = <<>>
    BY <1>2, <1>4 DEF GetCommand
  <2> QED BY <1>1, <1>2, <2>1
          DEF DieInv, BeforeFirst, InRound, BetweenRounds, HasMore, DiesEarly
<1>5. CASE FulfillRequest
  <2>1. HasMore' /\ thread' = "endRound" /\ fut = "set"
    BY <1>5, ResetTyped
    DEF FulfillRequest, At, HasMore, ChatTypes, FutureHoldsCommand
  <2> QED BY <1>1, <1>2, <2>1
          DEF DieInv, BeforeFirst, InRound, BetweenRounds, HasMore, DiesEarly
<1>6. CASE RespondToUser
  <2>1. thread' = "endRound" /\ request' = <<>> /\ fut = "set"
    BY <1>2, <1>6 DEF RespondToUser, At, ChatTypes, FutureHoldsCommand
  <2> QED BY <1>1, <1>2, <2>1
          DEF DieInv, BeforeFirst, InRound, BetweenRounds, HasMore, DiesEarly
<1> QED BY <1>3, <1>4, <1>5, <1>6

\* The time cannot be told.
LEMMA DieTime ==
  ASSUME ChatTypes, DieInv, TimeThrows
  PROVE  DieInv'
<1>1. /\ thread \in {"get", "serve", "endRound"} /\ thread' = "terminated"
      /\ UNCHANGED <<fut, ping, sent, request, result, disconnectAll>>
  BY DEF TimeThrows, At, threadVars, detectorVars, channelVars
<1>2. fut = "set"
  BY DEF TimeThrows, At, Pinger!FinishReply, DieInv, InRound, ChatTypes,
         FutureHoldsCommand
<1> QED BY <1>1, <1>2
        DEF DieInv, BeforeFirst, InRound, BetweenRounds, HasMore, DiesEarly

LEMMA DieSteps ==
  ASSUME ChatTypes, DieInv, [Next]_vars
  PROVE  DieInv'
<1>1. CASE UNCHANGED vars
  BY <1>1 DEF vars, channelVars, threadVars, detectorVars, DieInv, BeforeFirst,
         InRound, BetweenRounds, HasMore, DiesEarly
<1>2. CASE Alive /\ (SendCheck \/ SendPush)
  <2>1. UNCHANGED <<thread, request, fut, ping, sent, result, disconnectAll>>
    BY <1>2 DEF SendCheck, SendPush, channelVars, threadVars, detectorVars
  <2> QED BY <1>2, <2>1, DieOthers
<1>3. CASE Alive /\ (ServerThread \/ ConnectionLost \/ ClientCloses)
  <2>1. UNCHANGED ollamaVars /\ disconnectAll' \in {TRUE, disconnectAll}
    BY <1>3 DEF ServerThread, ConnectionLost, ClientCloses, CallProvider,
         QueueEmpty, GetStringForUser, Write, NotWritable, Destroy, ResetThread,
         Join, channelVars
  <2>2. UNCHANGED <<thread, request, fut, ping, sent, result>>
    BY <2>1 DEF ollamaVars, threadVars, detectorVars
  <2> QED BY <1>3, <2>1, <2>2, DieOthers
<1>4. CASE Alive /\ OllamaThread
  BY <1>2, <1>4, DieLoop, DieChat, DieAnswer, DieTime DEF OllamaThread
<1>5. CASE Ollama
  BY <1>5, DieChat DEF Ollama
<1> QED BY <1>1, <1>3, <1>4, <1>5 DEF Next, Over

\* What ChatStreamProofs builds on to say when the process dies.
LEMMA DieKept == Spec => []DieInv
<1>1. Init => DieInv
  BY ResetTyped DEF Init, DieInv, BeforeFirst, InRound, BetweenRounds, HasMore,
                    DiesEarly
<1>2. ChatTypes /\ DieInv /\ [Next]_vars => DieInv'
  BY DieSteps
<1> QED BY <1>1, <1>2, ChatTyped, PTL DEF Spec

-----------------------------------------------------------------------------
(* Repeated commands are stopped.                                          *)

\* The requests of the chat, with the one that is still to be sent.
Asked == IF request = <<>> THEN sent ELSE Append(sent, request)

CommandOf(s, i) == Last(s[i]).command

StopsRepeats(s) ==
  \A i \in 2 .. Len(s) :
    (Last(s[i]).answer = "stop") <=>
      /\ i > 3
      /\ CommandOf(s, i - 1) = CommandOf(s, i)
      /\ CommandOf(s, i - 2) = CommandOf(s, i)

(***************************************************************************)
(* The loop detector remembers the last command and how many of the last   *)
(* requests in a row answer it.                                            *)
(***************************************************************************)
Counts(s, loop) ==
  LET n == Len(s) IN
  IF n = 1 THEN loop = Loop!LoopReset
  ELSE /\ loop.lastCommand \in Words
       /\ loop.counter \in 1 .. n - 1
       /\ \A i \in n - loop.counter + 1 .. n : CommandOf(s, i) = loop.lastCommand
       /\ CommandOf(s, n - loop.counter) # loop.lastCommand

Serving ==
  thread \in {"chat", "verdict", "wait", "get", "serve"} \/ request # <<>>

RepeatInv ==
  /\ Asked # <<>> /\ CommandOf(Asked, 1) = NoCommand
  /\ StopsRepeats(Asked)
  /\ Serving => Counts(Asked, loopDetector)

\* One more command, and the answer the counter asks for.
LEMMA OneMoreCommand ==
  ASSUME NEW s, NEW t, NEW n \in Nat \ {0}, n = Len(s), Grown(s, t),
         CommandOf(s, 1) = NoCommand,
         StopsRepeats(s),
         NEW loop \in [lastCommand : Words \cup {NoCommand}, counter : Nat],
         Counts(s, loop),
         NEW c \in Words, CommandOf(t, n + 1) = c,
         NEW next, next = Loop!LoopUpdate(loop, c),
         (Last(t[n + 1]).answer = "stop") <=> Loop!IsLooping(next)
  PROVE  StopsRepeats(t) /\ Counts(t, next)
<1>g. Len(t) = n + 1 /\ \A i \in 1 .. n : t[i] = s[i]
  BY DEF Grown, Begins
<1>a. \A i \in 1 .. n : CommandOf(t, i) = CommandOf(s, i)
  BY <1>g DEF CommandOf
<1>n. NoCommand \notin Words
  BY ChatAssumption
<1>1. /\ next.lastCommand = c
      /\ next.counter \in 1 .. n
      /\ \A i \in n + 1 - next.counter + 1 .. n + 1 : CommandOf(t, i) = c
      /\ CommandOf(t, n + 1 - next.counter) # c
  <2>1. CASE n = 1
    <3>1. loop.lastCommand = NoCommand
      BY <2>1 DEF Counts, Loop!LoopReset
    <3>2. next.lastCommand = c /\ next.counter = 1
      BY <1>n, <3>1 DEF Loop!LoopUpdate
    <3> QED BY <1>a, <1>n, <2>1, <3>2
  <2>2. CASE n # 1 /\ c = loop.lastCommand
    <3> DEFINE k == loop.counter
    <3>1. /\ k \in 1 .. n - 1
          /\ \A i \in n - k + 1 .. n : CommandOf(s, i) = c
          /\ CommandOf(s, n - k) # c
      BY <2>2 DEF Counts
    <3>2. next.lastCommand = c /\ next.counter = k + 1
      BY <2>2 DEF Loop!LoopUpdate
    <3> HIDE DEF k
    <3>3. \A i \in n - k + 1 .. n + 1 : i \in 1 .. n \/ i = n + 1
      BY <3>1
    <3>4. \A i \in n - k + 1 .. n + 1 : CommandOf(t, i) = c
      BY <1>a, <3>1, <3>3
    <3>5. n - k \in 1 .. n /\ CommandOf(t, n - k) # c
      BY <1>a, <3>1
    <3> QED BY <3>1, <3>2, <3>4, <3>5
  <2>3. CASE n # 1 /\ c # loop.lastCommand
    <3> DEFINE k == loop.counter
    <3>1. /\ k \in 1 .. n - 1
          /\ \A i \in n - k + 1 .. n : CommandOf(s, i) = loop.lastCommand
      BY <2>3 DEF Counts
    <3>2. next.lastCommand = c /\ next.counter = 1
      BY <2>3 DEF Loop!LoopUpdate
    <3> HIDE DEF k
    <3>3. CommandOf(t, n) # c
      BY <1>a, <2>3, <3>1
    <3> QED BY <3>2, <3>3
  <2> QED BY <2>1, <2>2, <2>3
<1>2. Counts(t, next)
  <2>1. Len(t) # 1
    BY <1>g
  <2>2. /\ next.counter \in 1 .. Len(t) - 1
        /\ \A i \in Len(t) - next.counter + 1 .. Len(t) : CommandOf(t, i) = c
        /\ CommandOf(t, Len(t) - next.counter) # c
    BY <1>1, <1>g
  <2> QED BY <1>1, <2>1, <2>2, Zenon DEF Counts
<1>3. Loop!IsLooping(next) <=>
        /\ n + 1 > 3
        /\ CommandOf(t, n) = c
        /\ CommandOf(t, n - 1) = c
  <2> DEFINE k == next.counter
  <2>1. k \in 1 .. n /\ (\A i \in n + 1 - k + 1 .. n + 1 : CommandOf(t, i) = c)
        /\ CommandOf(t, n + 1 - k) # c
    BY <1>1
  <2>2. Loop!IsLooping(next) <=> k >= 3
    BY DEF Loop!IsLooping, Loop!kMaxRepeats
  <2> HIDE DEF k
  <2>3. CASE k >= 3
    <3>1. n \in n + 1 - k + 1 .. n + 1 /\ n - 1 \in n + 1 - k + 1 .. n + 1
      BY <2>1, <2>3
    <3> QED BY <2>1, <2>2, <2>3, <3>1
  <2>4. CASE k = 1 \/ k = 2
    <3>1. CommandOf(t, n) # c \/ CommandOf(t, n - 1) # c
      BY <2>1, <2>4
    <3> QED BY <2>2, <2>4, <3>1
  <2> QED BY <2>1, <2>3, <2>4
<1>4. ASSUME NEW i \in 2 .. n + 1
      PROVE  (Last(t[i]).answer = "stop") <=>
               /\ i > 3
               /\ CommandOf(t, i - 1) = CommandOf(t, i)
               /\ CommandOf(t, i - 2) = CommandOf(t, i)
  <2>1. CASE i = n + 1
    <3>1. i - 1 = n /\ i - 2 = n - 1
      BY <2>1
    <3> QED BY <1>3, <2>1, <3>1
  <2>2. CASE i # n + 1
    <3>1. i \in 2 .. n /\ i \in 1 .. n /\ i - 1 \in 1 .. n
      BY <2>2
    <3>2. CASE i > 3
      <4>1. i - 2 \in 1 .. n
        BY <3>1, <3>2
      <4> QED BY <1>a, <1>g, <3>1, <4>1 DEF StopsRepeats
    <3>3. CASE ~ (i > 3)
      BY <1>g, <3>1, <3>3 DEF StopsRepeats
    <3> QED BY <3>2, <3>3
  <2> QED BY <2>1, <2>2
<1> QED BY <1>2, <1>4, <1>g DEF StopsRepeats

\* Whoever neither asks nor answers.
LEMMA RepeatOthers ==
  ASSUME RepeatInv, UNCHANGED <<request, sent>>,
         Serving' => Serving /\ loopDetector' = loopDetector
  PROVE  RepeatInv'
BY DEF RepeatInv, Asked

LEMMA RepeatSteps ==
  ASSUME ChatTypes, DieInv, RepeatInv, [Next]_vars
  PROVE  RepeatInv'
<1>1. CASE UNCHANGED vars
  BY <1>1, RepeatOthers DEF vars, threadVars, Serving
<1>2. CASE SendCheck \/ SendPush
  <2>1. UNCHANGED <<thread, request, sent, loopDetector>>
    BY <1>2 DEF SendCheck, SendPush, threadVars
  <2> QED BY <2>1, RepeatOthers DEF Serving
<1>3. CASE ServerThread \/ ConnectionLost \/ ClientCloses
  <2>1. UNCHANGED ollamaVars
    BY <1>3 DEF ServerThread, ConnectionLost, ClientCloses, CallProvider,
         QueueEmpty, GetStringForUser, Write, NotWritable, Destroy, ResetThread,
         Join
  <2>2. UNCHANGED <<thread, request, sent, loopDetector>>
    BY <2>1 DEF ollamaVars, threadVars
  <2> QED BY <2>2, RepeatOthers DEF Serving
<1>4. CASE ModelMissing \/ LeaveLoop \/ CloseThread \/ EndRound \/ GetThrows
           \/ TimeThrows \/ ChatThrows \/ LeaveRound
  <2>1. /\ UNCHANGED <<request, sent, loopDetector>>
        /\ thread' \notin {"chat", "verdict", "wait", "get", "serve"}
    BY <1>4 DEF ModelMissing, LeaveLoop, CloseThread, EndRound, GetThrows,
         TimeThrows, ChatThrows, LeaveRound, threadVars
  <2> QED BY <2>1, RepeatOthers DEF Serving
<1>5. CASE KeepReading \/ StopReading \/ HandlerDisconnected \/ HandlerThrows
           \/ StreamEnds \/ FutureReady \/ GetCommand
           \/ \E chunk \in Detector!Response : HandleResponse(chunk)
  <2>1. /\ UNCHANGED <<request, sent, loopDetector>>
        /\ thread \in {"chat", "verdict", "wait", "get"}
    BY <1>5 DEF KeepReading, StopReading, HandlerDisconnected, HandlerThrows,
         StreamEnds, FutureReady, GetCommand, HandleResponse, ChatReturns, At,
         threadVars
  <2> QED BY <2>1, RepeatOthers DEF Serving
<1>6. CASE StartRound
  <2>1. /\ request # <<>> /\ request' = <<>> /\ sent' = Append(sent, request)
        /\ loopDetector' = loopDetector
    BY <1>6 DEF StartRound
  <2>2. Asked' = Asked /\ Serving
    BY <2>1 DEF Asked, Serving
  <2> QED BY <2>1, <2>2 DEF RepeatInv
<1>7. CASE RespondToUser
  <2>1. request = <<>>
    BY <1>7 DEF RespondToUser, At, DieInv, InRound
  <2>2. UNCHANGED <<request, sent>> /\ thread' = "endRound"
    BY <1>7 DEF RespondToUser
  <2> QED BY <2>1, <2>2, RepeatOthers DEF Serving
<1>8. CASE FulfillRequest
  <2> DEFINE c == result.word
             a == IF Loop!IsLooping(loopDetector') THEN "stop" ELSE "value"
             r == <<FromUser, FromBackend(c, a)>>
  <2>1. request = <<>> /\ thread = "serve"
    BY <1>8 DEF FulfillRequest, At, DieInv, InRound
  <2>2. c \in Words
    BY <2>1 DEF ChatTypes, FutureHoldsCommand, Answering
  <2>3. request' = r /\ r # <<>> /\ sent' = sent
        /\ loopDetector' = Loop!LoopUpdate(loopDetector, c)
    BY <1>8 DEF FulfillRequest
  <2>4. Last(r).command = c /\ Last(r).answer = a
    BY DEF Last, FromBackend
  <2>5. Asked = sent /\ Asked' = Append(sent, r)
    BY <2>1, <2>3 DEF Asked
  <2>6. loopDetector \in [lastCommand : Words \cup {NoCommand}, counter : Nat]
        /\ sent \in Seq(Seq(Answer)) /\ request' \in Seq(Answer)
    <3>1. ChatTypes'
      BY <1>8, CommandTyped
    <3> QED BY <3>1 DEF ChatTypes, ThreadTypes
  <2>7. (a = "stop") <=> Loop!IsLooping(loopDetector')
    OBVIOUS
  <2> HIDE DEF c, a, r
  <2> DEFINE n == Len(sent)
  <2>8. /\ n \in Nat \ {0} /\ Len(Append(sent, r)) = n + 1
        /\ \A i \in 1 .. n : Append(sent, r)[i] = sent[i]
        /\ Append(sent, r)[n + 1] = r
    <3>1. sent # <<>>
      BY <2>5 DEF RepeatInv
    <3> QED BY <2>3, <2>6, <3>1, EmptySeq, AppendProperties
  <2>9. CommandOf(sent, 1) = NoCommand /\ StopsRepeats(sent)
        /\ Counts(sent, loopDetector)
    BY <2>1, <2>5 DEF RepeatInv, Serving
  <2>10. /\ CommandOf(Append(sent, r), n + 1) = c
         /\ (Last(Append(sent, r)[n + 1]).answer = "stop")
              <=> Loop!IsLooping(loopDetector')
    BY <2>4, <2>7, <2>8 DEF CommandOf
  <2>11. CommandOf(Append(sent, r), 1) = NoCommand
    BY <2>8, <2>9 DEF CommandOf
  <2> HIDE DEF n
  <2>12. StopsRepeats(Append(sent, r)) /\ Counts(Append(sent, r), loopDetector')
    <3> DEFINE t == Append(sent, r)
    <3>1. Len(sent) = n
      BY DEF n
    <3> HIDE DEF t
    <3>2. /\ CommandOf(t, n + 1) = c
          /\ (Last(t[n + 1]).answer = "stop") <=> Loop!IsLooping(loopDetector')
      BY <2>10 DEF t
    <3>4. Grown(sent, t)
      BY <2>8, <3>1 DEF t, Grown, Begins
    <3>3. StopsRepeats(t) /\ Counts(t, loopDetector')
      BY <2>2, <2>3, <2>6, <2>8, <2>9, <3>1, <3>2, <3>4, OneMoreCommand
    <3> QED BY <3>3 DEF t
  <2>13. Append(sent, r) # <<>>
    BY <2>3, <2>6, AppendProperties
  <2> QED BY <2>5, <2>11, <2>12, <2>13 DEF RepeatInv
<1> QED BY <1>1, <1>2, <1>3, <1>4, <1>5, <1>6, <1>7, <1>8
        DEF Next, OllamaThread, Ollama, Over

(***************************************************************************)
(* For any keywords, and in a chat of any length, an answer tells the      *)
(* model to stop exactly from the third repetition of a command in a row   *)
(* on (CAiLoopDetector, ollama_commands.hpp; cpp:386-397).                 *)
(***************************************************************************)
THEOREM StopsRepeatedCommands == Spec => []RepeatsAreStopped
<1>1. Init => RepeatInv
  <2> SUFFICES ASSUME Init PROVE RepeatInv
    OBVIOUS
  <2>1. Asked = <<<<FromUser>>>>
    BY DEF Init, Asked
  <2> QED BY <2>1 DEF Init, RepeatInv, StopsRepeats, Counts, CommandOf, Last, FromUser
<1>2. ChatTypes /\ DieInv /\ RepeatInv /\ [Next]_vars => RepeatInv'
  BY RepeatSteps
<1>3. ChatTypes /\ RepeatInv => RepeatsAreStopped
  <2> SUFFICES ASSUME ChatTypes, RepeatInv PROVE RepeatsAreStopped
    OBVIOUS
  <2>1. CASE request = <<>>
    BY <2>1 DEF RepeatInv, Asked, StopsRepeats, RepeatsAreStopped, AnswerOf, CommandOf
  <2>2. CASE request # <<>>
    <3>1. /\ Asked = Append(sent, request) /\ Len(sent) \in Nat
          /\ Len(Append(sent, request)) = Len(sent) + 1
          /\ \A i \in 1 .. Len(sent) : Append(sent, request)[i] = sent[i]
      BY <2>2, AppendProperties, LenProperties DEF Asked, ChatTypes, ThreadTypes
    <3>2. ASSUME NEW i \in 2 .. Len(sent)
          PROVE  (AnswerOf(i).answer = "stop") <=>
                   /\ i > 3
                   /\ AnswerOf(i - 1).command = AnswerOf(i).command
                   /\ AnswerOf(i - 2).command = AnswerOf(i).command
      <4>1. i \in 2 .. Len(Asked) /\ i \in 1 .. Len(sent) /\ i - 1 \in 1 .. Len(sent)
            /\ (i > 3 => i - 2 \in 1 .. Len(sent))
        BY <3>1
      <4>2. \A j \in 1 .. Len(sent) : Last(Asked[j]) = AnswerOf(j)
        BY <3>1 DEF AnswerOf
      <4> QED BY <4>1, <4>2 DEF RepeatInv, StopsRepeats, CommandOf
    <3> QED BY <3>2 DEF RepeatsAreStopped
  <2> QED BY <2>1, <2>2
<1> QED BY <1>1, <1>2, <1>3, DieKept, ChatTyped, PTL DEF Spec
=============================================================================
