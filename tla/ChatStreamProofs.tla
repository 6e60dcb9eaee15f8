-------------------------- MODULE ChatStreamProofs --------------------------
(***************************************************************************)
(* Proofs about what the user of a chat sees, for every alphabet, every    *)
(* keywords and chunks, and any number of rounds: the stream is readable,  *)
(* it is the reply, and a command is not in it.                            *)
(***************************************************************************)
EXTENDS ChatProviderProofs

-----------------------------------------------------------------------------
(***************************************************************************)
(* What the restorator's Update does, seen from the chat: it cannot read   *)
(* the chunk, or it takes its text and then relays the chunk, holds the    *)
(* text back, passes all of it to the user, or hands it over as a command. *)
(***************************************************************************)
Undecided == lastDetected # CEnd /\ Words # {}

DetectorKnows ==
  /\ Undecided => lastData = received
  /\ lastDetected \in Words => IsPrefix(lastDetected, lastData)

Unreadable(chunk) ==
  /\ chunk.done = "absent"
  /\ result'.kind = "AlreadyDetected"
  /\ result'.status = "CommunicationFailure"
  /\ UNCHANGED <<lastDetected, lastData, received>>

Takes(chunk) == chunk.done # "absent" /\ received' = received \o chunk.content

Relayed(chunk) ==
  /\ ~ Undecided
  /\ result'.kind = "AlreadyDetected"
  /\ result'.status = Detector!Status(chunk)
  /\ UNCHANGED lastDetected

Held(chunk) ==
  /\ Undecided /\ lastDetected' # CEnd
  /\ result'.kind = "NeedMoreData"
  /\ result'.status = Detector!Status(chunk)
  /\ result'.text = received'
  /\ chunk.done = "true" => \A w \in Words : ~ IsPrefix(w, received')

Passed(chunk) ==
  /\ Undecided /\ lastDetected' = CEnd
  /\ result'.kind = "PassToUser"
  /\ result'.status = Detector!Status(chunk)
  /\ result'.text = received'
  /\ \A w \in Words : ~ Detector!CouldBecome(w, received')

Commanded(chunk) ==
  /\ Undecided /\ lastDetected' = CEnd
  /\ result'.kind = "Detected"
  /\ result'.status = "OllamaSentAll"
  /\ result'.text = received'
  /\ result'.word \in Words /\ IsPrefix(result'.word, received')

Contract(chunk) ==
  \/ Unreadable(chunk)
  \/ Takes(chunk) /\ (Relayed(chunk) \/ Held(chunk) \/ Passed(chunk) \/ Commanded(chunk))

\* A text that is a keyword followed by blanks at most trims to the keyword.
LEMMA TrimToKeyword ==
  ASSUME NEW w \in Words, NEW t \in Seq(Chars), IsPrefix(w, t),
         Commands!Solid(t) \subseteq 1 .. Len(w)
  PROVE  Commands!IsRequestToFulfill(w, t)
<1>1. w \in Seq(Chars) /\ w # <<>> /\ w[1] \notin Blanks /\ w[Len(w)] \notin Blanks
  BY ChatAssumption, KeywordAssumption
<1>2. Len(w) \in Nat \ {0} /\ Len(t) \in Nat
  BY <1>1, EmptySeq, LenProperties
<1>3. Len(w) <= Len(t) /\ \A i \in 1 .. Len(w) : w[i] = t[i]
  BY <1>1, PrefixByIndex
<1>4. 1 \in Commands!Solid(t) /\ Len(w) \in Commands!Solid(t)
  BY <1>1, <1>2, <1>3 DEF Commands!Solid
<1>5. \A i \in Commands!Solid(t) : i \in Int /\ 1 <= i /\ i <= Len(w)
  BY <1>2
<1>6. Commands!Min(Commands!Solid(t)) = 1
  <2>1. \A y \in Commands!Solid(t) : 1 =< y
    BY <1>5
  <2>2. \A x \in Commands!Solid(t) :
          (\A y \in Commands!Solid(t) : x =< y) => x = 1
    BY <1>4, <1>5
  <2> QED BY <1>4, <2>1, <2>2 DEF Commands!Min
<1>7. Commands!Max(Commands!Solid(t)) = Len(w)
  <2>1. \A y \in Commands!Solid(t) : Len(w) >= y
    BY <1>2, <1>5
  <2>2. \A x \in Commands!Solid(t) :
          (\A y \in Commands!Solid(t) : x >= y) => x = Len(w)
    BY <1>2, <1>4, <1>5
  <2> QED BY <1>4, <2>1, <2>2 DEF Commands!Max
<1>8. SubSeq(t, 1, Len(w)) = w
  BY <1>1, SubSeqFull DEF IsPrefix
<1> QED BY <1>4, <1>6, <1>7, <1>8 DEF Commands!IsRequestToFulfill, Commands!Trim

\* The restorator asks the same commands as the chat.
LEMMA SamePrefix ==
  ASSUME NEW v, NEW t
  PROVE  Detector!IsPrefix(v, t) <=> IsPrefix(v, t)
BY DEF Detector!IsPrefix, IsPrefix

LEMMA SameRequest ==
  ASSUME NEW w, NEW t
  PROVE  /\ Detector!Commands!Solid(t) = Commands!Solid(t)
         /\ Detector!Commands!IsRequestToFulfill(w, t)
                 <=> Commands!IsRequestToFulfill(w, t)
<1>1. Detector!Commands!Solid(t) = Commands!Solid(t)
  BY DEF Detector!Commands!Solid, Commands!Solid
<1>2. \A T : Detector!Commands!Min(T) = Commands!Min(T)
  BY DEF Detector!Commands!Min, Commands!Min
<1>3. \A T : Detector!Commands!Max(T) = Commands!Max(T)
  BY DEF Detector!Commands!Max, Commands!Max
<1> QED BY <1>1, <1>2, <1>3 DEF Detector!Commands!IsRequestToFulfill, Commands!IsRequestToFulfill, Detector!Commands!Trim, Commands!Trim

LEMMA SameCouldBecome ==
  ASSUME NEW w, NEW t
  PROVE  Detector!CouldBecome(w, t) <=>
       \/ IsPrefix(t, w)
       \/ IsPrefix(w, t) /\ Commands!Solid(t) \subseteq 1 .. Len(w)
BY SamePrefix, SameRequest DEF Detector!CouldBecome

\* No keyword is a prefix of a text long enough for all: it becomes none.
LEMMA NothingFoundIsFinal ==
  ASSUME NEW t \in Seq(Chars), Detector!Fitting(t) = Words,
         Detector!Matching(t) = {}, NEW w \in Words
  PROVE  ~ Detector!CouldBecome(w, t)
<1>1. w \in Seq(Chars) /\ Len(w) \in Nat /\ Len(t) \in Nat
  BY ChatAssumption, LenProperties
<1>2. Len(w) <= Len(t) /\ ~ IsPrefix(w, t)
  BY SamePrefix DEF Detector!Fitting, Detector!Matching
<1>3. ~ IsPrefix(t, w)
  <2> SUFFICES ASSUME IsPrefix(t, w) PROVE FALSE
    OBVIOUS
  <2>1. Len(t) <= Len(w) /\ \A i \in 1 .. Len(t) : t[i] = w[i]
    BY <1>1, PrefixByIndex
  <2>2. \A i \in 1 .. Len(w) : w[i] = t[i]
    BY <1>1, <1>2, <2>1
  <2> QED BY <1>1, <1>2, <2>2, PrefixByIndex
<1> QED BY <1>2, <1>3, SameCouldBecome

\* A text that outgrew its keyword becomes no other: no keyword hides another.
LEMMA OutgrownIsFinal ==
  ASSUME NEW v \in Words, NEW t \in Seq(Chars), IsPrefix(v, t),
         ~ Commands!IsRequestToFulfill(v, t), NEW w \in Words
  PROVE  ~ Detector!CouldBecome(w, t)
<1> SUFFICES ASSUME Detector!CouldBecome(w, t) PROVE FALSE
  OBVIOUS
<1>t. v \in Seq(Chars) /\ w \in Seq(Chars)
  BY ChatAssumption
<1>1. CASE IsPrefix(t, w)
  <2>1. IsPrefix(v, w)
    BY <1>1, <1>t, PrefixTransitive
  <2>2. v = w
    BY <2>1, KeywordAssumption
  <2>3. v = t
    BY <1>1, <1>t, <2>2, MutualPrefixes
  <2>4. Commands!Solid(t) \subseteq 1 .. Len(v)
    BY <2>3 DEF Commands!Solid
  <2> QED BY <2>4, TrimToKeyword
<1>2. CASE IsPrefix(w, t) /\ Commands!Solid(t) \subseteq 1 .. Len(w)
  <2>1. v = w
    BY <1>2, <1>t, PrefixesAgree, KeywordAssumption
  <2> QED BY <1>2, <2>1, TrimToKeyword
<1> QED BY <1>1, <1>2, SameCouldBecome

\* What Update returns, named.
LEMMA Returned ==
  ASSUME NEW status, NEW kind, NEW text, NEW word,
         Detector!Return(status, kind, text, word)
  PROVE  /\ result'.status = status /\ result'.kind = kind
         /\ result'.text = text /\ result'.word = word
BY DEF Detector!Return

LEMMA UpdateKeepsContract ==
  ASSUME DetectorTypes, DetectorKnows, NEW chunk \in Detector!Response,
         Detector!Update(chunk)
  PROVE  Contract(chunk) /\ DetectorKnows'
<1>c. ChunkTypes(chunk)
  BY ChunkTyped
<1>n. NullOpt \notin Words /\ CEnd \notin Words /\ NullOpt # CEnd
  BY ChatAssumption
<1>k. ASSUME Detector!Receiving(chunk)
      PROVE  /\ Undecided /\ Takes(chunk) /\ Detector!Collected(chunk) = received'
             /\ received' \in Seq(Chars)
             /\ lastDetected # NullOpt => /\ lastDetected \in Words
                                          /\ IsPrefix(lastDetected, received')
  <2>1. Undecided /\ Takes(chunk) /\ Detector!Collected(chunk) = received'
    BY <1>k DEF Detector!Receiving, Undecided, Takes, DetectorKnows,
                Detector!Collected
  <2>2. received' \in Seq(Chars)
    BY <1>c, <2>1 DEF ChunkTypes
  <2>3. ASSUME lastDetected # NullOpt
        PROVE  lastDetected \in Words /\ IsPrefix(lastDetected, received')
    <3>1. lastDetected \in Words
      BY <2>1, <2>3 DEF DetectorTypes, Undecided
    <3>2. lastDetected \in Seq(Chars) /\ lastData \in Seq(Chars)
          /\ chunk.content \in Seq(Chars) /\ IsPrefix(lastDetected, lastData)
      BY <1>c, <3>1, ChatAssumption DEF DetectorTypes, DetectorKnows, ChunkTypes
    <3>3. IsPrefix(lastDetected, lastData \o chunk.content)
      BY <3>2, PrefixOfLonger
    <3> QED BY <2>1, <3>1, <3>3 DEF Detector!Collected
  <2> QED BY <2>1, <2>2, <2>3
<1> DEFINE Goal == Contract(chunk) /\ DetectorKnows'
<1>h. ASSUME NEW d \in Words \cup {NullOpt}, Detector!Receiving(chunk),
             Detector!NeedMoreData(chunk, d),
             d \in Words => IsPrefix(d, received'),
             chunk.done = "true" => \A w \in Words : ~ IsPrefix(w, received')
      PROVE  Goal
  <2>1. Detector!Return(Detector!Status(chunk), "NeedMoreData",
                        Detector!Collected(chunk), NullOpt)
        /\ lastDetected' = d /\ lastData' = Detector!Collected(chunk)
    BY <1>h DEF Detector!NeedMoreData
  <2>2. Held(chunk)
    BY <1>h, <1>k, <1>n, <2>1, Returned DEF Held
  <2>3. DetectorKnows'
    BY <1>h, <1>k, <2>1 DEF DetectorKnows, Undecided
  <2> QED BY <1>h, <1>k, <2>2, <2>3 DEF Contract
<1>p. ASSUME Detector!Receiving(chunk), Detector!FinalizePassToUser(chunk),
             \A w \in Words : ~ Detector!CouldBecome(w, received')
      PROVE  Goal
  <2>1. Detector!Return(Detector!Status(chunk), "PassToUser",
                        Detector!Collected(chunk), NullOpt)
        /\ lastDetected' = CEnd
    BY <1>p DEF Detector!FinalizePassToUser
  <2>2. Passed(chunk)
    BY <1>p, <1>k, <2>1, Returned DEF Passed
  <2>3. DetectorKnows'
    BY <1>n, <2>1 DEF DetectorKnows, Undecided
  <2> QED BY <1>p, <1>k, <2>2, <2>3 DEF Contract
<1>d. ASSUME NEW w \in Words, Detector!Receiving(chunk),
             Detector!AllReceivedResult(chunk, w), IsPrefix(w, received')
      PROVE  Goal
  <2>1. Detector!Return("OllamaSentAll", "Detected", Detector!Collected(chunk), w)
        /\ lastDetected' = CEnd
    BY <1>d DEF Detector!AllReceivedResult
  <2>2. Commanded(chunk)
    BY <1>d, <1>k, <2>1, Returned DEF Commanded
  <2>3. DetectorKnows'
    BY <1>n, <2>1 DEF DetectorKnows, Undecided
  <2> QED BY <1>d, <1>k, <2>2, <2>3 DEF Contract
<1>1. CASE Detector!NoDone(chunk)
  <2>1. Detector!Return("CommunicationFailure", "AlreadyDetected", <<>>, NullOpt)
        /\ chunk.done = "absent" /\ UNCHANGED <<lastDetected, lastData, received>>
    BY <1>1 DEF Detector!NoDone
  <2> QED BY <2>1, Returned DEF Contract, Unreadable, DetectorKnows, Undecided
<1>2. CASE Detector!AlreadyDecided(chunk)
  <2>1. Detector!Return(Detector!Status(chunk), "AlreadyDetected", <<>>, NullOpt)
        /\ ~ Undecided /\ Takes(chunk) /\ UNCHANGED <<lastDetected, lastData>>
    BY <1>2 DEF Detector!AlreadyDecided, Undecided, Takes
  <2>2. Relayed(chunk)
    BY <2>1, Returned DEF Relayed
  <2>3. DetectorKnows'
    BY <2>1 DEF DetectorKnows, Undecided
  <2> QED BY <2>1, <2>2, <2>3 DEF Contract
<1>3. CASE Detector!FullyReceived(chunk)
  <2>1. Detector!Receiving(chunk) /\ lastDetected # NullOpt
        /\ Detector!AllReceivedResult(chunk, lastDetected)
    BY <1>3 DEF Detector!FullyReceived
  <2> QED BY <1>d, <1>k, <2>1
<1>4. CASE Detector!PartlyReceived(chunk)
  <2>1. Detector!Receiving(chunk) /\ lastDetected # NullOpt /\ chunk.done = "false"
    BY <1>4 DEF Detector!PartlyReceived
  <2>2. CASE Detector!NeedMoreData(chunk, lastDetected)
    BY <1>h, <1>k, <2>1, <2>2
  <2>3. CASE ~ Detector!NeedMoreData(chunk, lastDetected)
    <3>1. /\ Detector!FinalizePassToUser(chunk)
          /\ ~ Commands!IsRequestToFulfill(lastDetected, received')
      BY <1>4, <1>k, <2>1, <2>3, SameRequest DEF Detector!PartlyReceived
    <3>2. \A w \in Words : ~ Detector!CouldBecome(w, received')
      BY <1>k, <2>1, <3>1, OutgrownIsFinal
    <3> QED BY <1>p, <2>1, <3>1, <3>2
  <2> QED BY <2>2, <2>3
<1>5. CASE Detector!Recognize(chunk)
  <2>1. Detector!Receiving(chunk)
    BY <1>5 DEF Detector!Recognize
  <2>2. PICK w \in Words :
          /\ IsPrefix(w, Detector!Collected(chunk))
          /\ \/ chunk.done = "false" /\ Detector!NeedMoreData(chunk, w)
             \/ Detector!AllReceivedResult(chunk, w)
    BY <1>5, SamePrefix DEF Detector!Recognize, Detector!Matching, Detector!Fitting
  <2> QED BY <1>h, <1>d, <1>k, <2>1, <2>2
<1>6. CASE Detector!StillTooShort(chunk)
  <2>1. Detector!Receiving(chunk) /\ Detector!NeedMoreData(chunk, NullOpt)
        /\ Detector!Matching(Detector!Collected(chunk)) = {}
    BY <1>6 DEF Detector!StillTooShort
  <2>2. ASSUME NEW w \in Words, IsPrefix(w, received')
        PROVE  FALSE
    <3>1. w \in Seq(Chars) /\ received' \in Seq(Chars)
      BY <1>k, <2>1, ChatAssumption
    <3>2. Len(w) <= Len(received')
      BY <2>2, <3>1, PrefixByIndex
    <3>3. w \in Detector!Matching(received')
      BY <2>2, <3>2, SamePrefix DEF Detector!Matching, Detector!Fitting
    <3> QED BY <1>k, <2>1, <3>3
  <2> QED BY <1>h, <1>n, <2>1, <2>2
<1>7. CASE Detector!NothingFound(chunk)
  <2>1. /\ Detector!Receiving(chunk) /\ Detector!FinalizePassToUser(chunk)
        /\ Detector!Matching(received') = {} /\ Detector!Fitting(received') = Words
    BY <1>7, <1>k DEF Detector!NothingFound
  <2>2. \A w \in Words : ~ Detector!CouldBecome(w, received')
    BY <1>k, <2>1, NothingFoundIsFinal
  <2> QED BY <1>p, <2>1, <2>2
<1> QED BY <1>1, <1>2, <1>3, <1>4, <1>5, <1>6, <1>7 DEF Detector!Update

-----------------------------------------------------------------------------
(* Sequences of messages.                                                  *)

Openers == {"working", "text", "raw"}

Readable(s) ==
  /\ s # <<>> => s[1].kind \in Openers
  /\ \A i \in 1 .. Len(s) - 1 : MayFollow(s[i], s[i + 1])

OnTop(s, m) == IF s = <<>> THEN m.kind \in Openers ELSE MayFollow(Last(s), m)

LEMMA OneMore ==
  ASSUME NEW s \in Seq(Message), NEW m \in Message
  PROVE  /\ s \o <<m>> \in Seq(Message) /\ s \o <<m>> # <<>>
         /\ Last(s \o <<m>>) = m
         /\ Readable(s \o <<m>>) <=> Readable(s) /\ OnTop(s, m)
<1> DEFINE t == s \o <<m>>
<1>1. /\ t \in Seq(Message) /\ Len(s) \in Nat /\ Len(t) = Len(s) + 1
      /\ (\A i \in 1 .. Len(s) : t[i] = s[i]) /\ t[Len(s) + 1] = m
  BY ConcatProperties, LenProperties
<1> HIDE DEF t
<1>2. t # <<>> /\ Last(t) = m
  BY <1>1, EmptySeq DEF Last
<1>3. CASE s = <<>>
  <2>1. Len(s) = 0 /\ Len(t) = 1 /\ t[1] = m
    BY <1>1, <1>3, EmptySeq
  <2> QED BY <1>1, <1>2, <1>3, <2>1 DEF Readable, OnTop, t
<1>4. CASE s # <<>>
  <2> DEFINE n == Len(s)
  <2>1. n \in Nat \ {0} /\ t[1] = s[1] /\ t[n] = s[n] /\ t[n + 1] = m
        /\ Len(t) - 1 = n
    BY <1>1, <1>4, EmptySeq
  <2>2. \A i \in 1 .. n - 1 : t[i] = s[i] /\ t[i + 1] = s[i + 1]
    BY <1>1, <2>1
  <2>3. Last(s) = s[n]
    BY DEF Last
  <2> HIDE DEF n
  <2>4. (\A i \in 1 .. n : MayFollow(t[i], t[i + 1])) <=>
          (\A i \in 1 .. n - 1 : MayFollow(s[i], s[i + 1])) /\ MayFollow(s[n], m)
    <3>1. \A i \in 1 .. n : i \in 1 .. n - 1 \/ i = n
      BY <2>1
    <3>2. \A i \in 1 .. n - 1 : i \in 1 .. n
      BY <2>1
    <3> QED BY <2>1, <2>2, <3>1, <3>2
  <2>5. Readable(t) <=> Readable(s) /\ OnTop(s, m)
    BY <1>2, <1>4, <2>1, <2>3, <2>4 DEF Readable, OnTop, n
  <2> QED BY <1>1, <1>2, <2>5 DEF t
<1> QED BY <1>3, <1>4

LEMMA ReadableBeginning ==
  ASSUME NEW s \in Seq(Message), NEW t \in Seq(Message), t # <<>>,
         Readable(s \o t)
  PROVE  Readable(s \o <<Head(t)>>)
<1>1. Head(t) \in Message
  BY HeadTailProperties
<1> DEFINE u == s \o t
           v == s \o <<Head(t)>>
<1>2. /\ Len(s) \in Nat /\ Len(t) \in Nat \ {0}
      /\ Len(u) = Len(s) + Len(t) /\ Len(v) = Len(s) + 1
      /\ u # <<>>
  BY <1>1, ConcatProperties, LenProperties, EmptySeq
<1>3. \A i \in 1 .. Len(s) + 1 : v[i] = u[i]
  <2>1. \A i \in 1 .. Len(s) : v[i] = s[i] /\ u[i] = s[i]
    BY <1>1, <1>2, ConcatProperties
  <2>2. v[Len(s) + 1] = Head(t) /\ u[Len(s) + 1] = t[1]
    BY <1>1, <1>2, ConcatProperties
  <2>3. Head(t) = t[1]
    OBVIOUS
  <2> QED BY <1>2, <2>1, <2>2, <2>3
<1> HIDE DEF u, v
<1>4. Readable(u)
  BY DEF u
<1>5. Readable(v)
  <2>1. v[1] = u[1]
    BY <1>2, <1>3
  <2>2. \A i \in 1 .. Len(v) - 1 : i \in 1 .. Len(u) - 1 /\ v[i] = u[i] /\ v[i + 1] = u[i + 1]
    BY <1>2, <1>3
  <2> QED BY <1>2, <1>4, <2>1, <2>2 DEF Readable
<1> QED BY <1>5 DEF v

-----------------------------------------------------------------------------
(* The stream is readable.                                                 *)

Complete == result.status = "OllamaSentAll"

\* The stream with what the thread is about to send.
Traffic == Stream \o outbox

(***************************************************************************)
(* What the stream ends in, while nobody has disconnected: with a line     *)
(* that is closed, with a line of pings the pinger will close before the   *)
(* round ends, or in the reply. In the reply the restorator has decided,   *)
(* and no request is left that would start another round.                  *)
(***************************************************************************)
Quiet ==
  /\ Traffic # <<>> => Last(Traffic).kind = "finish"
  /\ ping # "used"

Pinging ==
  /\ Traffic # <<>>
  /\ Last(Traffic).kind \in {"working", "dot"}
  /\ ping = "used"
  /\ thread \in {"serve", "endRound", "terminated"}

Telling ==
  /\ Traffic # <<>>
  /\ Last(Traffic).kind \in {"text", "raw"}
  /\ ping # "used"
  /\ thread = "chat" => ~ Undecided
  /\ thread = "verdict" => ~ Undecided \/ Complete
  /\ thread \in Answering => fut = "broken"
  /\ thread \in {"endRound", "outer", "closing", "done"} => request = <<>>
  /\ Last(Traffic).done => thread = "verdict" /\ Complete

StreamInv ==
  /\ Readable(Stream)
  /\ checked => Readable(Stream \o <<Head(outbox)>>)
  /\ ~ disconnectAll => Readable(Traffic) /\ (Quiet \/ Pinging \/ Telling)

\* Whoever at most raises the flag.
LEMMA StreamOthers ==
  ASSUME StreamInv, Stream' = Stream, disconnectAll' \in {TRUE, disconnectAll},
         UNCHANGED <<thread, outbox, checked, request, fut, ping, lastDetected, result>>
  PROVE  StreamInv'
BY DEF StreamInv, Traffic, Quiet, Pinging, Telling, Undecided, Complete

LEMMA StreamSends ==
  ASSUME ChatTypes, ChannelInv, StreamInv, [Next]_vars, SendCheck \/ SendPush
  PROVE  StreamInv'
<1>t. Stream \in Seq(Message) /\ outbox \in Seq(Message)
  BY StreamTyped
<1>u. UNCHANGED <<thread, request, fut, ping, lastDetected, result, disconnectAll>>
  BY DEF SendCheck, SendPush, threadVars, detectorVars, channelVars
<1>1. CASE SendCheck /\ ~ SendPush
  <2>1. Stream' = Stream /\ ~ checked /\ outbox # <<>>
    BY <1>1, StreamSteps DEF SendCheck
  <2>2. CASE disconnectAll
    <3>1. ~ checked' /\ disconnectAll'
      BY <1>1, <1>u, <2>1, <2>2 DEF SendCheck
    <3> QED BY <2>1, <3>1 DEF StreamInv
  <2>3. CASE ~ disconnectAll
    <3>1. outbox' = outbox
      BY <1>1, <2>3 DEF SendCheck
    <3>2. Readable(Stream \o <<Head(outbox)>>)
      BY <1>t, <2>1, <2>3, ReadableBeginning DEF StreamInv, Traffic
    <3> QED BY <1>u, <2>1, <3>1, <3>2
            DEF StreamInv, Traffic, Quiet, Pinging, Telling, Undecided, Complete
  <2> QED BY <2>2, <2>3
<1>2. CASE SendPush
  <2>1. /\ Stream' = Stream \o <<Head(outbox)>> /\ checked /\ ~ checked'
        /\ outbox' = Tail(outbox) /\ outbox # <<>>
    BY <1>2, StreamSteps DEF SendPush, ChatTypes, SendTypes
  <2>2. Traffic' = Traffic
    <3> DEFINE h == Head(outbox)
               r == Tail(outbox)
    <3>1. h \in Message /\ r \in Seq(Message) /\ outbox = <<h>> \o r
      BY <1>t, <2>1, HeadTailProperties, ConcatProperties, SeqEqual
    <3> HIDE DEF h, r
    <3>2. <<h>> \in Seq(Message)
      BY <3>1
    <3>3. (Stream \o <<h>>) \o r = Stream \o (<<h>> \o r)
      BY <1>t, <3>1, <3>2, ConcatAssociative
    <3>4. Stream' = Stream \o <<h>> /\ outbox' = r
      BY <2>1 DEF h, r
    <3> QED BY <3>1, <3>3, <3>4 DEF Traffic
  <2> QED BY <1>u, <2>1, <2>2
          DEF StreamInv, Quiet, Pinging, Telling, Undecided, Complete
<1> QED BY <1>1, <1>2

\* A step of the thread outside of SendToUser.
LEMMA ThreadSpeaks ==
  ASSUME ChatTypes, ChannelInv, [Next]_vars, OllamaThread \/ Ollama,
         ~ SendCheck, ~ SendPush
  PROVE  /\ outbox = <<>> /\ ~ checked /\ ~ checked'
         /\ Stream' = Stream /\ Traffic = Stream /\ Traffic' = Stream \o outbox'
         /\ disconnectAll' \in {TRUE, disconnectAll}
<1>1. ASSUME StartRound \/ ModelMissing \/ LeaveLoop \/ CloseThread \/ EndRound
             \/ KeepReading \/ StopReading \/ LeaveRound
      PROVE  outbox = <<>>
  BY <1>1 DEF StartRound, ModelMissing, LeaveLoop, CloseThread, EndRound,
         KeepReading, StopReading, LeaveRound, At
<1>6. ASSUME FutureReady \/ GetThrows \/ GetCommand \/ TimeThrows
             \/ FulfillRequest \/ RespondToUser
             \/ HandlerDisconnected \/ HandlerThrows \/ StreamEnds \/ ChatThrows
      PROVE  outbox = <<>>
  BY <1>6 DEF FutureReady, GetThrows, GetCommand, TimeThrows, FulfillRequest,
         RespondToUser, HandlerDisconnected, HandlerThrows, StreamEnds, ChatThrows, At
<1>2. ASSUME NEW chunk \in Detector!Response, HandleResponse(chunk)
      PROVE  outbox = <<>>
  BY <1>2 DEF HandleResponse, At
<1>3. outbox = <<>>
  BY <1>1, <1>2, <1>6 DEF OllamaThread, Ollama
<1>4. /\ checked' = checked /\ ~ checked
      /\ disconnectAll' \in {TRUE, disconnectAll} /\ Stream' = Stream
  BY <1>3, ThreadLeavesStream, StreamSteps DEF ChatTypes, SendTypes
<1>5. Stream \o <<>> = Stream
  BY StreamTyped, ConcatEmptySeq
<1> QED BY <1>3, <1>4, <1>5 DEF Traffic

Position == Quiet \/ Pinging \/ Telling

LEMMA Speaks ==
  ASSUME StreamInv, ~ checked', Stream' = Stream,
         ~ disconnectAll' => (Readable(Traffic) /\ Position)'
  PROVE  StreamInv'
BY DEF StreamInv, Position

\* The steps that send nothing.
LEMMA StreamSilent ==
  ASSUME ChatTypes, ChannelInv, DieInv, StreamInv, [Next]_vars,
         \/ StartRound \/ ModelMissing \/ CloseThread \/ KeepReading \/ StopReading
         \/ LeaveRound \/ FutureReady \/ GetThrows \/ TimeThrows
         \/ HandlerDisconnected \/ HandlerThrows \/ StreamEnds \/ ChatThrows
  PROVE  StreamInv'
<1>0. ~ SendCheck /\ ~ SendPush
  BY DEF StartRound, ModelMissing, CloseThread, KeepReading, StopReading, LeaveRound,
         FutureReady, GetThrows, TimeThrows, HandlerDisconnected, HandlerThrows,
         StreamEnds, ChatThrows, At, SendCheck, SendPush, ChatTypes, SendTypes
<1>s. /\ outbox = <<>> /\ ~ checked' /\ Stream' = Stream
      /\ disconnectAll' \in {TRUE, disconnectAll}
  BY <1>0, ThreadSpeaks DEF OllamaThread, Ollama
<1>1. outbox' = outbox /\ UNCHANGED <<lastDetected, result>>
  BY DEF StartRound, ModelMissing, CloseThread, KeepReading, StopReading, LeaveRound,
         FutureReady, GetThrows, TimeThrows, HandlerDisconnected, HandlerThrows,
         StreamEnds, ChatThrows, ChatReturns, sendVars, detectorVars
<1>2. Traffic' = Traffic
  BY <1>s, <1>1 DEF Traffic
<1> SUFFICES ASSUME ~ disconnectAll' PROVE (Readable(Traffic) /\ Position)'
  BY <1>s, Speaks
<1>d. ~ disconnectAll
  BY <1>s
<1>3. Readable(Traffic) /\ Position /\ ~ disconnectAll
  BY <1>d DEF StreamInv, Position
<1>4. CASE StartRound
  BY <1>2, <1>3, <1>4
  DEF StartRound, At, Position, Quiet, Pinging, Telling, Answering, Pinger!Restarted
<1>5. CASE ModelMissing \/ ChatThrows \/ GetThrows \/ TimeThrows
  <2>1. thread # "verdict" /\ thread' = "terminated" /\ UNCHANGED <<ping, request, fut>>
    BY <1>5 DEF ModelMissing, ChatThrows, GetThrows, TimeThrows, At, threadVars
  <2> QED BY <1>1, <1>2, <1>3, <2>1
          DEF Position, Quiet, Pinging, Telling, Answering
<1>6. CASE KeepReading
  BY <1>1, <1>2, <1>3, <1>6
  DEF KeepReading, At, threadVars, Position, Quiet, Pinging, Telling, Undecided,
      Complete, Answering
<1>7. CASE StreamEnds
  BY <1>1, <1>2, <1>3, <1>7
  DEF StreamEnds, ChatReturns, At, Position, Quiet, Pinging, Telling, Answering
<1>8. CASE LeaveRound
  BY <1>1, <1>2, <1>3, <1>8
  DEF LeaveRound, At, threadVars, Position, Quiet, Pinging, Telling, Answering, DieInv,
      InRound
<1>10. CASE FutureReady
  <2>1. thread = "wait" /\ thread' = "get" /\ UNCHANGED <<ping, request, fut>>
    BY <1>10 DEF FutureReady, At, threadVars
  <2> QED BY <1>1, <1>2, <1>3, <2>1
          DEF Position, Quiet, Pinging, Telling, Answering
<1>9. CASE CloseThread \/ StopReading \/ HandlerDisconnected \/ HandlerThrows
  BY <1>3, <1>9
  DEF CloseThread, StopReading, HandlerDisconnected, HandlerThrows, KeepTalking
<1> QED BY <1>4, <1>5, <1>6, <1>7, <1>8, <1>9, <1>10

\* What the thread says in one step, and where that leaves the stream.
LEMMA SaysNothing ==
  ASSUME NEW s \in Seq(Message)
  PROVE  s \o <<>> = s
BY ConcatEmptySeq

LEMMA SaysOne ==
  ASSUME NEW s \in Seq(Message), NEW m \in Message, Readable(s), OnTop(s, m)
  PROVE  /\ s \o <<m>> \in Seq(Message) /\ s \o <<m>> # <<>>
         /\ Readable(s \o <<m>>) /\ Last(s \o <<m>>) = m
         /\ \A n \in Message : OnTop(s \o <<m>>, n) <=> MayFollow(m, n)
BY OneMore DEF OnTop

LEMMA SaysTwo ==
  ASSUME NEW s \in Seq(Message), NEW m \in Message, NEW n \in Message,
         Readable(s), OnTop(s, m), MayFollow(m, n)
  PROVE  /\ s \o (<<m>> \o <<n>>) \in Seq(Message)
         /\ s \o (<<m>> \o <<n>>) # <<>>
         /\ Readable(s \o (<<m>> \o <<n>>)) /\ Last(s \o (<<m>> \o <<n>>)) = n
         /\ \A o \in Message : OnTop(s \o (<<m>> \o <<n>>), o) <=> MayFollow(n, o)
<1> DEFINE t == s \o <<m>>
<1>1. /\ t \in Seq(Message) /\ Readable(t)
      /\ OnTop(t, n) <=> MayFollow(m, n)
  BY SaysOne
<1>2. s \o (<<m>> \o <<n>>) = t \o <<n>>
  <2>1. <<m>> \in Seq(Message) /\ <<n>> \in Seq(Message)
    OBVIOUS
  <2> QED BY <2>1, Associative
<1> HIDE DEF t
<1> QED BY <1>1, <1>2, SaysOne

LEMMA Notices ==
  \A k \in {"working", "dot", "finish"} :
    /\ Pinger!Notice(k) \in Message
    /\ Pinger!Notice(k).kind = k
    /\ Pinger!Notice(k).text = <<>>
BY EmptySeq DEF Pinger!Notice, Message

LEMMA Texts ==
  /\ \A text \in Seq(Chars) :
       /\ Plain(text) \in Message
       /\ Plain(text).kind = "text" /\ Plain(text).text = text
       /\ ~ Plain(text).done
  /\ \A chunk \in Detector!Response :
       /\ Raw(chunk) \in Message
       /\ Raw(chunk).kind = "raw" /\ Raw(chunk).text = chunk.content
       /\ Raw(chunk).done => chunk.done = "true"
BY ChatAssumption DEF Plain, Raw, Message, Detector!Response

\* Whatever ends in a line that is closed may go on with a text or a new line.
LEMMA QuietGoesOn ==
  ASSUME NEW s \in Seq(Message), s # <<>> => Last(s).kind = "finish",
         NEW m \in Message, m.kind \in Openers
  PROVE  OnTop(s, m)
BY DEF OnTop, MayFollow, Openers

LEMMA StreamCloses ==
  ASSUME ChatTypes, ChannelInv, DieInv, StreamInv, [Next]_vars,
         LeaveLoop \/ EndRound
  PROVE  StreamInv'
<1>0. ~ SendCheck /\ ~ SendPush
  BY DEF LeaveLoop, EndRound, At, SendCheck, SendPush, ChatTypes, SendTypes
<1>s. /\ ~ checked' /\ Stream' = Stream /\ Traffic = Stream
      /\ Traffic' = Stream \o outbox'
  BY <1>0, ThreadSpeaks DEF OllamaThread
<1>t. Stream \in Seq(Message)
  BY StreamTyped
<1>1. /\ outbox' = Pinger!FinishReply(ping) /\ ping' = "none"
      /\ UNCHANGED <<disconnectAll, request>>
      /\ \/ thread = "outer" /\ thread' = "closing"
         \/ thread = "endRound" /\ thread' = "outer"
  BY DEF LeaveLoop, EndRound, At, Pinger!AfterFinish, channelVars
<1> SUFFICES ASSUME ~ disconnectAll' PROVE (Readable(Traffic) /\ Position)'
  BY <1>s, Speaks
<1>2. Readable(Stream) /\ (Quiet \/ Pinging \/ Telling)
  BY <1>s, <1>1 DEF StreamInv
<1>3. CASE ping # "used"
  <2>1. Traffic' = Traffic
    BY <1>s, <1>t, <1>1, <1>3, SaysNothing DEF Pinger!FinishReply
  <2> QED BY <1>1, <1>2, <1>3, <1>s, <2>1
          DEF Position, Quiet, Pinging, Telling, Answering
<1>4. CASE ping = "used"
  <2>1. Pinging
    BY <1>2, <1>4 DEF Quiet, Telling
  <2> DEFINE m == Pinger!Notice("finish")
  <2>2. m \in Message /\ m.kind = "finish" /\ Traffic' = Stream \o <<m>>
    BY <1>s, <1>1, <1>4, Notices DEF Pinger!FinishReply
  <2> HIDE DEF m
  <2>3. OnTop(Stream, m)
    BY <1>s, <2>1, <2>2 DEF Pinging, OnTop, MayFollow
  <2>4. Readable(Traffic') /\ Last(Traffic') = m
    BY <1>2, <1>t, <2>2, <2>3, SaysOne
  <2> QED BY <1>1, <2>2, <2>4 DEF Position, Quiet
<1> QED BY <1>3, <1>4

\* What the handler sends, and what the pinger is left with: it is never in use
\* while Ollama streams.
LEMMA Handled ==
  ASSUME ChatTypes, DetectorKnows, NEW chunk \in Detector!Response,
         HandleResponse(chunk), ping # "used"
  PROVE  /\ Contract(chunk)
         /\ thread' = IF result'.kind = "Detected" THEN "wait" ELSE "verdict"
         /\ fut' = IF result'.kind = "Detected" THEN "set" ELSE fut
         /\ ping' # "used" /\ result'.text \in Seq(Chars)
         /\ outbox' = IF IsPlainText(result') THEN <<Plain(result'.text)>>
                      ELSE IF IsRelayed(result') THEN <<Raw(chunk)>>
                      ELSE <<>>
<1>1. Detector!Update(chunk)
  BY DEF HandleResponse
<1>2. DetectorTypes /\ DetectorTypes'
  BY <1>1, UpdateTyped DEF ChatTypes
<1>3. Contract(chunk)
  BY <1>1, <1>2, UpdateKeepsContract
<1>4. result'.text \in Seq(Chars)
  BY <1>2 DEF DetectorTypes, Detector!Result, Detector!Text
<1>5. Pinger!FinishReply(ping) \o <<Plain(result'.text)>> = <<Plain(result'.text)>>
  <2>1. <<Plain(result'.text)>> \in Seq(Message)
    BY <1>4, TextTyped
  <2> QED BY <2>1, ConcatEmptySeq DEF Pinger!FinishReply
<1>6. ping' # "used"
  BY DEF HandleResponse, Pinger!AfterFinish
<1>o. ~ (IsPlainText(result') /\ IsRelayed(result'))
  BY DEF IsPlainText, IsRelayed
<1>7. outbox' = IF IsPlainText(result') THEN <<Plain(result'.text)>>
                ELSE IF IsRelayed(result') THEN <<Raw(chunk)>>
                ELSE <<>>
  BY <1>5, <1>o DEF HandleResponse
<1>8. /\ thread' = IF result'.kind = "Detected" THEN "wait" ELSE "verdict"
      /\ fut' = IF result'.kind = "Detected" THEN "set" ELSE fut
  BY DEF HandleResponse
<1> QED BY <1>3, <1>4, <1>6, <1>7, <1>8

LEMMA StreamHandles ==
  ASSUME ChatTypes, ChannelInv, DieInv, DetectorKnows, StreamInv, [Next]_vars,
         NEW chunk \in Detector!Response, HandleResponse(chunk), MayArrive(chunk)
  PROVE  StreamInv'
<1>0. ~ SendCheck /\ ~ SendPush
  BY DEF HandleResponse, At, SendCheck, SendPush, ChatTypes, SendTypes
<1>s. /\ ~ checked' /\ Stream' = Stream /\ Traffic = Stream
      /\ Traffic' = Stream \o outbox'
  BY <1>0, ThreadSpeaks DEF Ollama
<1>t. Stream \in Seq(Message)
  BY StreamTyped
<1>1. ~ disconnectAll /\ thread = "chat" /\ request' = request
  BY DEF HandleResponse, KeepTalking, At
<1>2. Readable(Stream) /\ (Quiet \/ Telling) /\ ping # "used"
  BY <1>s, <1>1 DEF StreamInv, Quiet, Pinging, Telling
<1>3. /\ Contract(chunk)
      /\ thread' = IF result'.kind = "Detected" THEN "wait" ELSE "verdict"
      /\ ping' # "used" /\ result'.text \in Seq(Chars)
      /\ outbox' = IF IsPlainText(result') THEN <<Plain(result'.text)>>
                   ELSE IF IsRelayed(result') THEN <<Raw(chunk)>>
                   ELSE <<>>
  BY <1>2, Handled
<1>4. Telling => ~ Undecided /\ ~ Last(Stream).done /\ Stream # <<>>
                 /\ Last(Stream).kind \in {"text", "raw"}
  BY <1>s, <1>1 DEF Telling
<1>5. Quiet => (Stream # <<>> => Last(Stream).kind = "finish")
  BY <1>s DEF Quiet
<1>n. ASSUME outbox' = <<>> PROVE Traffic' = Stream
  BY <1>n, <1>s, <1>t, SaysNothing
<1>p. ASSUME outbox' = <<Plain(result'.text)>>, Quiet, thread' = "verdict",
             ~ Undecided' \/ Complete'
      PROVE  (Readable(Traffic) /\ Position)'
  <2> DEFINE m == Plain(result'.text)
  <2>1. m \in Message /\ m.kind = "text" /\ ~ m.done /\ Traffic' = Stream \o <<m>>
    BY <1>p, <1>s, <1>3, Texts
  <2> HIDE DEF m
  <2>2. OnTop(Stream, m)
    BY <1>p, <1>t, <1>5, <2>1, QuietGoesOn DEF Openers
  <2>3. Readable(Traffic') /\ Last(Traffic') = m /\ Traffic' # <<>>
    BY <1>t, <1>2, <2>1, <2>2, SaysOne
  <2> QED BY <1>p, <1>3, <2>1, <2>3 DEF Position, Telling, Answering
<1>r. ASSUME outbox' = <<Raw(chunk)>>, thread' = "verdict", ~ Undecided',
             result'.status = Detector!Status(chunk)
      PROVE  (Readable(Traffic) /\ Position)'
  <2> DEFINE m == Raw(chunk)
  <2>1. /\ m \in Message /\ m.kind = "raw" /\ (m.done => chunk.done = "true")
        /\ Traffic' = Stream \o <<m>>
    BY <1>r, <1>s, Texts
  <2> HIDE DEF m
  <2>2. OnTop(Stream, m)
    <3>1. CASE Quiet
      BY <1>t, <1>5, <2>1, <3>1, QuietGoesOn DEF Openers
    <3>2. CASE Telling
      BY <1>4, <2>1, <3>2 DEF OnTop, MayFollow
    <3> QED BY <1>2, <3>1, <3>2
  <2>3. Readable(Traffic') /\ Last(Traffic') = m /\ Traffic' # <<>>
    BY <1>t, <1>2, <2>1, <2>2, SaysOne
  <2>4. m.done => Complete'
    BY <1>r, <2>1 DEF Complete, Detector!Status
  <2> QED BY <1>r, <1>3, <2>1, <2>3, <2>4 DEF Position, Telling, Answering
<1> SUFFICES (Readable(Traffic) /\ Position)'
  BY <1>s, Speaks
<1>6. CASE Unreadable(chunk)
  <2>1. outbox' = <<>> /\ thread' = "verdict" /\ lastDetected' = lastDetected
    BY <1>3, <1>6 DEF Unreadable, IsPlainText, IsRelayed
  <2>2. Undecided' <=> Undecided
    BY <2>1 DEF Undecided
  <2> QED BY <1>n, <1>s, <1>2, <1>3, <1>4, <1>5, <2>1, <2>2
          DEF Position, Quiet, Telling, Answering
<1>7. CASE Relayed(chunk)
  <2>1. Detector!Status(chunk) # "CommunicationFailure"
    BY DEF Detector!Status
  <2>2. outbox' = <<Raw(chunk)>> /\ thread' = "verdict" /\ ~ Undecided'
    BY <1>3, <1>7, <2>1 DEF Relayed, IsPlainText, IsRelayed, Undecided
  <2> QED BY <1>r, <1>7, <2>2 DEF Relayed
<1>8. CASE Held(chunk)
  <2>1. Quiet /\ thread' = "verdict" /\ result'.kind = "NeedMoreData"
    BY <1>2, <1>3, <1>4, <1>8 DEF Held
  <2>2. CASE result'.status = "OllamaSentAll"
    <3>1. outbox' = <<Plain(result'.text)>>
      BY <1>3, <2>1, <2>2 DEF IsPlainText
    <3> QED BY <1>p, <2>1, <2>2, <3>1 DEF Complete
  <2>3. CASE result'.status # "OllamaSentAll"
    <3>1. outbox' = <<>>
      BY <1>3, <2>1, <2>3 DEF IsPlainText, IsRelayed
    <3> QED BY <1>n, <1>s, <1>2, <1>3, <1>5, <2>1, <3>1 DEF Position, Quiet
  <2> QED BY <2>2, <2>3
<1>9. CASE Passed(chunk)
  <2>1. /\ Quiet /\ thread' = "verdict" /\ ~ Undecided'
        /\ outbox' = <<Plain(result'.text)>>
    BY <1>2, <1>3, <1>4, <1>9 DEF Passed, Undecided, IsPlainText
  <2> QED BY <1>p, <2>1
<1>10. CASE Commanded(chunk)
  <2>1. Quiet /\ outbox' = <<>>
    BY <1>2, <1>3, <1>4, <1>10 DEF Commanded, IsPlainText, IsRelayed
  <2> QED BY <1>n, <1>s, <1>2, <1>3, <1>5, <2>1 DEF Position, Quiet
<1> QED BY <1>3, <1>6, <1>7, <1>8, <1>9, <1>10 DEF Contract

\* The first ping of a command opens a line, if the pinger has not been closed.
LEMMA StreamGets ==
  ASSUME ChatTypes, ChannelInv, DieInv, StreamInv, [Next]_vars, GetCommand
  PROVE  StreamInv'
<1>0. ~ SendCheck /\ ~ SendPush
  BY DEF GetCommand, At, SendCheck, SendPush, ChatTypes, SendTypes
<1>s. /\ ~ checked' /\ Stream' = Stream /\ Traffic = Stream
      /\ Traffic' = Stream \o outbox'
  BY <1>0, ThreadSpeaks DEF OllamaThread
<1>t. Stream \in Seq(Message)
  BY StreamTyped
<1>1. /\ thread = "get" /\ thread' = "serve" /\ fut = "set"
      /\ disconnectAll' = disconnectAll
      /\ outbox' = Pinger!PingReply(ping) /\ ping' = Pinger!AfterPing(ping)
  BY DEF GetCommand, At, channelVars
<1> SUFFICES ASSUME ~ disconnectAll' PROVE (Readable(Traffic) /\ Position)'
  BY <1>s, Speaks
<1>2. Readable(Stream) /\ Quiet
  BY <1>s, <1>1 DEF StreamInv, Pinging, Telling, Answering
<1>3. ping \in {"none", "fresh"} /\ (Stream # <<>> => Last(Stream).kind = "finish")
  BY <1>2, <1>s DEF Quiet, ChatTypes, ThreadTypes, Pinger!Pinger
<1>4. CASE ping = "none"
  <2>1. outbox' = <<>> /\ ping' = "none"
    BY <1>1, <1>4 DEF Pinger!PingReply, Pinger!AfterPing
  <2>2. Traffic' = Stream
    BY <1>s, <1>t, <2>1, SaysNothing
  <2> QED BY <1>2, <1>3, <2>1, <2>2 DEF Position, Quiet
<1>5. CASE ping = "fresh"
  <2> DEFINE m == Pinger!Notice("working")
  <2>1. outbox' = <<m>> /\ ping' = "used" /\ m \in Message /\ m.kind = "working"
    BY <1>1, <1>5, Notices DEF Pinger!PingReply, Pinger!AfterPing
  <2> HIDE DEF m
  <2>2. OnTop(Stream, m)
    BY <1>t, <1>3, <2>1, QuietGoesOn DEF Openers
  <2>3. Traffic' # <<>> /\ Readable(Traffic') /\ Last(Traffic') = m
    BY <1>s, <1>t, <1>2, <2>1, <2>2, SaysOne
  <2> QED BY <1>1, <2>1, <2>3 DEF Position, Pinging
<1> QED BY <1>3, <1>4, <1>5

\* The answer to a command goes on with its line; a text closes it first.
LEMMA StreamAnswers ==
  ASSUME ChatTypes, ChannelInv, DieInv, StreamInv, [Next]_vars,
         FulfillRequest \/ RespondToUser
  PROVE  StreamInv'
<1>0. ~ SendCheck /\ ~ SendPush
  BY DEF FulfillRequest, RespondToUser, At, SendCheck, SendPush, ChatTypes, SendTypes
<1>s. /\ ~ checked' /\ Stream' = Stream /\ Traffic = Stream
      /\ Traffic' = Stream \o outbox'
  BY <1>0, ThreadSpeaks DEF OllamaThread
<1>t. Stream \in Seq(Message)
  BY StreamTyped
<1>1. /\ thread = "serve" /\ thread' = "endRound" /\ fut = "set" /\ request = <<>>
      /\ disconnectAll' = disconnectAll /\ result.text \in Seq(Chars)
  BY DEF FulfillRequest, RespondToUser, At, DieInv, InRound, channelVars, ChatTypes,
         FutureHoldsCommand, DetectorTypes, Detector!Result, Detector!Text
<1> SUFFICES ASSUME ~ disconnectAll' PROVE (Readable(Traffic) /\ Position)'
  BY <1>s, Speaks
<1>2. Readable(Stream) /\ (Quiet \/ Pinging)
  BY <1>s, <1>1 DEF StreamInv, Telling, Answering
<1>3. ping \in {"none", "fresh"} => (Stream # <<>> => Last(Stream).kind = "finish")
  BY <1>2, <1>s DEF Quiet, Pinging
<1>4. ping = "used" => Stream # <<>> /\ Last(Stream).kind \in {"working", "dot"}
  BY <1>2, <1>s DEF Quiet, Pinging
<1>5. ping \in {"none", "fresh", "used"}
  BY DEF ChatTypes, ThreadTypes, Pinger!Pinger
<1>6. CASE FulfillRequest
  <2>1. outbox' = Pinger!PingReply(ping) /\ ping' = Pinger!AfterPing(ping)
    BY <1>6 DEF FulfillRequest
  <2>2. CASE ping = "none"
    <3>1. outbox' = <<>> /\ ping' = "none"
      BY <2>1, <2>2 DEF Pinger!PingReply, Pinger!AfterPing
    <3>2. Traffic' = Stream
      BY <1>s, <1>t, <3>1, SaysNothing
    <3> QED BY <1>2, <1>3, <2>2, <3>1, <3>2 DEF Position, Quiet
  <2>3. CASE ping # "none"
    <3> DEFINE m == Pinger!Notice(IF ping = "fresh" THEN "working" ELSE "dot")
    <3>1. /\ outbox' = <<m>> /\ ping' = "used" /\ m \in Message
          /\ m.kind = IF ping = "fresh" THEN "working" ELSE "dot"
      BY <2>1, <2>3, Notices DEF Pinger!PingReply, Pinger!AfterPing
    <3> HIDE DEF m
    <3>2. OnTop(Stream, m)
      <4>1. CASE ping = "fresh"
        BY <1>t, <1>3, <3>1, <4>1, QuietGoesOn DEF Openers
      <4>2. CASE ping = "used"
        BY <1>4, <3>1, <4>2 DEF OnTop, MayFollow
      <4> QED BY <1>5, <2>3, <4>1, <4>2
    <3>3. Traffic' # <<>> /\ Readable(Traffic') /\ Last(Traffic') = m
      BY <1>s, <1>t, <1>2, <3>1, <3>2, SaysOne
    <3> QED BY <1>1, <3>1, <3>3 DEF Position, Pinging
  <2> QED BY <2>2, <2>3
<1>7. CASE RespondToUser
  <2> DEFINE finish == Pinger!Notice("finish")
             answer == Plain(result.text)
  <2>1. /\ outbox' = Pinger!FinishReply(ping) \o <<answer>>
        /\ ping' = "none" /\ request' = <<>>
    BY <1>1, <1>7 DEF RespondToUser, Pinger!AfterFinish
  <2>2. /\ finish \in Message /\ finish.kind = "finish"
        /\ answer \in Message /\ answer.kind = "text" /\ ~ answer.done
    BY <1>1, Notices, Texts
  <2>3. /\ ping # "used" => outbox' = <<>> \o <<answer>>
        /\ ping = "used" => outbox' = <<finish>> \o <<answer>>
    BY <2>1 DEF Pinger!FinishReply
  <2> HIDE DEF finish, answer
  <2>4. ASSUME Traffic' # <<>>, Readable(Traffic'), Last(Traffic') = answer
        PROVE  (Readable(Traffic) /\ Position)'
    BY <1>1, <2>1, <2>2, <2>4 DEF Position, Telling, Answering
  <2>5. CASE ping # "used"
    <3>1. outbox' = <<answer>>
      <4>1. <<answer>> \in Seq(Message)
        BY <2>2
      <4> QED BY <2>3, <2>5, <4>1, ConcatEmptySeq
    <3>2. OnTop(Stream, answer)
      BY <1>t, <1>3, <1>5, <2>2, <2>5, QuietGoesOn DEF Openers
    <3> QED BY <1>s, <1>t, <1>2, <2>2, <2>4, <3>1, <3>2, SaysOne
  <2>6. CASE ping = "used"
    <3>1. OnTop(Stream, finish) /\ MayFollow(finish, answer)
      BY <1>4, <2>2, <2>6 DEF OnTop, MayFollow
    <3>2. Traffic' = Stream \o (<<finish>> \o <<answer>>)
      BY <1>s, <2>3, <2>6
    <3> QED BY <1>t, <1>2, <2>2, <2>4, <3>1, <3>2, SaysTwo
  <2> QED BY <2>5, <2>6
<1> QED BY <1>6, <1>7

LEMMA StreamInvSteps ==
  ASSUME ChatTypes, ChannelInv, DieInv, DetectorKnows, StreamInv, [Next]_vars
  PROVE  StreamInv'
<1>1. CASE UNCHANGED vars \/ Over
  <2>1. /\ Stream' = Stream /\ disconnectAll' = disconnectAll
        /\ UNCHANGED <<thread, outbox, checked, request, fut, ping, lastDetected,
                       result>>
    BY <1>1 DEF Over, vars, channelVars, threadVars, sendVars, detectorVars,
                serverVars, clientVars, Stream
  <2> QED BY <2>1, StreamOthers
<1>2. CASE ServerThread \/ ConnectionLost \/ ClientCloses
  <2>1. /\ UNCHANGED ollamaVars
        /\ disconnectAll' \in {TRUE, disconnectAll}
    BY <1>2 DEF ServerThread, CallProvider, QueueEmpty, GetStringForUser, Write,
         NotWritable, Destroy, ResetThread, Join, ConnectionLost, ClientCloses,
         channelVars
  <2>2. UNCHANGED <<thread, outbox, checked, request, fut, ping, lastDetected, result>>
    BY <2>1 DEF ollamaVars, threadVars, sendVars, detectorVars
  <2>3. ~ SendPush
    BY <2>2 DEF SendPush, ChatTypes, SendTypes
  <2>4. Stream' = Stream
    BY <2>3, StreamSteps
  <2> QED BY <2>1, <2>2, <2>4, StreamOthers
<1>3. CASE OllamaThread \/ Ollama
  BY <1>3, StreamSends, StreamSilent, StreamCloses, StreamHandles, StreamGets,
     StreamAnswers
  DEF OllamaThread, Ollama
<1> QED BY <1>1, <1>2, <1>3 DEF Next

LEMMA DetectorKept == Spec => []DetectorKnows
<1>1. Init => DetectorKnows
  BY ChatAssumption DEF Init, Detector!Init, DetectorKnows, Undecided
<1>2. ChatTypes /\ DetectorKnows /\ [Next]_vars => DetectorKnows'
  <2> SUFFICES ASSUME ChatTypes, DetectorKnows, [Next]_vars PROVE DetectorKnows'
    OBVIOUS
  <2>1. CASE UNCHANGED <<lastDetected, lastData, received>>
    BY <2>1 DEF DetectorKnows, Undecided
  <2>2. CASE FulfillRequest
    <3>1. lastDetected' = NullOpt /\ lastData' = <<>> /\ received' = <<>>
      BY <2>2 DEF FulfillRequest, Detector!Reset
    <3> QED BY <3>1, ChatAssumption DEF DetectorKnows
  <2>3. ASSUME NEW chunk \in Detector!Response, HandleResponse(chunk)
        PROVE  DetectorKnows'
    BY <2>3, UpdateKeepsContract DEF HandleResponse, ChatTypes
  <2>4. CASE SendCheck \/ SendPush \/ StartRound \/ ModelMissing \/ LeaveLoop
             \/ CloseThread \/ KeepReading
    BY <2>1, <2>4 DEF SendCheck, SendPush, StartRound, ModelMissing, LeaveLoop,
         CloseThread, KeepReading, detectorVars
  <2>5. CASE StopReading \/ LeaveRound \/ FutureReady \/ GetThrows \/ GetCommand
             \/ TimeThrows \/ RespondToUser \/ EndRound
             \/ HandlerDisconnected \/ HandlerThrows \/ StreamEnds \/ ChatThrows
    BY <2>1, <2>5 DEF StopReading, LeaveRound, FutureReady, GetThrows, GetCommand,
         TimeThrows, RespondToUser, EndRound, HandlerDisconnected, HandlerThrows,
         StreamEnds, ChatThrows, ChatReturns, detectorVars
  <2>6. CASE ServerThread \/ ConnectionLost \/ ClientCloses
    BY <2>1, <2>6 DEF ServerThread, CallProvider, QueueEmpty, GetStringForUser, Write,
         NotWritable, Destroy, ResetThread, Join, ConnectionLost, ClientCloses,
         ollamaVars, detectorVars
  <2>7. CASE Over \/ UNCHANGED vars
    BY <2>1, <2>7 DEF Over, vars, detectorVars
  <2> QED BY <2>2, <2>3, <2>4, <2>5, <2>6, <2>7 DEF Next, OllamaThread, Ollama
<1> QED BY <1>1, <1>2, ChatTyped, PTL DEF Spec

LEMMA StreamKept == Spec => []StreamInv
<1>1. Init => StreamInv
  <2> SUFFICES ASSUME Init PROVE StreamInv
    OBVIOUS
  <2>1. /\ written = <<>> /\ what = <<>> /\ ollamaToUser = <<>> /\ outbox = <<>>
        /\ ~ checked /\ ping = "none"
    BY DEF Init
  <2>2. Stream = <<>> /\ Traffic = <<>>
    BY <2>1 DEF Stream, Traffic
  <2>3. Readable(<<>>)
    BY EmptySeq DEF Readable
  <2> QED BY <2>1, <2>2, <2>3 DEF StreamInv, Quiet
<1> QED BY <1>1, StreamInvSteps, ChatTyped, ChannelInvKept, DieKept, DetectorKept, PTL
    DEF Spec

(***************************************************************************)
(* In every chat, whatever Ollama streams and whenever anybody leaves, the *)
(* client can read the messages as they come: lines of pings are opened,   *)
(* continued and closed before the reply, and nothing follows a message    *)
(* that says "done" (chunkedcontentprovider.cpp:289-319, 386-409,          *)
(* user_ping_generator.hpp).                                               *)
(***************************************************************************)
THEOREM ReadableForUser == Spec => []StreamReadable
<1>1. StreamInv => StreamReadable
  BY DEF StreamInv, Readable, Openers, StreamReadable
<1> QED BY <1>1, StreamKept, PTL

-----------------------------------------------------------------------------
(* The text of messages.                                                   *)

TextsOf(messages) == [i \in 1 .. Len(messages) |-> messages[i].text]

Silent(messages) == \A i \in 1 .. Len(messages) : messages[i].text = <<>>

SilentButLast(messages) ==
  \A i \in 1 .. Len(messages) - 1 : messages[i].text = <<>>

LEMMA TextsOfTyped ==
  ASSUME NEW s \in Seq(Message)
  PROVE  /\ TextsOf(s) \in Seq(Seq(Chars)) /\ Len(TextsOf(s)) = Len(s)
         /\ \A i \in 1 .. Len(s) : TextsOf(s)[i] = s[i].text
<1>1. Len(s) \in Nat /\ \A i \in 1 .. Len(s) : s[i] \in Message
  BY LenProperties, ElementOfSeq
<1>2. \A i \in 1 .. Len(s) : s[i].text \in Seq(Chars)
  BY <1>1 DEF Message
<1> QED BY <1>1, <1>2 DEF TextsOf

LEMMA ShownTyped ==
  ASSUME NEW s \in Seq(Message)
  PROVE  ShownText(s) \in Seq(Chars)
BY TextsOfTyped, FlattenTyped DEF ShownText, TextsOf

LEMMA ShownConcat ==
  ASSUME NEW s \in Seq(Message), NEW t \in Seq(Message)
  PROVE  ShownText(s \o t) = ShownText(s) \o ShownText(t)
<1>1. /\ s \o t \in Seq(Message) /\ Len(s \o t) = Len(s) + Len(t)
      /\ \A i \in 1 .. Len(s) + Len(t) :
           (s \o t)[i] = IF i <= Len(s) THEN s[i] ELSE t[i - Len(s)]
  BY ConcatProperties
<1>2. /\ TextsOf(s) \in Seq(Seq(Chars)) /\ Len(TextsOf(s)) = Len(s)
      /\ TextsOf(t) \in Seq(Seq(Chars)) /\ Len(TextsOf(t)) = Len(t)
      /\ TextsOf(s \o t) \in Seq(Seq(Chars))
      /\ Len(TextsOf(s \o t)) = Len(s) + Len(t)
      /\ Len(s) \in Nat /\ Len(t) \in Nat
  BY <1>1, TextsOfTyped, LenProperties
<1>3. /\ TextsOf(s) \o TextsOf(t) \in Seq(Seq(Chars))
      /\ Len(TextsOf(s) \o TextsOf(t)) = Len(s) + Len(t)
      /\ \A i \in 1 .. Len(s) + Len(t) :
           (TextsOf(s) \o TextsOf(t))[i] =
             IF i <= Len(s) THEN TextsOf(s)[i] ELSE TextsOf(t)[i - Len(s)]
  <2> DEFINE a == TextsOf(s)
             b == TextsOf(t)
  <2>1. /\ a \in Seq(Seq(Chars)) /\ b \in Seq(Seq(Chars))
        /\ Len(a) = Len(s) /\ Len(b) = Len(t)
    BY <1>2
  <2> HIDE DEF a, b
  <2>2. /\ a \o b \in Seq(Seq(Chars)) /\ Len(a \o b) = Len(a) + Len(b)
        /\ \A i \in 1 .. Len(a) + Len(b) :
             (a \o b)[i] = IF i <= Len(a) THEN a[i] ELSE b[i - Len(a)]
    BY <2>1, ConcatProperties
  <2> QED BY <2>1, <2>2 DEF a, b
<1>4. ASSUME NEW i \in 1 .. Len(s) + Len(t)
      PROVE  TextsOf(s \o t)[i] = (TextsOf(s) \o TextsOf(t))[i]
  <2>1. TextsOf(s \o t)[i] = (s \o t)[i].text
    BY <1>1, TextsOfTyped
  <2>2. CASE i <= Len(s)
    <3>1. i \in 1 .. Len(s)
      BY <1>2, <2>2
    <3> QED BY <1>1, <1>3, <2>1, <2>2, <3>1, TextsOfTyped
  <2>3. CASE ~ (i <= Len(s))
    <3>1. i - Len(s) \in 1 .. Len(t)
      BY <1>2, <2>3
    <3>2. TextsOf(t)[i - Len(s)] = t[i - Len(s)].text
      BY <3>1, TextsOfTyped
    <3> QED BY <1>1, <1>3, <2>1, <2>3, <3>2
  <2> QED BY <2>2, <2>3
<1>5. TextsOf(s \o t) = TextsOf(s) \o TextsOf(t)
  BY <1>2, <1>3, <1>4, SeqEqual
<1> QED BY <1>2, <1>5, FlattenConcat DEF ShownText, TextsOf

LEMMA ShownNone == ShownText(<<>>) = <<>>
<1>1. TextsOf(<<>>) \in Seq(Seq(Chars)) /\ Len(TextsOf(<<>>)) = 0
  BY EmptySeq, TextsOfTyped
<1>2. TextsOf(<<>>) = <<>>
  BY <1>1, EmptySeq
<1> QED BY <1>2 DEF ShownText, TextsOf, FlattenSeq

LEMMA ShownOne ==
  ASSUME NEW m \in Message
  PROVE  ShownText(<<m>>) = m.text
<1>1. <<m>> \in Seq(Message) /\ Len(<<m>>) = 1 /\ m.text \in Seq(Chars)
  BY DEF Message
<1>2. TextsOf(<<m>>) = <<m.text>>
  BY <1>1 DEF TextsOf
<1> QED BY <1>1, <1>2, FlattenOne DEF ShownText, TextsOf

LEMMA SilentConcat ==
  ASSUME NEW s \in Seq(Message), NEW t \in Seq(Message), Silent(s)
  PROVE  /\ Silent(t) => Silent(s \o t)
         /\ SilentButLast(t) => SilentButLast(s \o t)
<1>1. /\ Len(s \o t) = Len(s) + Len(t) /\ Len(s) \in Nat /\ Len(t) \in Nat
      /\ \A i \in 1 .. Len(s) + Len(t) :
           (s \o t)[i] = IF i <= Len(s) THEN s[i] ELSE t[i - Len(s)]
  BY ConcatProperties, LenProperties
<1>2. ASSUME Silent(t), NEW i \in 1 .. Len(s \o t)
      PROVE  (s \o t)[i].text = <<>>
  <2>1. i <= Len(s) => i \in 1 .. Len(s)
    BY <1>1
  <2>2. ~ (i <= Len(s)) => i - Len(s) \in 1 .. Len(t)
    BY <1>1
  <2> QED BY <1>1, <1>2, <2>1, <2>2 DEF Silent
<1>3. ASSUME SilentButLast(t), NEW i \in 1 .. Len(s \o t) - 1
      PROVE  (s \o t)[i].text = <<>>
  <2>1. i <= Len(s) => i \in 1 .. Len(s)
    BY <1>1
  <2>2. ~ (i <= Len(s)) => i - Len(s) \in 1 .. Len(t) - 1
    BY <1>1
  <2>3. i \in 1 .. Len(s) + Len(t)
    BY <1>1
  <2> QED BY <1>1, <1>3, <2>1, <2>2, <2>3 DEF Silent, SilentButLast
<1> QED BY <1>2, <1>3 DEF Silent, SilentButLast

LEMMA NothingIsSilent ==
  /\ Silent(<<>>) /\ SilentButLast(<<>>) /\ <<>> \in Seq(Message)
  /\ \A m \in Message : /\ <<m>> \in Seq(Message) /\ SilentButLast(<<m>>)
                        /\ m.text = <<>> => Silent(<<m>>)
BY EmptySeq DEF Silent, SilentButLast

\* The pinger's messages carry no text of the reply.
LEMMA PingsAreSilent ==
  ASSUME NEW p \in Pinger!Pinger
  PROVE  /\ Silent(Pinger!PingReply(p)) /\ ShownText(Pinger!PingReply(p)) = <<>>
         /\ Silent(Pinger!FinishReply(p)) /\ ShownText(Pinger!FinishReply(p)) = <<>>
<1>1. \A k \in {"working", "dot", "finish"} :
        Silent(<<Pinger!Notice(k)>>) /\ ShownText(<<Pinger!Notice(k)>>) = <<>>
  BY Notices, NothingIsSilent, ShownOne
<1>2. Silent(<<>>) /\ ShownText(<<>>) = <<>>
  BY ShownNone, NothingIsSilent
<1>3. Pinger!PingReply(p) \in {<<>>, <<Pinger!Notice("working")>>,
                               <<Pinger!Notice("dot")>>}
  BY DEF Pinger!PingReply
<1>4. Pinger!FinishReply(p) \in {<<>>, <<Pinger!Notice("finish")>>}
  BY DEF Pinger!FinishReply
<1> QED BY <1>1, <1>2, <1>3, <1>4

-----------------------------------------------------------------------------
(* Who leaves, and what is then still to be sent.                          *)

(***************************************************************************)
(* The server thread lets go only of a client that has hung up. Nobody but *)
(* the Ollama thread raises the flag while the client is there, and it     *)
(* does so with nothing left to send but the end of a line of pings; it    *)
(* looks at the flag again before it serves a command.                     *)
(***************************************************************************)
Gone == {"released", "stopping", "joining", "joined"}

AfterTheReply == {"wait", "endRound", "outer", "closing", "done", "terminated"}

Leaving ==
  /\ server \in Gone \/ shouldStop => ~ clientOpen
  /\ thread = "done" => outbox = <<>>
  /\ disconnectAll /\ clientOpen => thread \in AfterTheReply /\ Silent(outbox)
  /\ SilentButLast(outbox)

LEMMA TailSilent ==
  ASSUME NEW s \in Seq(Message), s # <<>>
  PROVE  /\ Silent(s) => Silent(Tail(s))
         /\ SilentButLast(s) => SilentButLast(Tail(s))
<1>1. /\ Len(Tail(s)) = Len(s) - 1 /\ Len(s) \in Nat
      /\ \A i \in 1 .. Len(Tail(s)) : Tail(s)[i] = s[i + 1]
  BY HeadTailProperties, LenProperties
<1>2. \A i \in 1 .. Len(Tail(s)) : i + 1 \in 1 .. Len(s)
  BY <1>1
<1>3. \A i \in 1 .. Len(Tail(s)) - 1 :
        i + 1 \in 1 .. Len(s) - 1 /\ i \in 1 .. Len(Tail(s))
  BY <1>1
<1> QED BY <1>1, <1>2, <1>3 DEF Silent, SilentButLast

LEMMA SilentIsSilentButLast ==
  ASSUME NEW s \in Seq(Message), Silent(s)
  PROVE  SilentButLast(s)
<1>1. \A i \in 1 .. Len(s) - 1 : i \in 1 .. Len(s)
  BY LenProperties
<1> QED BY <1>1 DEF Silent, SilentButLast

\* The pings of a command.
LEMMA PingsShown ==
  ASSUME ChatTypes, GetCommand \/ FulfillRequest
  PROVE  /\ outbox' \in Seq(Message) /\ Silent(outbox')
         /\ SilentButLast(outbox') /\ ShownText(outbox') = <<>>
<1>1. outbox' = Pinger!PingReply(ping) /\ ping \in Pinger!Pinger
  BY DEF GetCommand, FulfillRequest, ChatTypes, ThreadTypes
<1> QED BY <1>1, PingerTyped, PingsAreSilent, SilentIsSilentButLast

\* The text that only looked like a command.
LEMMA TextShown ==
  ASSUME ChatTypes, RespondToUser
  PROVE  /\ outbox' \in Seq(Message) /\ SilentButLast(outbox')
         /\ ShownText(outbox') = result.text
<1> DEFINE f == Pinger!FinishReply(ping)
           a == Plain(result.text)
<1>1. ping \in Pinger!Pinger /\ result.text \in Seq(Chars)
  BY DEF ChatTypes, ThreadTypes, DetectorTypes, Detector!Result, Detector!Text
<1>2. f \in Seq(Message) /\ Silent(f) /\ ShownText(f) = <<>>
  BY <1>1, PingerTyped, PingsAreSilent
<1>3. a \in Message /\ a.text = result.text /\ outbox' = f \o <<a>>
  BY <1>1, Texts DEF RespondToUser
<1> HIDE DEF f, a
<1>4. <<a>> \in Seq(Message) /\ SilentButLast(<<a>>) /\ ShownText(<<a>>) = result.text
  BY <1>3, NothingIsSilent, ShownOne
<1>5. <<>> \o result.text = result.text
  BY <1>1, ConcatEmptySeq
<1> QED BY <1>2, <1>3, <1>4, <1>5, ConcatProperties, SilentConcat, ShownConcat

\* The same of the ends of a round and of the chat.
LEMMA ClosesShown ==
  ASSUME ChatTypes, LeaveLoop \/ EndRound
  PROVE  /\ outbox' \in Seq(Message) /\ Silent(outbox')
         /\ SilentButLast(outbox') /\ ShownText(outbox') = <<>>
<1>1. outbox' = Pinger!FinishReply(ping) /\ ping \in Pinger!Pinger
  BY DEF LeaveLoop, EndRound, ChatTypes, ThreadTypes
<1>2. outbox' \in Seq(Message) /\ Silent(outbox') /\ ShownText(outbox') = <<>>
  BY <1>1, PingerTyped, PingsAreSilent
<1> QED BY <1>2, SilentIsSilentButLast

\* And of the handler.
LEMMA HandlerShown ==
  ASSUME ChatTypes, NEW chunk \in Detector!Response, HandleResponse(chunk)
  PROVE  /\ outbox' \in Seq(Message) /\ SilentButLast(outbox')
         /\ ShownText(outbox') = IF IsPlainText(result') THEN result'.text
                                 ELSE IF IsRelayed(result') THEN chunk.content
                                 ELSE <<>>
<1> DEFINE f == Pinger!FinishReply(ping)
           a == Plain(result'.text)
<1>1. ping \in Pinger!Pinger /\ result'.text \in Seq(Chars)
  <2>1. DetectorTypes'
    BY UpdateTyped DEF HandleResponse, ChatTypes
  <2> QED BY <2>1
      DEF ChatTypes, ThreadTypes, DetectorTypes, Detector!Result, Detector!Text
<1>2. f \in Seq(Message) /\ Silent(f) /\ ShownText(f) = <<>>
  BY <1>1, PingerTyped, PingsAreSilent
<1>3. a \in Message /\ a.text = result'.text
  BY <1>1, Texts
<1>o. ~ (IsPlainText(result') /\ IsRelayed(result'))
  BY DEF IsPlainText, IsRelayed
<1>4. outbox' = IF IsPlainText(result') THEN f \o <<a>>
                ELSE IF IsRelayed(result') THEN <<Raw(chunk)>>
                ELSE <<>>
  BY <1>o DEF HandleResponse
<1> HIDE DEF f, a
<1>5. CASE IsPlainText(result')
  <2>1. <<a>> \in Seq(Message) /\ SilentButLast(<<a>>)
        /\ ShownText(<<a>>) = result'.text
    BY <1>3, NothingIsSilent, ShownOne
  <2>2. <<>> \o result'.text = result'.text
    BY <1>1, ConcatEmptySeq
  <2>3. /\ f \o <<a>> \in Seq(Message) /\ SilentButLast(f \o <<a>>)
        /\ ShownText(f \o <<a>>) = result'.text
    BY <1>2, <2>1, <2>2, ConcatProperties, SilentConcat, ShownConcat
  <2> QED BY <1>4, <1>5, <2>3
<1>6. CASE ~ IsPlainText(result') /\ IsRelayed(result')
  <2>1. Raw(chunk) \in Message /\ Raw(chunk).text = chunk.content
    BY Texts
  <2> QED BY <1>4, <1>6, <2>1, NothingIsSilent, ShownOne
<1>7. CASE ~ IsPlainText(result') /\ ~ IsRelayed(result')
  BY <1>4, <1>7, NothingIsSilent, ShownNone
<1> QED BY <1>5, <1>6, <1>7

LEMMA LeavingThread ==
  ASSUME ChatTypes, Leaving, OllamaThread \/ Ollama
  PROVE  Leaving'
<1>t. outbox \in Seq(Message)
  BY StreamTyped
<1>s. server' = server /\ clientOpen' = clientOpen /\ shouldStop' = shouldStop
  <2>1. CASE SendCheck \/ SendPush \/ StartRound \/ ModelMissing \/ LeaveLoop
             \/ CloseThread \/ KeepReading
    BY <2>1 DEF SendCheck, SendPush, StartRound, ModelMissing, LeaveLoop,
         CloseThread, KeepReading, serverVars, clientVars
  <2>2. CASE StopReading \/ LeaveRound \/ FutureReady \/ GetThrows \/ GetCommand
             \/ TimeThrows \/ FulfillRequest \/ RespondToUser \/ EndRound
    BY <2>2 DEF StopReading, LeaveRound, FutureReady, GetThrows, GetCommand,
         TimeThrows, FulfillRequest, RespondToUser, EndRound, ChatReturns,
         serverVars, clientVars
  <2>3. CASE HandlerDisconnected \/ HandlerThrows \/ StreamEnds \/ ChatThrows
    BY <2>3 DEF HandlerDisconnected, HandlerThrows, StreamEnds, ChatThrows,
         ChatReturns, serverVars, clientVars
  <2>4. ASSUME NEW chunk \in Detector!Response, HandleResponse(chunk)
        PROVE  server' = server /\ clientOpen' = clientOpen /\ shouldStop' = shouldStop
    BY <2>4 DEF HandleResponse, serverVars, clientVars
  <2> QED BY <2>1, <2>2, <2>3, <2>4 DEF OllamaThread, Ollama
<1>1. CASE SendCheck \/ SendPush
  <2>1. /\ outbox # <<>> /\ outbox' \in {outbox, Tail(outbox)}
        /\ UNCHANGED <<thread, disconnectAll>>
    BY <1>1 DEF SendCheck, SendPush, channelVars, ChatTypes, SendTypes
  <2>2. /\ Silent(outbox) => Silent(outbox')
        /\ SilentButLast(outbox) => SilentButLast(outbox')
    BY <1>t, <2>1, TailSilent
  <2> QED BY <1>s, <2>1, <2>2 DEF Leaving
<1>2. CASE LeaveLoop \/ EndRound
  <2>1. Silent(outbox') /\ SilentButLast(outbox')
        /\ thread' \in {"closing", "outer"} /\ disconnectAll' = disconnectAll
    BY <1>2, ClosesShown DEF LeaveLoop, EndRound, channelVars
  <2> QED BY <1>s, <2>1 DEF Leaving, AfterTheReply
<1>3. CASE GetCommand \/ FulfillRequest \/ RespondToUser
  <2>1. /\ SilentButLast(outbox') /\ thread \in {"get", "serve"}
        /\ thread' \in {"serve", "endRound"} /\ disconnectAll' = disconnectAll
    BY <1>3, PingsShown, TextShown
    DEF GetCommand, FulfillRequest, RespondToUser, At, channelVars
  <2> QED BY <1>s, <2>1 DEF Leaving, AfterTheReply
<1>4. ASSUME NEW chunk \in Detector!Response, HandleResponse(chunk)
      PROVE  Leaving'
  <2>1. SilentButLast(outbox') /\ thread' \in {"wait", "verdict"} /\ ~ disconnectAll'
    BY <1>4, HandlerShown DEF HandleResponse, KeepTalking, channelVars
  <2> QED BY <1>s, <2>1 DEF Leaving
<1>5. CASE StartRound \/ KeepReading \/ FutureReady
  <2>1. /\ outbox = <<>> /\ outbox' = <<>> /\ ~ disconnectAll'
        /\ thread' \in {"chat", "get"}
    BY <1>5 DEF StartRound, KeepReading, FutureReady, KeepTalking, Looping, At,
         channelVars, sendVars
  <2> QED BY <1>s, <2>1, NothingIsSilent DEF Leaving
<1>6. CASE CloseThread \/ StopReading \/ LeaveRound \/ HandlerDisconnected
           \/ HandlerThrows \/ StreamEnds
  <2>1. outbox' = <<>> /\ thread' \in AfterTheReply
    BY <1>6 DEF CloseThread, StopReading, LeaveRound, HandlerDisconnected,
         HandlerThrows, StreamEnds, ChatReturns, At, sendVars, AfterTheReply
  <2> QED BY <1>s, <2>1, NothingIsSilent DEF Leaving
<1>7. CASE ModelMissing \/ ChatThrows \/ GetThrows \/ TimeThrows
  <2>1. thread' = "terminated" /\ outbox' = <<>>
    BY <1>7 DEF ModelMissing, ChatThrows, GetThrows, TimeThrows, At, sendVars
  <2> QED BY <1>s, <2>1, NothingIsSilent DEF Leaving, AfterTheReply
<1> QED BY <1>1, <1>2, <1>3, <1>4, <1>5, <1>6, <1>7 DEF OllamaThread, Ollama

LEMMA LeavingKept == Spec => []Leaving
<1>1. Init => Leaving
  BY NothingIsSilent DEF Init, Leaving, Gone
<1>2. ChatTypes /\ Leaving /\ [Next]_vars => Leaving'
  <2> SUFFICES ASSUME ChatTypes, Leaving, [Next]_vars PROVE Leaving'
    OBVIOUS
  <2>1. CASE OllamaThread \/ Ollama
    BY <2>1, LeavingThread
  <2>2. CASE CallProvider \/ QueueEmpty \/ GetStringForUser \/ Write \/ Join
    <3>1. /\ UNCHANGED <<thread, outbox, shouldStop, clientOpen, disconnectAll>>
          /\ server' \in Gone => server \in Gone
      BY <2>2 DEF CallProvider, QueueEmpty, GetStringForUser, Write, Join,
           ollamaVars, sendVars, clientVars, channelVars, Gone
    <3> QED BY <3>1 DEF Leaving
  <2>3. CASE NotWritable \/ ConnectionLost \/ Destroy \/ ResetThread
    <3>1. UNCHANGED <<thread, outbox, clientOpen>> /\ ~ clientOpen
      BY <2>3 DEF NotWritable, ConnectionLost, Destroy, ResetThread, ollamaVars,
           sendVars, clientVars, Leaving, Gone
    <3> QED BY <3>1 DEF Leaving
  <2>4. CASE ClientCloses
    <3>1. UNCHANGED <<thread, outbox>> /\ ~ clientOpen'
      BY <2>4 DEF ClientCloses, ollamaVars, sendVars
    <3> QED BY <3>1 DEF Leaving
  <2>5. CASE Over \/ UNCHANGED vars
    <3>1. UNCHANGED <<thread, outbox, shouldStop, clientOpen, disconnectAll, server>>
      BY <2>5 DEF Over, vars, channelVars, sendVars, serverVars, clientVars
    <3> QED BY <3>1 DEF Leaving
  <2> QED BY <2>1, <2>2, <2>3, <2>4, <2>5 DEF Next, ServerThread
<1> QED BY <1>1, <1>2, ChatTyped, PTL DEF Spec

-----------------------------------------------------------------------------
(* The restorator is in step with the reply.                               *)

IsCommand(w, t) == IsPrefix(w, t) /\ Commands!IsRequestToFulfill(w, t)

LEMMA LargestExists ==
  ASSUME NEW n \in Nat, NEW T \in SUBSET (1 .. n), T # {}
  PROVE  \E x \in T : \A y \in T : x >= y
<1> DEFINE Above == {m \in Nat : \A y \in T : y <= m}
<1>1. n \in Above
  OBVIOUS
<1>2. PICK m \in Above : \A k \in Above : m <= k
  BY <1>1, SmallestExists
<1>3. m \in T
  <2> SUFFICES ASSUME m \notin T PROVE FALSE
    OBVIOUS
  <2>1. \A y \in T : y \in Int /\ 1 <= y /\ y <= m /\ y # m
    BY <1>2
  <2>2. m - 1 \in Nat
    <3>1. PICK y \in T : TRUE
      OBVIOUS
    <3>2. m \in Nat /\ y \in Int /\ 1 <= y /\ y <= m
      BY <1>2, <2>1
    <3> HIDE DEF Above
    <3> QED BY <3>2
  <2>3. \A y \in T : y <= m - 1
    BY <1>2, <2>1
  <2>4. m - 1 \in Above
    BY <2>2, <2>3
  <2> QED BY <1>2, <2>4
<1> QED BY <1>2, <1>3

\* A command is a keyword with blanks around it, so the restorator waits for it.
LEMMA CommandCouldBecome ==
  ASSUME NEW w \in Words, NEW t \in Seq(Chars), IsCommand(w, t)
  PROVE  Detector!CouldBecome(w, t)
<1>1. w \in Seq(Chars) /\ w # <<>> /\ w[1] \notin Blanks /\ Commands!Trim(t) = w
      /\ IsPrefix(w, t)
  BY ChatAssumption, KeywordAssumption
  DEF IsCommand, Commands!IsRequestToFulfill
<1>2. Len(w) \in Nat \ {0} /\ Len(t) \in Nat /\ Len(w) <= Len(t) /\ t[1] = w[1]
  <2>1. Len(w) \in Nat \ {0} /\ Len(t) \in Nat
    BY <1>1, EmptySeq, LenProperties
  <2>2. Len(w) <= Len(t) /\ \A i \in 1 .. Len(w) : w[i] = t[i]
    BY <1>1, PrefixByIndex
  <2> QED BY <2>1, <2>2
<1> DEFINE T == Commands!Solid(t)
           m == Commands!Max(T)
<1>3. 1 \in T /\ T \in SUBSET (1 .. Len(t)) /\ T # {}
  BY <1>1, <1>2 DEF Commands!Solid
<1> HIDE DEF T
<1>4. Commands!Min(T) = 1
  <2>1. \A y \in T : 1 =< y
    BY <1>3
  <2>2. \A x \in T : (\A y \in T : x =< y) => x = 1
    BY <1>3
  <2> QED BY <1>3, <2>1, <2>2 DEF Commands!Min
<1>5. m \in T /\ \A y \in T : m >= y
  <2>1. \E x \in T : \A y \in T : x >= y
    BY <1>2, <1>3, LargestExists
  <2> QED BY <2>1 DEF Commands!Max
<1> HIDE DEF m
<1>6. SubSeq(t, 1, m) = w
  BY <1>1, <1>3, <1>4 DEF Commands!Trim, T, m
<1>7. Len(w) = m
  <2>1. m \in 1 .. Len(t)
    BY <1>3, <1>5
  <2>2. \A i \in 1 .. m : t[i] \in Chars
    BY <1>2, <2>1, ElementOfSeq
  <2>3. Len(SubSeq(t, 1, m)) = m
    BY <2>1, <2>2, SubSeqProperties
  <2> QED BY <1>6, <2>3
<1>8. T \subseteq 1 .. Len(w)
  BY <1>2, <1>3, <1>5, <1>7
<1> QED BY <1>1, <1>8, SameCouldBecome DEF T

\* What can become no command never will.
LEMMA StaysNone ==
  ASSUME NEW w \in Words, NEW t \in Seq(Chars), NEW c \in Seq(Chars),
         ~ Detector!CouldBecome(w, t)
  PROVE  ~ Detector!CouldBecome(w, t \o c)
<1> DEFINE u == t \o c
<1> SUFFICES ASSUME Detector!CouldBecome(w, u) PROVE FALSE
  OBVIOUS
<1>1. /\ w \in Seq(Chars) /\ u \in Seq(Chars) /\ IsPrefix(t, u)
      /\ Len(t) \in Nat /\ Len(u) = Len(t) + Len(c) /\ Len(c) \in Nat
      /\ \A i \in 1 .. Len(t) : u[i] = t[i]
  BY ChatAssumption, ConcatProperties, LenProperties, PrefixOfLonger, PrefixOfItself
<1> HIDE DEF u
<1>2. ~ IsPrefix(t, w)
  BY SameCouldBecome
<1>3. CASE IsPrefix(u, w)
  BY <1>1, <1>2, <1>3, PrefixTransitive
<1>4. CASE IsPrefix(w, u) /\ Commands!Solid(u) \subseteq 1 .. Len(w)
  <2>1. IsPrefix(w, t)
    BY <1>1, <1>2, <1>4, PrefixesAgree
  <2>2. Commands!Solid(t) \subseteq Commands!Solid(u)
    BY <1>1 DEF Commands!Solid
  <2> QED BY <1>4, <2>1, <2>2, SameCouldBecome
<1> QED BY <1>3, <1>4, SameCouldBecome

NotACommand(t) == \A w \in Words : ~ Detector!CouldBecome(w, t)

LEMMA NotACommandGrows ==
  ASSUME NEW t \in Seq(Chars), NEW c \in Seq(Chars), NotACommand(t)
  PROVE  NotACommand(t \o c)
BY StaysNone DEF NotACommand

LEMMA NotACommandIsNone ==
  ASSUME NEW t \in Seq(Chars), NotACommand(t), NEW w \in Words
  PROVE  ~ IsCommand(w, t)
BY CommandCouldBecome DEF NotACommand

(***************************************************************************)
(* While Ollama streams the restorator has seen the whole reply; it passes *)
(* text on only when the reply can be no command; the command it hands     *)
(* over is the reply, and a keyword begins it whenever the promise is set; *)
(* and a new round begins with a restorator reset.                         *)
(***************************************************************************)
Fresh == lastDetected = NullOpt /\ received = <<>>

InStep ==
  /\ thread \in {"chat", "verdict"} => received = reply
  /\ request # <<>> => Fresh
  /\ thread \in {"chat", "verdict"} /\ ~ Undecided => NotACommand(reply)
  /\ thread \in Answering /\ fut = "set" =>
       result.text = reply /\ result.word \in Words /\ IsPrefix(result.word, reply)
  /\ fut = "set" => \E w \in Words : IsPrefix(w, reply)

\* The reply after a chunk.
LEMMA ReplyGrows ==
  ASSUME ChatTypes, DieInv, InStep, DetectorKnows, NEW chunk \in Detector!Response,
         HandleResponse(chunk)
  PROVE  /\ Contract(chunk) /\ thread = "chat" /\ request = <<>> /\ request' = <<>>
         /\ received = reply /\ reply \in Seq(Chars) /\ chunk.content \in Seq(Chars)
         /\ Unreadable(chunk) => reply' = reply /\ received' = reply
         /\ Takes(chunk) => /\ reply' = reply \o chunk.content
                            /\ received' = reply' /\ reply' \in Seq(Chars)
<1>1. thread = "chat" /\ request = <<>> /\ request' = <<>> /\ received = reply
      /\ reply \in Seq(Chars)
  BY DEF HandleResponse, At, DieInv, InRound, InStep, ChatTypes, ThreadTypes
<1>2. chunk.content \in Seq(Chars)
  BY ChunkTyped DEF ChatTypes, ChunkTypes
<1>3. Contract(chunk)
  BY UpdateKeepsContract DEF HandleResponse, ChatTypes
<1>4. Unreadable(chunk) => reply' = reply /\ received' = reply
  BY <1>1 DEF Unreadable, HandleResponse
<1>5. Takes(chunk) => reply' = reply \o chunk.content /\ received' = reply'
  BY <1>1 DEF Takes, HandleResponse
<1> QED BY <1>1, <1>2, <1>3, <1>4, <1>5, ConcatProperties

LEMMA InStepHandles ==
  ASSUME ChatTypes, DieInv, InStep, DetectorKnows, NEW chunk \in Detector!Response,
         HandleResponse(chunk)
  PROVE  InStep'
<1>1. /\ Contract(chunk) /\ thread = "chat" /\ request' = <<>> /\ received = reply
      /\ Unreadable(chunk) => reply' = reply /\ received' = reply
      /\ Takes(chunk) => reply' = reply \o chunk.content /\ received' = reply'
      /\ reply \in Seq(Chars) /\ chunk.content \in Seq(Chars)
      /\ fut = "pending"
      /\ thread' = IF result'.kind = "Detected" THEN "wait" ELSE "verdict"
      /\ fut' = IF result'.kind = "Detected" THEN "set" ELSE fut
  BY ReplyGrows DEF HandleResponse, DieInv, InRound
<1>2. CASE Unreadable(chunk)
  <2>1. thread' = "verdict" /\ fut' = "pending" /\ reply' = reply /\ received' = reply'
        /\ (Undecided' <=> Undecided)
    BY <1>1, <1>2 DEF Unreadable, Undecided
  <2> QED BY <1>1, <2>1 DEF InStep, Answering
<1>3. CASE Takes(chunk) /\ Relayed(chunk)
  <2>1. thread' = "verdict" /\ fut' = "pending" /\ reply' = reply \o chunk.content /\ received' = reply'
        /\ ~ Undecided
    BY <1>1, <1>3 DEF Relayed
  <2>2. NotACommand(reply')
    BY <1>1, <2>1, NotACommandGrows DEF InStep, Answering
  <2> QED BY <1>1, <2>1, <2>2 DEF InStep, Answering
<1>4. CASE Takes(chunk) /\ Held(chunk)
  <2>1. thread' = "verdict" /\ fut' = "pending" /\ received' = reply' /\ Undecided'
    BY <1>1, <1>4 DEF Held, Undecided
  <2> QED BY <1>1, <2>1 DEF InStep, Answering
<1>5. CASE Takes(chunk) /\ Passed(chunk)
  <2>1. thread' = "verdict" /\ fut' = "pending" /\ received' = reply' /\ NotACommand(reply')
    BY <1>1, <1>5 DEF Passed, NotACommand
  <2> QED BY <1>1, <2>1 DEF InStep, Answering
<1>6. CASE Takes(chunk) /\ Commanded(chunk)
  <2>1. /\ thread' = "wait" /\ result'.text = reply' /\ result'.word \in Words
        /\ IsPrefix(result'.word, reply')
    BY <1>1, <1>6 DEF Commanded
  <2> QED BY <1>1, <2>1 DEF InStep, Answering
<1> QED BY <1>1, <1>2, <1>3, <1>4, <1>5, <1>6 DEF Contract

\* Whoever leaves the restorator, the reply and the round alone.
LEMMA InStepOthers ==
  ASSUME InStep, UNCHANGED <<thread, request, fut, reply, lastDetected, received, result>>
  PROVE  InStep'
BY DEF InStep, Fresh, Undecided

LEMMA InStepThread ==
  ASSUME ChatTypes, DieInv, InStep,
         \/ StartRound \/ ModelMissing \/ LeaveLoop \/ CloseThread \/ EndRound
         \/ KeepReading \/ StopReading \/ LeaveRound \/ FutureReady \/ GetThrows
         \/ GetCommand \/ TimeThrows \/ FulfillRequest \/ RespondToUser
         \/ HandlerDisconnected \/ HandlerThrows \/ StreamEnds \/ ChatThrows
  PROVE  InStep'
<1>1. CASE StartRound
  <2>1. /\ thread' = "chat" /\ request' = <<>> /\ reply' = <<>> /\ request # <<>>
        /\ fut' = "pending" /\ UNCHANGED <<lastDetected, received>>
    BY <1>1 DEF StartRound, detectorVars
  <2>2. received' = <<>> /\ lastDetected' = NullOpt
    BY <2>1 DEF InStep, Fresh
  <2>3. ~ Undecided' => Words = {}
    BY <2>2, ChatAssumption DEF Undecided
  <2> QED BY <2>1, <2>2, <2>3 DEF InStep, NotACommand, Answering
<1>2. CASE FulfillRequest
  <2>1. thread' = "endRound" /\ Fresh' /\ UNCHANGED <<fut, reply>>
    BY <1>2 DEF FulfillRequest, Detector!Reset, Fresh
  <2> QED BY <2>1 DEF InStep, Answering
<1>3. CASE KeepReading
  <2>1. /\ thread = "verdict" /\ thread' = "chat"
        /\ UNCHANGED <<request, fut, reply, lastDetected, received, result>>
    BY <1>3 DEF KeepReading, At, threadVars, detectorVars
  <2> QED BY <2>1 DEF InStep, Fresh, Undecided, Answering
<1>4. CASE ModelMissing \/ LeaveLoop \/ CloseThread \/ EndRound \/ LeaveRound
           \/ GetThrows \/ TimeThrows \/ RespondToUser \/ ChatThrows
  <2>1. /\ thread' \notin {"chat", "verdict"} \cup Answering
        /\ UNCHANGED <<request, fut, reply, lastDetected, received>>
    BY <1>4 DEF ModelMissing, LeaveLoop, CloseThread, EndRound, LeaveRound, GetThrows,
         TimeThrows, RespondToUser, ChatThrows, threadVars, detectorVars, Answering
  <2> QED BY <2>1 DEF InStep, Fresh
<1>5. CASE StopReading \/ HandlerDisconnected \/ HandlerThrows \/ StreamEnds
  <2>1. /\ thread' = "wait" /\ fut' = "broken"
        /\ UNCHANGED <<request, lastDetected, received>>
    BY <1>5 DEF StopReading, HandlerDisconnected, HandlerThrows, StreamEnds,
         ChatReturns, detectorVars
  <2> QED BY <2>1 DEF InStep, Fresh
<1>6. CASE FutureReady \/ GetCommand
  <2>1. /\ thread \in Answering /\ thread' \in {"get", "serve"}
        /\ UNCHANGED <<request, fut, reply, lastDetected, received, result>>
    BY <1>6 DEF FutureReady, GetCommand, At, threadVars, detectorVars, Answering
  <2> QED BY <2>1 DEF InStep, Fresh
<1> QED BY <1>1, <1>2, <1>3, <1>4, <1>5, <1>6

LEMMA InStepKept == Spec => []InStep
<1>1. Init => InStep
  BY DEF Init, Detector!Init, InStep, Fresh
<1>2. ChatTypes /\ DieInv /\ DetectorKnows /\ InStep /\ [Next]_vars => InStep'
  <2> SUFFICES ASSUME ChatTypes, DieInv, DetectorKnows, InStep, [Next]_vars
               PROVE  InStep'
    OBVIOUS
  <2>1. CASE OllamaThread \/ Ollama
    <3>1. CASE SendCheck \/ SendPush
      <4>1. UNCHANGED <<thread, request, fut, reply, lastDetected, received, result>>
        BY <3>1 DEF SendCheck, SendPush, threadVars, detectorVars
      <4> QED BY <4>1, InStepOthers
    <3>2. CASE \E chunk \in Detector!Response : HandleResponse(chunk)
      BY <3>2, InStepHandles
    <3> QED BY <2>1, <3>1, <3>2, InStepThread DEF OllamaThread, Ollama
  <2>2. CASE ServerThread \/ ConnectionLost \/ ClientCloses
    <3>1. UNCHANGED ollamaVars
      BY <2>2 DEF ServerThread, CallProvider, QueueEmpty, GetStringForUser, Write,
           NotWritable, Destroy, ResetThread, Join, ConnectionLost, ClientCloses
    <3>2. UNCHANGED <<thread, request, fut, reply, lastDetected, received, result>>
      BY <3>1 DEF ollamaVars, threadVars, detectorVars
    <3> QED BY <3>2, InStepOthers
  <2>3. CASE Over \/ UNCHANGED vars
    <3>1. UNCHANGED <<thread, request, fut, reply, lastDetected, received, result>>
      BY <2>3 DEF Over, vars, threadVars, detectorVars
    <3> QED BY <3>1, InStepOthers
  <2> QED BY <2>1, <2>2, <2>3 DEF Next
<1> QED BY <1>1, <1>2, ChatTyped, DieKept, DetectorKept, PTL DEF Spec

-----------------------------------------------------------------------------
(* What the user is shown is the reply.                                    *)

\* The text a user who stays has seen, or will see of what is on its way.
Shown == ShownText(Traffic)

(***************************************************************************)
(* Until somebody disconnects: nothing is shown while the restorator is    *)
(* undecided, all of the reply once it is not, and nothing when a new      *)
(* round is to come. Nothing is while a command is served, whoever leaves. *)
(***************************************************************************)
ShownSoFar ==
  ~ disconnectAll =>
    /\ thread = "chat" => Shown = IF Undecided THEN <<>> ELSE reply
    /\ thread = "verdict" =>
         Shown = IF Undecided /\ ~ Complete THEN <<>> ELSE reply
    /\ request # <<>> => Shown = <<>>

OfTheReply ==
  /\ IsPrefix(Shown, reply)
  /\ Shown # <<>> => \A w \in Words : ~ IsCommand(w, reply)
  /\ thread \in Answering /\ fut = "set" => Shown = <<>>
  /\ clientOpen /\ Complete =>
       \/ Shown = reply
       \/ thread \in Answering /\ ~ disconnectAll
       \/ thread = "terminated"

ShownInv == ShownSoFar /\ OfTheReply

LEMMA TrafficTyped ==
  ASSUME ChatTypes
  PROVE  /\ Traffic \in Seq(Message) /\ Shown \in Seq(Chars)
         /\ reply \in Seq(Chars) /\ outbox \in Seq(Message)
BY StreamTyped, ConcatProperties, ShownTyped
DEF Traffic, Shown, ChatTypes, ThreadTypes

\* Whoever at most raises the flag, once the client has gone.
LEMMA ShownOthers ==
  ASSUME ShownInv, Shown' = Shown,
         UNCHANGED <<thread, request, fut, reply, lastDetected, result>>,
         clientOpen' => clientOpen,
         disconnectAll' = disconnectAll \/ (disconnectAll' /\ ~ clientOpen')
  PROVE  ShownInv'
BY DEF ShownInv, ShownSoFar, OfTheReply, Undecided, Complete

\* What SendToUser drops was the last text, and the client has gone.
LEMMA ShownDropped ==
  ASSUME ChatTypes, Leaving, outbox # <<>>, disconnectAll,
         Stream' = Stream, outbox' = Tail(outbox)
  PROVE  /\ Shown' \in Seq(Chars)
         /\ Shown' = Shown \/ (~ clientOpen /\ IsPrefix(Shown', Shown))
<1> DEFINE h == Head(outbox)
           r == Tail(outbox)
           a == ShownText(Stream)
<1>1. Stream \in Seq(Message) /\ outbox \in Seq(Message)
  BY StreamTyped
<1>2. /\ h \in Message /\ r \in Seq(Message) /\ outbox = <<h>> \o r
      /\ Len(outbox) \in Nat \ {0} /\ Len(r) = Len(outbox) - 1 /\ h = outbox[1]
  BY <1>1, HeadTailProperties, ConcatProperties, SeqEqual, EmptySeq
<1> HIDE DEF h, r
<1>3. <<h>> \in Seq(Message) /\ ShownText(<<h>>) = h.text
  BY <1>2, ShownOne
<1>4. /\ Shown = a \o (h.text \o ShownText(r)) /\ Shown' = a \o ShownText(r)
      /\ a \in Seq(Chars) /\ h.text \in Seq(Chars) /\ ShownText(r) \in Seq(Chars)
  <2>1. Shown = a \o ShownText(outbox)
    BY <1>1, ShownConcat DEF Shown, Traffic
  <2>2. ShownText(outbox) = h.text \o ShownText(r)
    BY <1>2, <1>3, ShownConcat
  <2>3. Shown' = a \o ShownText(r)
    BY <1>1, <1>2, ShownConcat DEF Shown, Traffic, r
  <2>4. h.text \in Seq(Chars)
    BY <1>2 DEF Message
  <2> QED BY <1>1, <1>2, <2>1, <2>2, <2>3, <2>4, ShownTyped
<1> HIDE DEF a
<1>5. Shown' \in Seq(Chars)
  BY <1>4, ConcatProperties
<1>6. CASE h.text = <<>>
  BY <1>4, <1>5, <1>6, ConcatEmptySeq
<1>7. CASE h.text # <<>>
  <2>1. 1 \notin 1 .. Len(outbox) - 1
    BY <1>2, <1>7 DEF Leaving, SilentButLast
  <2>2. r = <<>>
    BY <1>2, <2>1, EmptySeq
  <2>3. Shown' = a /\ Shown = a \o h.text
    BY <1>4, <2>2, ShownNone, ConcatEmptySeq
  <2>4. IsPrefix(Shown', Shown)
    BY <1>4, <2>3, PrefixOfItself, PrefixOfLonger
  <2>5. ~ Silent(outbox)
    BY <1>2, <1>7 DEF Silent
  <2> QED BY <1>5, <2>4, <2>5 DEF Leaving
<1> QED BY <1>6, <1>7

LEMMA ShownSends ==
  ASSUME ChatTypes, ChannelInv, Leaving, ShownInv, [Next]_vars, SendCheck \/ SendPush
  PROVE  ShownInv'
<1>1. UNCHANGED <<thread, request, fut, reply, lastDetected, result, disconnectAll,
                  clientOpen>>
  BY DEF SendCheck, SendPush, threadVars, detectorVars, channelVars, serverVars,
         clientVars
<1>2. CASE SendPush
  <2>1. /\ Stream' = Stream \o <<Head(outbox)>>
        /\ outbox' = Tail(outbox) /\ outbox # <<>>
    BY <1>2, StreamSteps DEF SendPush, ChatTypes, SendTypes
  <2>2. Traffic' = Traffic
    <3> DEFINE h == Head(outbox)
               r == Tail(outbox)
    <3>1. Stream \in Seq(Message) /\ outbox \in Seq(Message)
      BY StreamTyped
    <3>2. h \in Message /\ r \in Seq(Message) /\ outbox = <<h>> \o r
      BY <2>1, <3>1, HeadTailProperties, ConcatProperties, SeqEqual
    <3> HIDE DEF h, r
    <3>3. <<h>> \in Seq(Message)
      BY <3>2
    <3>4. Stream' = Stream \o <<h>> /\ outbox' = r
      BY <2>1 DEF h, r
    <3> QED BY <3>1, <3>2, <3>3, <3>4, Associative DEF Traffic
  <2>3. Shown' = Shown
    BY <2>2 DEF Shown
  <2> QED BY <1>1, <2>3, ShownOthers
<1>3. CASE SendCheck /\ ~ SendPush
  <2>1. Stream' = Stream /\ outbox # <<>>
    BY <1>3, StreamSteps DEF SendCheck
  <2>2. CASE ~ disconnectAll
    <3>1. outbox' = outbox
      BY <1>3, <2>2 DEF SendCheck
    <3>2. Shown' = Shown
      BY <2>1, <3>1 DEF Shown, Traffic
    <3> QED BY <1>1, <3>2, ShownOthers
  <2>3. CASE disconnectAll
    <3>1. outbox' = Tail(outbox)
      BY <1>3, <2>3 DEF SendCheck
    <3>2. Shown' = Shown \/ (~ clientOpen /\ IsPrefix(Shown', Shown))
      BY <2>1, <2>3, <3>1, ShownDropped
    <3>3. CASE Shown' = Shown
      BY <1>1, <3>3, ShownOthers
    <3>4. CASE ~ clientOpen /\ IsPrefix(Shown', Shown)
      <4>1. Shown \in Seq(Chars) /\ Shown' \in Seq(Chars) /\ reply \in Seq(Chars)
        BY <2>1, <2>3, <3>1, ShownDropped, TrafficTyped
      <4>2. IsPrefix(Shown', reply)
        BY <3>4, <4>1, PrefixTransitive DEF ShownInv, OfTheReply
      <4>3. Shown' # <<>> => Shown # <<>>
        <5>1. IsPrefix(<<>>, Shown')
          BY <4>1, PrefixOfItself
        <5>2. <<>> \in Seq(Chars)
          BY EmptySeq
        <5> QED BY <3>4, <4>1, <5>1, <5>2, MutualPrefixes
      <4> QED BY <1>1, <2>3, <3>4, <4>2, <4>3 DEF ShownInv, ShownSoFar, OfTheReply
    <3> QED BY <3>2, <3>3, <3>4
  <2> QED BY <2>2, <2>3
<1> QED BY <1>2, <1>3

\* What a step of the thread adds to what is shown.
LEMMA ShownAdds ==
  ASSUME ChatTypes, ChannelInv, [Next]_vars, OllamaThread \/ Ollama,
         ~ SendCheck, ~ SendPush, outbox' \in Seq(Message)
  PROVE  /\ Shown' = Shown \o ShownText(outbox')
         /\ ShownText(outbox') = <<>> => Shown' = Shown
         /\ Shown \in Seq(Chars) /\ reply \in Seq(Chars)
         /\ disconnectAll' \in {TRUE, disconnectAll}
<1>1. /\ Traffic' = Stream \o outbox' /\ Traffic = Stream
      /\ disconnectAll' \in {TRUE, disconnectAll}
  BY ThreadSpeaks
<1>2. Shown' = Shown \o ShownText(outbox')
  BY <1>1, StreamTyped, ShownConcat DEF Shown
<1>3. Shown \in Seq(Chars) /\ reply \in Seq(Chars)
  BY TrafficTyped
<1> QED BY <1>1, <1>2, <1>3, ConcatEmptySeq

\* The steps that add nothing.
LEMMA ShownSilent ==
  ASSUME ChatTypes, ChannelInv, DieInv, Leaving, InStep, ShownInv, [Next]_vars,
         \/ StartRound \/ ModelMissing \/ LeaveLoop \/ CloseThread \/ EndRound
         \/ KeepReading \/ StopReading
         \/ LeaveRound \/ FutureReady \/ GetThrows \/ GetCommand \/ TimeThrows
         \/ HandlerDisconnected \/ HandlerThrows \/ StreamEnds \/ ChatThrows
  PROVE  ShownInv'
<1>0. ~ SendCheck /\ ~ SendPush
  BY DEF StartRound, ModelMissing, LeaveLoop, CloseThread, EndRound, KeepReading,
         StopReading, LeaveRound, FutureReady, GetThrows, GetCommand, TimeThrows,
         HandlerDisconnected, HandlerThrows, StreamEnds, ChatThrows, At, SendCheck,
         SendPush, ChatTypes, SendTypes
<1>1. outbox' \in Seq(Message) /\ ShownText(outbox') = <<>>
  <2>1. CASE LeaveLoop \/ EndRound
    BY <2>1, ClosesShown
  <2>2. CASE GetCommand
    BY <2>2, PingsShown
  <2>3. CASE ~ LeaveLoop /\ ~ EndRound /\ ~ GetCommand
    <3>1. outbox' = <<>>
      BY <2>3 DEF StartRound, ModelMissing, CloseThread, KeepReading, StopReading,
           LeaveRound, FutureReady, GetThrows, TimeThrows, HandlerDisconnected,
           HandlerThrows, StreamEnds, ChatThrows, ChatReturns, At, sendVars
    <3> QED BY <3>1, NothingIsSilent, ShownNone
  <2> QED BY <2>1, <2>2, <2>3
<1>2. Shown' = Shown /\ disconnectAll' \in {TRUE, disconnectAll}
  BY <1>0, <1>1, ShownAdds DEF OllamaThread, Ollama
<1>3. UNCHANGED <<clientOpen, lastDetected, result>>
  BY DEF StartRound, ModelMissing, LeaveLoop, CloseThread, EndRound, KeepReading,
         StopReading, LeaveRound, FutureReady, GetThrows, GetCommand, TimeThrows,
         HandlerDisconnected, HandlerThrows, StreamEnds, ChatThrows, ChatReturns,
         serverVars, clientVars, detectorVars
<1>4. CASE StartRound
  <2>1. /\ request # <<>> /\ ~ disconnectAll /\ request' = <<>> /\ reply' = <<>>
        /\ thread = "outer" /\ thread' = "chat"
    BY <1>4 DEF StartRound, At, Looping
  <2>2. Shown' = <<>> /\ ~ Complete'
    BY <1>2, <1>3, <2>1
    DEF ShownInv, ShownSoFar, Complete, DieInv, BetweenRounds, HasMore
  <2>3. IsPrefix(<<>>, <<>>)
    BY EmptySeq, PrefixOfItself
  <2> QED BY <2>1, <2>2, <2>3 DEF ShownInv, ShownSoFar, OfTheReply, Answering
<1>5. CASE ModelMissing \/ LeaveLoop \/ CloseThread \/ EndRound \/ ChatThrows
           \/ GetThrows \/ TimeThrows
  <2>1. /\ thread \notin Answering \/ thread' = "terminated"
        /\ thread' \notin {"chat", "verdict"} \cup Answering
        /\ UNCHANGED <<request, reply>>
    BY <1>5 DEF ModelMissing, LeaveLoop, CloseThread, EndRound, ChatThrows, GetThrows,
         TimeThrows, At, threadVars, Answering
  <2>2. ~ disconnectAll' => ~ disconnectAll
    BY <1>2
  <2>3. thread' = "terminated" \/ thread # "terminated"
    BY <1>5 DEF ModelMissing, LeaveLoop, CloseThread, EndRound, ChatThrows, GetThrows,
         TimeThrows, At
  <2> QED BY <1>2, <1>3, <2>1, <2>2, <2>3
          DEF ShownInv, ShownSoFar, OfTheReply, Complete
<1>6. CASE KeepReading
  <2>1. /\ thread = "verdict" /\ thread' = "chat" /\ ~ Complete
        /\ ~ disconnectAll /\ UNCHANGED <<request, reply, fut>>
    BY <1>6 DEF KeepReading, At, threadVars, Complete, KeepTalking
  <2> QED BY <1>2, <1>3, <2>1
          DEF ShownInv, ShownSoFar, OfTheReply, Complete, Undecided, Answering
<1>7. CASE StopReading \/ HandlerDisconnected \/ HandlerThrows \/ StreamEnds
  <2>1. /\ thread \in {"chat", "verdict"} /\ thread' = "wait" /\ fut' = "broken"
        /\ UNCHANGED <<request, reply>>
    BY <1>7 DEF StopReading, HandlerDisconnected, HandlerThrows, StreamEnds,
         ChatReturns, At
  <2>2. request' = <<>>
    BY <2>1 DEF DieInv, InRound
  <2> QED BY <1>2, <1>3, <2>1, <2>2 DEF ShownInv, ShownSoFar, OfTheReply, Complete,
              Answering
<1>8. CASE LeaveRound
  <2>1. /\ thread = "wait" /\ thread' = "endRound" /\ request' = <<>> /\ reply' = reply
        /\ shouldStop \/ disconnectAll
    BY <1>8 DEF LeaveRound, At, threadVars, DieInv, InRound, Looping
  <2>2. clientOpen => disconnectAll
    BY <2>1 DEF Leaving
  <2> QED BY <1>2, <1>3, <2>1, <2>2 DEF ShownInv, ShownSoFar, OfTheReply, Complete,
              Answering
<1>9. CASE FutureReady \/ GetCommand
  <2>1. /\ thread \in Answering /\ thread' \in {"get", "serve"}
        /\ UNCHANGED <<request, reply, fut, disconnectAll>>
    BY <1>9 DEF FutureReady, GetCommand, At, threadVars, channelVars, Answering
  <2> QED BY <1>2, <1>3, <2>1
          DEF ShownInv, ShownSoFar, OfTheReply, Complete, Answering
<1> QED BY <1>4, <1>5, <1>6, <1>7, <1>8, <1>9

\* A chunk of the reply.
LEMMA ShownHandles ==
  ASSUME ChatTypes, ChannelInv, DieInv, DetectorKnows, InStep, ShownInv, [Next]_vars,
         NEW chunk \in Detector!Response, HandleResponse(chunk), MayArrive(chunk)
  PROVE  ShownInv'
<1>0. ~ SendCheck /\ ~ SendPush
  BY DEF HandleResponse, At, SendCheck, SendPush, ChatTypes, SendTypes
<1> DEFINE added == ShownText(outbox')
<1>1. /\ outbox' \in Seq(Message)
      /\ added = IF IsPlainText(result') THEN result'.text
                 ELSE IF IsRelayed(result') THEN chunk.content
                 ELSE <<>>
  BY HandlerShown
<1>2. /\ Shown' = Shown \o added /\ (added = <<>> => Shown' = Shown)
      /\ Shown \in Seq(Chars)
  BY <1>0, <1>1, ShownAdds DEF Ollama
<1> HIDE DEF added
<1>3. /\ Contract(chunk) /\ thread = "chat" /\ request' = <<>>
      /\ reply \in Seq(Chars) /\ chunk.content \in Seq(Chars)
      /\ Unreadable(chunk) => reply' = reply /\ received' = reply
      /\ Takes(chunk) => /\ reply' = reply \o chunk.content
                         /\ received' = reply' /\ reply' \in Seq(Chars)
  BY ReplyGrows
<1>4. ~ disconnectAll /\ ~ disconnectAll'
      /\ thread' = IF result'.kind = "Detected" THEN "wait" ELSE "verdict"
  BY DEF HandleResponse, KeepTalking, channelVars
<1>5. Shown = IF Undecided THEN <<>> ELSE reply
  BY <1>3, <1>4 DEF ShownInv, ShownSoFar
<1>n. \A t \in Seq(Chars) : IsPrefix(t, t) /\ IsPrefix(<<>>, t) /\ <<>> \o t = t
  BY PrefixOfItself, ConcatEmptySeq
\* The user sees the whole reply, which is no command.
<1>a. ASSUME Takes(chunk), Shown' = reply', thread' = "verdict",
             \A w \in Words : ~ IsCommand(w, reply'), ~ Undecided' \/ Complete'
      PROVE  ShownInv'
  <2>1. IsPrefix(Shown', reply')
    BY <1>3, <1>a, <1>n
  <2> QED BY <1>3, <1>a, <2>1 DEF ShownInv, ShownSoFar, OfTheReply, Answering
\* The user sees nothing yet.
<1>b. ASSUME Takes(chunk), Shown' = <<>>,
             (thread' = "verdict" /\ Undecided' /\ ~ Complete') \/ thread' = "wait"
      PROVE  ShownInv'
  <2>1. IsPrefix(<<>>, reply')
    BY <1>3, <1>b, <1>n
  <2> QED BY <1>3, <1>4, <1>b, <2>1 DEF ShownInv, ShownSoFar, OfTheReply, Answering
<1>6. CASE Unreadable(chunk)
  <2>1. /\ thread' = "verdict" /\ reply' = reply /\ Shown' = Shown /\ ~ Complete'
        /\ (Undecided' <=> Undecided)
    BY <1>1, <1>2, <1>3, <1>4, <1>6
    DEF Unreadable, IsPlainText, IsRelayed, Undecided, Complete
  <2> QED BY <1>3, <1>5, <2>1 DEF ShownInv, ShownSoFar, OfTheReply, Answering
<1>7. CASE Takes(chunk) /\ Relayed(chunk)
  <2>1. Detector!Status(chunk) # "CommunicationFailure"
    BY DEF Detector!Status
  <2>2. added = chunk.content /\ thread' = "verdict" /\ ~ Undecided /\ ~ Undecided'
    BY <1>1, <1>4, <1>7, <2>1 DEF Relayed, IsPlainText, IsRelayed, Undecided
  <2>3. Shown' = reply'
    BY <1>2, <1>3, <1>5, <1>7, <2>2
  <2>4. NotACommand(reply')
    BY <1>3, <1>7, <2>2, NotACommandGrows DEF InStep
  <2> QED BY <1>3, <1>7, <1>a, <2>2, <2>3, <2>4, NotACommandIsNone
<1>8. CASE Takes(chunk) /\ Held(chunk)
  <2>1. /\ Undecided /\ Undecided' /\ thread' = "verdict"
        /\ result'.kind = "NeedMoreData" /\ result'.text = reply'
        /\ result'.status = Detector!Status(chunk) /\ Shown = <<>>
    BY <1>3, <1>4, <1>5, <1>8 DEF Held, Undecided
  <2>2. CASE chunk.done = "true"
    <3>1. result'.status = "OllamaSentAll" /\ added = reply'
      BY <1>1, <2>1, <2>2 DEF Detector!Status, IsPlainText
    <3>2. Shown' = reply' /\ Complete'
      BY <1>2, <1>3, <1>8, <1>n, <2>1, <3>1 DEF Complete
    <3>3. \A w \in Words : ~ IsCommand(w, reply')
      BY <1>3, <1>8, <2>2 DEF Held, IsCommand
    <3> QED BY <1>8, <1>a, <2>1, <3>2, <3>3
  <2>3. CASE chunk.done # "true"
    <3>1. result'.status = "OllamaHasMore"
      BY <2>1, <2>3 DEF Detector!Status
    <3>2. added = <<>> /\ ~ Complete'
      BY <1>1, <2>1, <3>1 DEF IsPlainText, IsRelayed, Complete
    <3> QED BY <1>2, <1>8, <1>b, <2>1, <3>2
  <2> QED BY <2>2, <2>3
<1>9. CASE Takes(chunk) /\ Passed(chunk)
  <2>1. /\ thread' = "verdict" /\ ~ Undecided' /\ added = reply' /\ Shown = <<>>
        /\ NotACommand(reply')
    BY <1>1, <1>3, <1>4, <1>5, <1>9 DEF Passed, IsPlainText, Undecided, NotACommand
  <2>2. Shown' = reply'
    BY <1>2, <1>3, <1>9, <1>n, <2>1
  <2> QED BY <1>3, <1>9, <1>a, <2>1, <2>2, NotACommandIsNone
<1>10. CASE Takes(chunk) /\ Commanded(chunk)
  <2>1. thread' = "wait" /\ added = <<>> /\ Shown = <<>>
    BY <1>1, <1>4, <1>5, <1>10 DEF Commanded, IsPlainText, IsRelayed
  <2> QED BY <1>2, <1>10, <1>b, <2>1
<1> QED BY <1>3, <1>6, <1>7, <1>8, <1>9, <1>10 DEF Contract

\* No keyword but the one the restorator found can be the reply: none is a
\* prefix of another.
LEMMA OnlyThatWord ==
  ASSUME NEW v \in Words, NEW t \in Seq(Chars), IsPrefix(v, t),
         ~ Commands!IsRequestToFulfill(v, t), NEW w \in Words
  PROVE  ~ IsCommand(w, t)
BY OutgrownIsFinal, CommandCouldBecome

LEMMA ShownAnswers ==
  ASSUME ChatTypes, ChannelInv, DieInv, InStep, ShownInv, [Next]_vars,
         FulfillRequest \/ RespondToUser
  PROVE  ShownInv'
<1>0. ~ SendCheck /\ ~ SendPush
  BY DEF FulfillRequest, RespondToUser, At, SendCheck, SendPush, ChatTypes, SendTypes
<1>1. /\ outbox' \in Seq(Message)
      /\ FulfillRequest => ShownText(outbox') = <<>>
      /\ RespondToUser => ShownText(outbox') = result.text
  BY PingsShown, TextShown
<1>2. /\ Shown' = Shown \o ShownText(outbox')
      /\ ShownText(outbox') = <<>> => Shown' = Shown
      /\ reply \in Seq(Chars)
  BY <1>0, <1>1, ShownAdds DEF OllamaThread
<1>3. /\ thread = "serve" /\ fut = "set" /\ thread' = "endRound" /\ reply' = reply
      /\ request = <<>>
  BY DEF FulfillRequest, RespondToUser, At, DieInv, InRound, ChatTypes,
         FutureHoldsCommand
<1>4. /\ Shown = <<>> /\ result.text = reply /\ result.word \in Words
      /\ IsPrefix(result.word, reply)
  BY <1>3 DEF ShownInv, OfTheReply, InStep, Answering
<1>5. CASE FulfillRequest
  <2>1. Shown' = <<>> /\ ~ Complete'
    BY <1>1, <1>2, <1>4, <1>5
    DEF FulfillRequest, Detector!Reset, Detector!NoResult, Complete
  <2>2. IsPrefix(<<>>, reply)
    BY <1>2, PrefixOfItself
  <2> QED BY <1>3, <2>1, <2>2 DEF ShownInv, ShownSoFar, OfTheReply, Answering
<1>6. CASE RespondToUser
  <2>1. ~ Commands!IsRequestToFulfill(result.word, reply) /\ request' = <<>>
    BY <1>3, <1>4, <1>6 DEF RespondToUser
  <2>2. Shown' = reply
    BY <1>1, <1>2, <1>4, <1>6, ConcatEmptySeq
  <2>3. \A w \in Words : ~ IsCommand(w, reply)
    BY <1>2, <1>4, <2>1, OnlyThatWord
  <2>4. IsPrefix(reply, reply)
    BY <1>2, PrefixOfItself
  <2> QED BY <1>3, <2>1, <2>2, <2>3, <2>4 DEF ShownInv, ShownSoFar, OfTheReply, Answering
<1> QED BY <1>5, <1>6

LEMMA ShownSteps ==
  ASSUME ChatTypes, ChannelInv, DieInv, DetectorKnows, Leaving, InStep, ShownInv,
         [Next]_vars
  PROVE  ShownInv'
<1>1. CASE UNCHANGED vars \/ Over
  <2>1. /\ UNCHANGED <<thread, request, fut, reply, lastDetected, result, outbox,
                       clientOpen, disconnectAll>>
        /\ Stream' = Stream
    BY <1>1 DEF Over, vars, channelVars, threadVars, sendVars, detectorVars,
                serverVars, clientVars, Stream
  <2>2. Shown' = Shown
    BY <2>1 DEF Shown, Traffic
  <2> QED BY <2>1, <2>2, ShownOthers
<1>2. CASE ServerThread \/ ConnectionLost \/ ClientCloses
  <2>1. /\ UNCHANGED ollamaVars
        /\ clientOpen' => clientOpen
        /\ disconnectAll' = disconnectAll \/ (disconnectAll' /\ ~ clientOpen')
    <3>1. CASE CallProvider \/ QueueEmpty \/ GetStringForUser \/ Write \/ Join
               \/ ResetThread \/ ConnectionLost \/ ClientCloses
      BY <3>1 DEF CallProvider, QueueEmpty, GetStringForUser, Write, Join, ResetThread,
           ConnectionLost, ClientCloses, channelVars, clientVars
    <3>2. CASE NotWritable \/ Destroy
      BY <3>2 DEF NotWritable, Destroy, clientVars, Leaving, Gone
    <3> QED BY <1>2, <3>1, <3>2 DEF ServerThread
  <2>2. UNCHANGED <<thread, request, fut, reply, lastDetected, result, outbox, checked>>
    BY <2>1 DEF ollamaVars, threadVars, sendVars, detectorVars
  <2>3. ~ SendPush
    BY <2>2 DEF SendPush, ChatTypes, SendTypes
  <2>4. Shown' = Shown
    BY <2>2, <2>3, StreamSteps DEF Shown, Traffic
  <2> QED BY <2>1, <2>2, <2>4, ShownOthers
<1>3. CASE OllamaThread \/ Ollama
  BY <1>3, ShownSends, ShownSilent, ShownHandles, ShownAnswers
  DEF OllamaThread, Ollama
<1> QED BY <1>1, <1>2, <1>3 DEF Next

LEMMA ShownKept == Spec => []ShownInv
<1>1. Init => ShownInv
  <2> SUFFICES ASSUME Init PROVE ShownInv
    OBVIOUS
  <2>1. /\ Stream = <<>> /\ Traffic = <<>> /\ reply = <<>> /\ thread = "outer"
        /\ result = Detector!NoResult
    BY DEF Init, Stream, Traffic, Detector!Init
  <2>2. Shown = <<>> /\ ~ Complete
    BY <2>1, ShownNone DEF Shown, Complete, Detector!NoResult
  <2>3. IsPrefix(<<>>, <<>>)
    BY EmptySeq, PrefixOfItself
  <2> QED BY <2>1, <2>2, <2>3 DEF ShownInv, ShownSoFar, OfTheReply
<1> QED BY <1>1, ShownSteps, ChatTyped, ChannelInvKept, DieKept, DetectorKept,
           LeavingKept, InStepKept, PTL DEF Spec

(***************************************************************************)
(* In every chat, with any keywords of which none begins another, however  *)
(* Ollama cuts its replies into chunks and whoever leaves when: what the   *)
(* user is shown is a beginning of the present reply, and all of it at the *)
(* end of a complete reply if the client is still there                    *)
(* (chunkedcontentprovider.cpp:239-324, contentrestorator.cpp:89-181).     *)
(***************************************************************************)
THEOREM ShowsTheReply == Spec => []ShownIsReply
<1>1. ChatTypes /\ Leaving /\ ShownInv => ShownIsReply
  <2> SUFFICES ASSUME ChatTypes, Leaving, ShownInv PROVE ShownIsReply
    OBVIOUS
  <2>1. IsPrefix(ShownText(Stream \o outbox), reply)
    BY DEF ShownInv, OfTheReply, Shown, Traffic
  <2>2. ASSUME thread = "done", clientOpen, Complete
        PROVE  ShownText(Stream) = reply
    <3>1. outbox = <<>> /\ Shown = reply
      BY <2>2 DEF Leaving, ShownInv, OfTheReply, Answering
    <3>2. Stream \o <<>> = Stream
      BY StreamTyped, ConcatEmptySeq
    <3> QED BY <3>1, <3>2 DEF Shown, Traffic
  <2> QED BY <2>1, <2>2 DEF ShownIsReply, Complete
<1> QED BY <1>1, ChatTyped, LeavingKept, ShownKept, PTL

(***************************************************************************)
(* And while the reply so far is a command, none of it is shown, in        *)
(* whatever round (cpp:310-318).                                           *)
(***************************************************************************)
THEOREM HidesCommands == Spec => []CommandsStayHidden
<1>1. ShownInv => CommandsStayHidden
  BY DEF ShownInv, OfTheReply, Shown, Traffic, CommandsStayHidden, IsCommand
<1> QED BY <1>1, ShownKept, PTL

(***************************************************************************)
(* In every chat, a complete or failed reply that begins with no keyword   *)
(* does not end the process: whatever throws where nothing catches it, the *)
(* thread was waiting for more of a reply, or serving one that begins with *)
(* a keyword (cpp:250-257, 343, 363, 366-405, 446-457).                    *)
(***************************************************************************)
THEOREM DiesOnlyThen == Spec => []PlainRepliesAreSafe
<1>1. DieInv /\ InStep => PlainRepliesAreSafe
  BY DEF DieInv, DiesEarly, HasMore, InStep, PlainRepliesAreSafe
<1> QED BY <1>1, DieKept, InStepKept, PTL
=============================================================================
