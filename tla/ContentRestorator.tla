-------------------------- MODULE ContentRestorator -------------------------
(***************************************************************************)
(* CContentRestorator (network/contentrestorator): decides, chunk by       *)
(* chunk, whether the reply Ollama is streaming starts with one of the     *)
(* keywords of the backend (then the reply is kept from the user until it  *)
(* is complete) or is meant for the user (then everything is relayed).     *)
(*                                                                         *)
(* whatToLookFor is sorted by length and searched in that order. Two       *)
(* keywords of one length cannot both be a prefix of a text, so the sorted *)
(* vector is represented by the set Words and "the first match" by the     *)
(* shortest one.                                                           *)
(***************************************************************************)
EXTENDS Integers, Sequences, SequencesExt

CONSTANTS Chars,       \* the characters a reply is made of
          Blanks,      \* those of them std::isspace accepts
          Words,       \* whatToLookFor
          AiCommands,  \* the keys of GetAiCommandsList()
          Pieces,      \* the contents one chunk may carry
          MaxText,     \* bound: characters received between two Resets
          NullOpt,     \* lastDetected holds no iterator
          CEnd         \* lastDetected holds whatToLookFor.cend()

Text == Seq(Chars)

ASSUME RestoratorAssumption ==
  /\ Words \subseteq Text
  /\ Pieces \subseteq Text
  /\ NullOpt \notin Words
  /\ CEnd \notin Words
  /\ NullOpt # CEnd
  /\ MaxText \in Nat

(***************************************************************************)
(* The keyword list of the program has one entry; the lists of the tests   *)
(* satisfy this too. With a keyword that is a prefix of another one the    *)
(* shorter would hide the longer.                                          *)
(***************************************************************************)
ASSUME KeywordAssumption ==
  /\ \A w \in Words : w # <<>> /\ w[1] \notin Blanks /\ w[Len(w)] \notin Blanks
  /\ \A v, w \in Words : IsPrefix(v, w) => v = w

VARIABLES lastDetected,  \* NullOpt, CEnd, or the keyword pointed to
          lastData,      \* the text collected so far
          result,        \* what the last Update returned
          received       \* history: the text received since the last Reset

restoratorVars == <<lastDetected, lastData, result, received>>

Commands == INSTANCE OllamaCommands

(***************************************************************************)
(* One chunk of Ollama's reply. "done" is absent when IsModelDone yields   *)
(* nullopt: the field is missing or not a boolean.                         *)
(***************************************************************************)
Response == [done : {"true", "false", "absent"}, content : Pieces]

Status(chunk) ==
  IF chunk.done = "true" THEN "OllamaSentAll" ELSE "OllamaHasMore"

(***************************************************************************)
(* The value of Update: the reading behaviour and the decision's           *)
(* alternative, with the text and the keyword it carries. "Threw" is the   *)
(* exception of GetAiCommandsList().at(key).                               *)
(***************************************************************************)
Result ==
  [status : {"OllamaHasMore", "OllamaSentAll", "CommunicationFailure"},
   kind   : {"None", "NeedMoreData", "PassToUser", "Detected",
             "AlreadyDetected", "Threw"},
   text   : Text,
   word   : Words \cup {NullOpt}]

NoResult == [status |-> "OllamaHasMore", kind |-> "None",
             text |-> <<>>, word |-> NullOpt]

Return(status, kind, text, word) ==
  result' = [status |-> status, kind |-> kind, text |-> text, word |-> word]

-----------------------------------------------------------------------------
(***************************************************************************)
(* Update, one action per way through it. A moved-from lastData is empty   *)
(* until the next Reset: no path reads it while lastDetected is CEnd.      *)
(***************************************************************************)
Collected(chunk) == lastData \o chunk.content

NoDone(chunk) ==
  /\ chunk.done = "absent"
  /\ Return("CommunicationFailure", "AlreadyDetected", <<>>, NullOpt)
  /\ UNCHANGED <<lastDetected, lastData, received>>

AlreadyDecided(chunk) ==
  /\ chunk.done # "absent"
  /\ lastDetected = CEnd \/ Words = {}
  /\ Return(Status(chunk), "AlreadyDetected", <<>>, NullOpt)
  /\ received' = received \o chunk.content
  /\ UNCHANGED <<lastDetected, lastData>>

Receiving(chunk) ==
  /\ chunk.done # "absent"
  /\ lastDetected # CEnd
  /\ Words # {}
  /\ received' = received \o chunk.content

\* Faulty variant: only the last chunk is remembered.
NeedMoreDataForgets(chunk, detected) ==
  /\ lastDetected' = detected
  /\ lastData' = chunk.content
  /\ Return(Status(chunk), "NeedMoreData", Collected(chunk), NullOpt)

NeedMoreData(chunk, detected) ==
  /\ lastDetected' = detected
  /\ lastData' = Collected(chunk)
  /\ Return(Status(chunk), "NeedMoreData", Collected(chunk), NullOpt)

FinalizePassToUser(chunk) ==
  /\ lastDetected' = CEnd
  /\ lastData' = <<>>
  /\ Return(Status(chunk), "PassToUser", Collected(chunk), NullOpt)

\* Faulty variant: the word is read through lastDetected after it became cend().
AllReceivedPastEnd(chunk, word) ==
  /\ lastDetected' = CEnd
  /\ lastData' = <<>>
  /\ Return("OllamaSentAll", "Detected", Collected(chunk), CEnd)

\* Faulty variant: the detection is not locked.
AllReceivedUnlocked(chunk, word) ==
  /\ lastDetected' = word
  /\ lastData' = <<>>
  /\ Return("OllamaSentAll", "Detected", Collected(chunk), word)

AllReceivedResult(chunk, word) ==
  /\ lastDetected' = CEnd
  /\ lastData' = <<>>
  /\ Return("OllamaSentAll", "Detected", Collected(chunk), word)

\* A keyword was recognized earlier and this chunk completes the reply.
FullyReceived(chunk) ==
  /\ Receiving(chunk)
  /\ lastDetected # NullOpt
  /\ chunk.done = "true"
  /\ AllReceivedResult(chunk, lastDetected)

\* A keyword was recognized and there is more to come: the command itself is
\* asked whether the text so far is still nothing but the keyword. The list
\* asked is the global one, whatever list this object was built from.
PartlyReceived(chunk) ==
  /\ Receiving(chunk)
  /\ lastDetected # NullOpt
  /\ chunk.done = "false"
  /\ \/ /\ lastDetected \notin AiCommands
        /\ lastData' = Collected(chunk)
        /\ Return("CommunicationFailure", "Threw", <<>>, NullOpt)
        /\ UNCHANGED lastDetected
     \/ /\ lastDetected \in AiCommands
        /\ Commands!IsRequestToFulfill(lastDetected, Collected(chunk))
        /\ NeedMoreData(chunk, lastDetected)
     \/ /\ lastDetected \in AiCommands
        /\ ~ Commands!IsRequestToFulfill(lastDetected, Collected(chunk))
        /\ FinalizePassToUser(chunk)

\* The words before upper_bound(dataSize), and those of them the text starts with.
\* Faulty variant: lower_bound in place of upper_bound.
FittingStrictly(data) == {w \in Words : Len(w) < Len(data)}

Fitting(data) == {w \in Words : Len(w) <= Len(data)}

Matching(data) == {w \in Fitting(data) : IsPrefix(w, data)}

Recognize(chunk) ==
  /\ Receiving(chunk)
  /\ lastDetected = NullOpt
  /\ \E w \in Matching(Collected(chunk)) :
       /\ \A v \in Matching(Collected(chunk)) : Len(w) <= Len(v)
       /\ \/ chunk.done = "false" /\ NeedMoreData(chunk, w)
          \/ chunk.done = "true" /\ AllReceivedResult(chunk, w)

\* Nothing matches: wait while a longer keyword might, otherwise give up.
StillTooShort(chunk) ==
  /\ Receiving(chunk)
  /\ lastDetected = NullOpt
  /\ Matching(Collected(chunk)) = {}
  /\ Fitting(Collected(chunk)) # Words
  /\ NeedMoreData(chunk, NullOpt)

NothingFound(chunk) ==
  /\ Receiving(chunk)
  /\ lastDetected = NullOpt
  /\ Matching(Collected(chunk)) = {}
  /\ Fitting(Collected(chunk)) = Words
  /\ FinalizePassToUser(chunk)

Update(chunk) ==
  \/ NoDone(chunk)
  \/ AlreadyDecided(chunk)
  \/ FullyReceived(chunk)
  \/ PartlyReceived(chunk)
  \/ Recognize(chunk)
  \/ StillTooShort(chunk)
  \/ NothingFound(chunk)

\* Faulty variant: the text is cleared and the detection kept.
ResetTextOnly ==
  /\ lastData' = <<>>
  /\ result' = NoResult
  /\ received' = <<>>
  /\ UNCHANGED lastDetected

Reset ==
  /\ lastDetected' = NullOpt
  /\ lastData' = <<>>
  /\ result' = NoResult
  /\ received' = <<>>

-----------------------------------------------------------------------------
Init ==
  /\ lastDetected = NullOpt
  /\ lastData = <<>>
  /\ result = NoResult
  /\ received = <<>>

\* Any caller: chunks of any shape in any order, and Reset at any time.
Next ==
  \/ \E chunk \in Response :
       /\ Len(received) + Len(chunk.content) <= MaxText
       /\ Update(chunk)
  \/ Reset

Spec == Init /\ [][Next]_restoratorVars

-----------------------------------------------------------------------------
\* Every variable holds a value of its C++ type.
TypeOK ==
  /\ lastDetected \in Words \cup {NullOpt, CEnd}
  /\ lastData \in Text
  /\ result \in Result
  /\ received \in Text

(***************************************************************************)
(* No chunk boundary loses or repeats text: until the decision is taken    *)
(* lastData is the whole reply so far, and the text a decision hands out   *)
(* is the whole reply up to it (Update, contentrestorator.cpp:98-135).     *)
(***************************************************************************)
NothingLost ==
  /\ lastDetected # CEnd /\ Words # {} => lastData = received
  /\ result.kind \in {"PassToUser", "Detected"} => result.text = received

(***************************************************************************)
(* TPassToUser is never premature: when Update gives up on a reply, no     *)
(* continuation of it, however chunked, could still be a keyword with      *)
(* blanks around its end.                                                  *)
(***************************************************************************)
CouldBecome(w, text) ==
  \/ IsPrefix(text, w)
  \/ IsPrefix(w, text) /\ Commands!Solid(text) \subseteq 1 .. Len(w)

PassToUserIsFinal ==
  result.kind = "PassToUser" => \A w \in Words : ~ CouldBecome(w, result.text)

(***************************************************************************)
(* A detection is genuine: the reply handed over with TDetected begins     *)
(* with the very keyword that TDetected names, over chunk boundaries and   *)
(* over Resets.                                                            *)
(***************************************************************************)
DetectionIsGenuine ==
  /\ lastDetected \in Words => IsPrefix(lastDetected, lastData)
  /\ result.kind = "Detected" => IsPrefix(result.word, result.text)

(***************************************************************************)
(* Text is only held back while it has to be: TNeedMoreData without a      *)
(* recognized keyword means the text is shorter than some keyword, the     *)
(* bound kMaxToFindLen of TestWithNotMatchingSmallChunk.                   *)
(***************************************************************************)
HeldBackIsShort ==
  result.kind = "NeedMoreData" /\ lastDetected = NullOpt
    => \E w \in Words : Len(result.text) < Len(w)

(***************************************************************************)
(* The sequence of results keeps to ReplyVerdict: one decision about a     *)
(* reply, with all of it, and nothing handed out before or after that      *)
(* until Reset (cpp:51-55, 98-101, 111-126).                               *)
(***************************************************************************)
Verdict == INSTANCE ReplyVerdict WITH
  collected <- lastData,
  taken <- lastDetected = CEnd,
  handed <- IF result.kind \in {"PassToUser", "Detected"} THEN <<result.text>>
            ELSE <<>>

VerdictKept == Verdict!Spec

(***************************************************************************)
(* contentrestorator.hpp:16-17 promises of a recognized beginning that the *)
(* object "keeps consuming input and returns whole full message". The code *)
(* breaks off with TPassToUser when the text outgrows the keyword.         *)
(***************************************************************************)
RecognizedIsConsumed ==
  [][(lastDetected \in Words) => (result'.kind # "PassToUser")]_restoratorVars
=============================================================================
