----------------------- MODULE ContentRestoratorProofs ----------------------
(***************************************************************************)
(* Proofs about ContentRestorator, for every set of keywords that meets    *)
(* the assumptions, every set of characters and chunks, and every bound.   *)
(***************************************************************************)
EXTENDS ContentRestorator, TextLemmas

-----------------------------------------------------------------------------
(* Trim.                                                                   *)

\* A text that is a keyword followed by blanks at most trims to the keyword.
LEMMA TrimToKeyword ==
  ASSUME NEW w \in Words, NEW t \in Text, IsPrefix(w, t),
         Commands!Solid(t) \subseteq 1 .. Len(w)
  PROVE  Commands!IsRequestToFulfill(w, t)
<1>1. w \in Text /\ w # <<>> /\ w[1] \notin Blanks /\ w[Len(w)] \notin Blanks
  BY RestoratorAssumption, KeywordAssumption
<1>2. Len(w) \in Nat \ {0} /\ Len(t) \in Nat
  BY <1>1, EmptySeq, LenProperties DEF Text
<1>3. Len(w) <= Len(t) /\ \A i \in 1 .. Len(w) : w[i] = t[i]
  BY <1>1, PrefixByIndex DEF Text
<1>4. 1 \in Commands!Solid(t) /\ Len(w) \in Commands!Solid(t)
  BY <1>1, <1>2, <1>3 DEF Commands!Solid
<1>5. \A i \in Commands!Solid(t) : i \in Int /\ 1 <= i /\ i <= Len(w)
  BY <1>2
<1>6. Commands!Min(Commands!Solid(t)) = 1
  <2>1. \A y \in Commands!Solid(t) : 1 =< y
    BY <1>5
  <2>2. \A x \in Commands!Solid(t) :
          (\A y \in Commands!Solid(t) : x =< y) => x = 1
    BY <1>4, <1>5
  <2> QED BY <1>4, <2>1, <2>2 DEF Commands!Min
<1>7. Commands!Max(Commands!Solid(t)) = Len(w)
  <2>1. \A y \in Commands!Solid(t) : Len(w) >= y
    BY <1>2, <1>5
  <2>2. \A x \in Commands!Solid(t) :
          (\A y \in Commands!Solid(t) : x >= y) => x = Len(w)
    BY <1>2, <1>4, <1>5
  <2> QED BY <1>4, <2>1, <2>2 DEF Commands!Max
<1>8. SubSeq(t, 1, Len(w)) = w
  BY <1>1, SubSeqFull DEF IsPrefix, Text
<1> QED BY <1>4, <1>6, <1>7, <1>8 DEF Commands!IsRequestToFulfill, Commands!Trim

-----------------------------------------------------------------------------
(* Types.                                                                  *)

LEMMA ChunkTyped ==
  ASSUME NEW chunk \in Response
  PROVE  /\ chunk.content \in Text
         /\ chunk.done \in {"true", "false", "absent"}
         /\ Status(chunk) \in {"OllamaHasMore", "OllamaSentAll"}
BY RestoratorAssumption DEF Response, Status

LEMMA CollectedTyped ==
  ASSUME TypeOK, NEW chunk \in Response
  PROVE  /\ Collected(chunk) \in Text
         /\ received \o chunk.content \in Text
BY ChunkTyped, ConcatProperties DEF TypeOK, Text, Collected

\* Update keeps every variable within its type.
LEMMA UpdateTyped ==
  ASSUME TypeOK, NEW chunk \in Response, Update(chunk)
  PROVE  TypeOK'
<1> USE ChunkTyped, CollectedTyped
<1>e. <<>> \in Text
  BY EmptySeq DEF Text
<1>1. CASE NoDone(chunk)
  BY <1>1, <1>e DEF TypeOK, Result, NoDone, Return
<1>2. CASE AlreadyDecided(chunk)
  BY <1>2, <1>e DEF TypeOK, Result, AlreadyDecided, Return
<1>3. CASE FullyReceived(chunk)
  BY <1>3, <1>e
  DEF TypeOK, Result, FullyReceived, Receiving, AllReceivedResult, Return
<1>4. CASE PartlyReceived(chunk)
  BY <1>4, <1>e
  DEF TypeOK, Result, PartlyReceived, Receiving, NeedMoreData,
      FinalizePassToUser, Return
<1>5. CASE Recognize(chunk)
  <2>1. PICK w \in Words :
          \/ NeedMoreData(chunk, w)
          \/ AllReceivedResult(chunk, w)
    BY <1>5 DEF Recognize, Matching, Fitting
  <2> QED BY <1>5, <1>e, <2>1
          DEF TypeOK, Result, Recognize, Receiving, NeedMoreData,
              AllReceivedResult, Return
<1>6. CASE StillTooShort(chunk)
  BY <1>6, <1>e
  DEF TypeOK, Result, StillTooShort, Receiving, NeedMoreData, Return
<1>7. CASE NothingFound(chunk)
  BY <1>7, <1>e
  DEF TypeOK, Result, NothingFound, Receiving, FinalizePassToUser, Return
<1> QED BY <1>1, <1>2, <1>3, <1>4, <1>5, <1>6, <1>7 DEF Update

LEMMA ResetTyped == Reset => TypeOK'
BY EmptySeq DEF Reset, NoResult, TypeOK, Result, Text

LEMMA InitTyped == Init => TypeOK
BY EmptySeq DEF Init, NoResult, TypeOK, Result, Text

(***************************************************************************)
(* Every variable keeps to its type (CContentRestorator's fields and the   *)
(* value of Update), whatever chunks come and whenever Reset is called.    *)
(***************************************************************************)
THEOREM TypeCorrect == Spec => []TypeOK
<1>1. TypeOK /\ [Next]_restoratorVars => TypeOK'
  <2> SUFFICES ASSUME TypeOK, [Next]_restoratorVars PROVE TypeOK'
    OBVIOUS
  <2>1. ASSUME NEW chunk \in Response, Update(chunk) PROVE TypeOK'
    BY <2>1, UpdateTyped
  <2>2. CASE UNCHANGED restoratorVars
    BY <2>2 DEF restoratorVars, TypeOK
  <2> QED BY <2>1, <2>2, ResetTyped DEF Next
<1> QED BY <1>1, InitTyped, PTL DEF Spec

-----------------------------------------------------------------------------
(* No text is lost.                                                        *)

\* Update hands out the whole reply, or keeps it.
LEMMA UpdateLosesNothing ==
  ASSUME NothingLost, NEW chunk \in Response, Update(chunk)
  PROVE  NothingLost'
<1>1. CASE NoDone(chunk)
  BY <1>1 DEF NothingLost, NoDone, Return
<1>2. CASE AlreadyDecided(chunk)
  BY <1>2 DEF NothingLost, AlreadyDecided, Return
<1>3. CASE Receiving(chunk) /\
           (FullyReceived(chunk) \/ PartlyReceived(chunk) \/ Recognize(chunk)
            \/ StillTooShort(chunk) \/ NothingFound(chunk))
  <2>1. Collected(chunk) = received'
    BY <1>3 DEF NothingLost, Receiving, Collected
  <2>2. \/ \E word : AllReceivedResult(chunk, word)
        \/ FinalizePassToUser(chunk)
        \/ \E detected : NeedMoreData(chunk, detected)
        \/ lastData' = Collected(chunk) /\ result'.kind = "Threw"
    BY <1>3 DEF FullyReceived, PartlyReceived, Recognize, StillTooShort,
                NothingFound, Return
  <2> QED BY <2>1, <2>2
          DEF NothingLost, AllReceivedResult, FinalizePassToUser,
              NeedMoreData, Return
<1> QED BY <1>1, <1>2, <1>3
        DEF Update, FullyReceived, PartlyReceived, Recognize, StillTooShort,
            NothingFound

(***************************************************************************)
(* The text a decision carries is the reply up to it, however the reply    *)
(* was cut into chunks (contentrestorator.cpp:98-135).                     *)
(***************************************************************************)
THEOREM LosesNothing == Spec => []NothingLost
<1>1. Init => NothingLost
  BY DEF Init, NoResult, NothingLost
<1>2. NothingLost /\ [Next]_restoratorVars => NothingLost'
  <2> SUFFICES ASSUME NothingLost, [Next]_restoratorVars PROVE NothingLost'
    OBVIOUS
  <2>1. ASSUME NEW chunk \in Response, Update(chunk) PROVE NothingLost'
    BY <2>1, UpdateLosesNothing
  <2>2. CASE Reset
    BY <2>2 DEF Reset, NoResult, NothingLost
  <2>3. CASE UNCHANGED restoratorVars
    BY <2>3 DEF restoratorVars, NothingLost
  <2> QED BY <2>1, <2>2, <2>3 DEF Next
<1> QED BY <1>1, <1>2, PTL DEF Spec

-----------------------------------------------------------------------------
(* Detections are genuine and final.                                       *)

\* A recognized keyword stays a prefix when a chunk is added.
LEMMA RecognizedStays ==
  ASSUME TypeOK, DetectionIsGenuine, NEW chunk \in Response,
         lastDetected \in Words
  PROVE  IsPrefix(lastDetected, Collected(chunk))
<1>1. lastDetected \in Text /\ lastData \in Text /\ chunk.content \in Text
  BY RestoratorAssumption, ChunkTyped DEF TypeOK
<1> QED BY <1>1, PrefixOfLonger DEF DetectionIsGenuine, Collected, Text

LEMMA UpdateDetectsGenuinely ==
  ASSUME TypeOK, DetectionIsGenuine, NEW chunk \in Response, Update(chunk)
  PROVE  DetectionIsGenuine'
<1>n. NullOpt \notin Words /\ CEnd \notin Words
  BY RestoratorAssumption
<1>1. CASE NoDone(chunk)
  BY <1>1 DEF DetectionIsGenuine, NoDone, Return
<1>2. CASE AlreadyDecided(chunk)
  BY <1>2 DEF DetectionIsGenuine, AlreadyDecided, Return
<1>3. CASE FullyReceived(chunk)
  <2>1. lastDetected \in Words
    BY <1>3 DEF FullyReceived, Receiving, TypeOK
  <2> QED BY <1>3, <1>n, <2>1, RecognizedStays
          DEF DetectionIsGenuine, FullyReceived, AllReceivedResult, Return
<1>4. CASE PartlyReceived(chunk)
  <2>1. lastDetected \in Words
    BY <1>4 DEF PartlyReceived, Receiving, TypeOK
  <2> QED BY <1>4, <1>n, <2>1, RecognizedStays
          DEF DetectionIsGenuine, PartlyReceived, NeedMoreData,
              FinalizePassToUser, Return
<1>5. CASE Recognize(chunk)
  <2>1. PICK w \in Words :
          /\ IsPrefix(w, Collected(chunk))
          /\ NeedMoreData(chunk, w) \/ AllReceivedResult(chunk, w)
    BY <1>5 DEF Recognize, Matching, Fitting
  <2> QED BY <1>n, <2>1
          DEF DetectionIsGenuine, NeedMoreData, AllReceivedResult, Return
<1>6. CASE StillTooShort(chunk)
  BY <1>6, <1>n DEF DetectionIsGenuine, StillTooShort, NeedMoreData, Return
<1>7. CASE NothingFound(chunk)
  BY <1>7, <1>n
  DEF DetectionIsGenuine, NothingFound, FinalizePassToUser, Return
<1> QED BY <1>1, <1>2, <1>3, <1>4, <1>5, <1>6, <1>7 DEF Update

(***************************************************************************)
(* A reply handed over as a command begins with the keyword it is handed   *)
(* over for, over chunk boundaries and Resets (cpp:74-87, 158-170).        *)
(***************************************************************************)
THEOREM DetectsGenuinely == Spec => []DetectionIsGenuine
<1>1. Init => DetectionIsGenuine
  BY RestoratorAssumption DEF Init, NoResult, DetectionIsGenuine
<1>2. TypeOK /\ DetectionIsGenuine /\ [Next]_restoratorVars
        => DetectionIsGenuine'
  <2> SUFFICES ASSUME TypeOK, DetectionIsGenuine, [Next]_restoratorVars
               PROVE  DetectionIsGenuine'
    OBVIOUS
  <2>1. ASSUME NEW chunk \in Response, Update(chunk) PROVE DetectionIsGenuine'
    BY <2>1, UpdateDetectsGenuinely
  <2>2. CASE Reset
    BY <2>2, RestoratorAssumption DEF Reset, NoResult, DetectionIsGenuine
  <2>3. CASE UNCHANGED restoratorVars
    BY <2>3 DEF restoratorVars, DetectionIsGenuine
  <2> QED BY <2>1, <2>2, <2>3 DEF Next
<1> QED BY <1>1, <1>2, TypeCorrect, PTL DEF Spec

\* No keyword is a prefix of a text long enough for all: it becomes none.
LEMMA NothingFoundIsFinal ==
  ASSUME NEW t \in Text, Fitting(t) = Words, Matching(t) = {}, NEW w \in Words
  PROVE  ~ CouldBecome(w, t)
<1>1. w \in Text /\ Len(w) \in Nat /\ Len(t) \in Nat
  BY RestoratorAssumption, LenProperties DEF Text
<1>2. Len(w) <= Len(t) /\ ~ IsPrefix(w, t)
  BY DEF Fitting, Matching
<1>3. ~ IsPrefix(t, w)
  <2> SUFFICES ASSUME IsPrefix(t, w) PROVE FALSE
    OBVIOUS
  <2>1. Len(t) <= Len(w) /\ \A i \in 1 .. Len(t) : t[i] = w[i]
    BY <1>1, PrefixByIndex DEF Text
  <2>2. \A i \in 1 .. Len(w) : w[i] = t[i]
    BY <1>1, <1>2, <2>1
  <2> QED BY <1>1, <1>2, <2>2, PrefixByIndex DEF Text
<1> QED BY <1>2, <1>3 DEF CouldBecome

\* A text that outgrew its keyword becomes no other: no keyword hides another.
LEMMA OutgrownIsFinal ==
  ASSUME NEW v \in Words, NEW t \in Text, IsPrefix(v, t),
         ~ Commands!IsRequestToFulfill(v, t), NEW w \in Words
  PROVE  ~ CouldBecome(w, t)
<1> SUFFICES ASSUME CouldBecome(w, t) PROVE FALSE
  OBVIOUS
<1>t. v \in Text /\ w \in Text
  BY RestoratorAssumption
<1>1. CASE IsPrefix(t, w)
  <2>1. IsPrefix(v, w)
    BY <1>1, <1>t, PrefixTransitive DEF Text
  <2>2. v = w
    BY <2>1, KeywordAssumption
  <2>3. v = t
    BY <1>1, <1>t, <2>2, MutualPrefixes DEF Text
  <2>4. Commands!Solid(t) \subseteq 1 .. Len(v)
    BY <2>3 DEF Commands!Solid
  <2> QED BY <2>4, TrimToKeyword
<1>2. CASE IsPrefix(w, t) /\ Commands!Solid(t) \subseteq 1 .. Len(w)
  <2>1. v = w
    BY <1>2, <1>t, PrefixesAgree, KeywordAssumption DEF Text
  <2> QED BY <1>2, <2>1, TrimToKeyword
<1> QED BY <1>1, <1>2 DEF CouldBecome

LEMMA UpdatePassesFinally ==
  ASSUME TypeOK, DetectionIsGenuine, PassToUserIsFinal,
         NEW chunk \in Response, Update(chunk)
  PROVE  PassToUserIsFinal'
<1>1. CASE PartlyReceived(chunk) /\ FinalizePassToUser(chunk)
  <2>1. lastDetected \in Words
    BY <1>1 DEF PartlyReceived, Receiving, TypeOK
  <2>2. ~ Commands!IsRequestToFulfill(lastDetected, Collected(chunk))
    BY <1>1 DEF PartlyReceived, NeedMoreData, FinalizePassToUser, Return
  <2>3. \A w \in Words : ~ CouldBecome(w, Collected(chunk))
    BY <2>1, <2>2, CollectedTyped, RecognizedStays, OutgrownIsFinal
  <2> QED BY <1>1, <2>3 DEF PassToUserIsFinal, FinalizePassToUser, Return,
                            CouldBecome
<1>2. CASE NothingFound(chunk)
  <2>1. \A w \in Words : ~ CouldBecome(w, Collected(chunk))
    BY <1>2, CollectedTyped, NothingFoundIsFinal DEF NothingFound
  <2> QED BY <1>2, <2>1 DEF PassToUserIsFinal, NothingFound,
                            FinalizePassToUser, Return, CouldBecome
<1>3. CASE ~ (PartlyReceived(chunk) /\ FinalizePassToUser(chunk))
           /\ ~ NothingFound(chunk)
  <2>1. result'.kind # "PassToUser"
    BY <1>3 DEF Update, NoDone, AlreadyDecided, FullyReceived, PartlyReceived,
                Recognize, StillTooShort, AllReceivedResult, NeedMoreData, Return
  <2> QED BY <2>1 DEF PassToUserIsFinal
<1> QED BY <1>1, <1>2, <1>3

(***************************************************************************)
(* Update gives a reply up to the user only when no continuation of it     *)
(* could be a command any more: here the assumption about keywords counts, *)
(* that none is a prefix of another (cpp:128-140, 157-180).                *)
(***************************************************************************)
THEOREM PassesFinally == Spec => []PassToUserIsFinal
<1>1. Init => PassToUserIsFinal
  BY DEF Init, NoResult, PassToUserIsFinal
<1>2. TypeOK /\ DetectionIsGenuine /\ PassToUserIsFinal /\ [Next]_restoratorVars
        => PassToUserIsFinal'
  <2> SUFFICES ASSUME TypeOK, DetectionIsGenuine, PassToUserIsFinal,
                      [Next]_restoratorVars
               PROVE  PassToUserIsFinal'
    OBVIOUS
  <2>1. ASSUME NEW chunk \in Response, Update(chunk) PROVE PassToUserIsFinal'
    BY <2>1, UpdatePassesFinally
  <2>2. CASE Reset
    BY <2>2 DEF Reset, NoResult, PassToUserIsFinal
  <2>3. CASE UNCHANGED restoratorVars
    BY <2>3 DEF restoratorVars, PassToUserIsFinal, CouldBecome
  <2> QED BY <2>1, <2>2, <2>3 DEF Next
<1> QED BY <1>1, <1>2, TypeCorrect, DetectsGenuinely, PTL DEF Spec

-----------------------------------------------------------------------------
(* Text is held back no longer than needed.                                *)

LEMMA UpdateHoldsShortTexts ==
  ASSUME TypeOK, HeldBackIsShort, NEW chunk \in Response, Update(chunk)
  PROVE  HeldBackIsShort'
<1>n. NullOpt \notin Words
  BY RestoratorAssumption
<1>1. CASE StillTooShort(chunk)
  <2>1. PICK w \in Words : ~ (Len(w) <= Len(Collected(chunk)))
    BY <1>1 DEF StillTooShort, Fitting
  <2>2. w \in Text /\ Len(w) \in Nat /\ Len(Collected(chunk)) \in Nat
    BY RestoratorAssumption, CollectedTyped, LenProperties DEF Text
  <2>3. Len(Collected(chunk)) < Len(w)
    BY <2>1, <2>2
  <2> QED BY <1>1, <2>3
          DEF HeldBackIsShort, StillTooShort, NeedMoreData, Return
<1>2. CASE ~ StillTooShort(chunk)
  <2>1. result'.kind = "NeedMoreData" => lastDetected' # NullOpt
    BY <1>2, <1>n
    DEF Update, NoDone, AlreadyDecided, FullyReceived, PartlyReceived,
        Recognize, NothingFound, AllReceivedResult, FinalizePassToUser,
        NeedMoreData, Return, Matching, Fitting
  <2> QED BY <2>1 DEF HeldBackIsShort
<1> QED BY <1>1, <1>2

(***************************************************************************)
(* Without a recognized keyword only a text shorter than some keyword is   *)
(* held back from the user (cpp:145-155, 173-177).                         *)
(***************************************************************************)
THEOREM HoldsShortTexts == Spec => []HeldBackIsShort
<1>1. Init => HeldBackIsShort
  BY DEF Init, NoResult, HeldBackIsShort
<1>2. TypeOK /\ HeldBackIsShort /\ [Next]_restoratorVars => HeldBackIsShort'
  <2> SUFFICES ASSUME TypeOK, HeldBackIsShort, [Next]_restoratorVars
               PROVE  HeldBackIsShort'
    OBVIOUS
  <2>1. ASSUME NEW chunk \in Response, Update(chunk) PROVE HeldBackIsShort'
    BY <2>1, UpdateHoldsShortTexts
  <2>2. CASE Reset
    BY <2>2 DEF Reset, NoResult, HeldBackIsShort
  <2>3. CASE UNCHANGED restoratorVars
    BY <2>3 DEF restoratorVars, HeldBackIsShort
  <2> QED BY <2>1, <2>2, <2>3 DEF Next
<1> QED BY <1>1, <1>2, TypeCorrect, PTL DEF Spec

-----------------------------------------------------------------------------
(* The restorator implements ReplyVerdict.                                 *)

\* Every way through Update is a step of the abstract specification.
LEMMA UpdateIsVerdict ==
  ASSUME NEW chunk \in Response, Update(chunk)
  PROVE  Verdict!Next
<1>p. chunk.content \in Pieces
  BY DEF Response
<1>n. NullOpt # CEnd /\ CEnd \notin Words
  BY RestoratorAssumption
<1> DEFINE Shown == result'.kind \in {"PassToUser", "Detected"}
<1>h. ASSUME lastDetected # CEnd, lastDetected' # CEnd, ~ Shown,
             lastData' = Collected(chunk)
      PROVE  Verdict!Next
  <2>1. Verdict!Hold(chunk.content)
    BY <1>h DEF Verdict!Hold, Collected
  <2> QED BY <1>p, <2>1 DEF Verdict!Next
<1>d. ASSUME lastDetected # CEnd, lastDetected' = CEnd, Shown,
             lastData' = <<>>, result'.text = Collected(chunk)
      PROVE  Verdict!Next
  <2>1. Verdict!Decide(chunk.content)
    BY <1>d DEF Verdict!Decide, Collected
  <2> QED BY <1>p, <2>1 DEF Verdict!Next
<1>i. ASSUME lastDetected' = lastDetected, lastData' = lastData, ~ Shown
      PROVE  Verdict!Next
  <2>1. Verdict!Ignore
    BY <1>i DEF Verdict!Ignore
  <2> QED BY <2>1 DEF Verdict!Next
<1>1. CASE NoDone(chunk)
  BY <1>1, <1>i DEF NoDone, Return
<1>2. CASE AlreadyDecided(chunk)
  BY <1>2, <1>i DEF AlreadyDecided, Return
<1>3. CASE FullyReceived(chunk)
  BY <1>3, <1>d DEF FullyReceived, Receiving, AllReceivedResult, Return
<1>4. CASE PartlyReceived(chunk)
  <2>1. CASE lastDetected' = CEnd
    BY <1>4, <2>1, <1>d
    DEF PartlyReceived, Receiving, NeedMoreData, FinalizePassToUser, Return
  <2>2. CASE lastDetected' # CEnd
    BY <1>4, <2>2, <1>h
    DEF PartlyReceived, Receiving, NeedMoreData, FinalizePassToUser, Return
  <2> QED BY <2>1, <2>2
<1>5. CASE Recognize(chunk)
  <2>1. PICK w \in Words :
          \/ NeedMoreData(chunk, w)
          \/ AllReceivedResult(chunk, w)
    BY <1>5 DEF Recognize, Matching, Fitting
  <2>2. lastDetected # CEnd
    BY <1>5 DEF Recognize, Receiving
  <2>3. CASE NeedMoreData(chunk, w)
    BY <1>n, <2>2, <2>3, <1>h DEF NeedMoreData, Return
  <2>4. CASE AllReceivedResult(chunk, w)
    BY <2>2, <2>4, <1>d DEF AllReceivedResult, Return
  <2> QED BY <2>1, <2>3, <2>4
<1>6. CASE StillTooShort(chunk)
  BY <1>6, <1>n, <1>h DEF StillTooShort, Receiving, NeedMoreData, Return
<1>7. CASE NothingFound(chunk)
  BY <1>7, <1>d DEF NothingFound, Receiving, FinalizePassToUser, Return
<1> QED BY <1>1, <1>2, <1>3, <1>4, <1>5, <1>6, <1>7 DEF Update

(***************************************************************************)
(* For any keywords and chunks the restorator takes one decision about a   *)
(* reply, hands out all of it then, and nothing before or after: it        *)
(* implements ReplyVerdict (contentrestorator.cpp:51-55, 89-181).          *)
(***************************************************************************)
THEOREM KeepsVerdict == Spec => VerdictKept
<1>1. Init => Verdict!Init
  BY RestoratorAssumption DEF Init, NoResult, Verdict!Init
<1>2. [Next]_restoratorVars => [Verdict!Next]_(Verdict!vars)
  <2> SUFFICES ASSUME [Next]_restoratorVars
               PROVE  [Verdict!Next]_(Verdict!vars)
    OBVIOUS
  <2>1. ASSUME NEW chunk \in Response, Update(chunk)
        PROVE  Verdict!Next
    BY <2>1, UpdateIsVerdict
  <2>2. CASE Reset
    <3>1. Verdict!Restart
      BY <2>2, RestoratorAssumption DEF Reset, NoResult, Verdict!Restart
    <3> QED BY <3>1 DEF Verdict!Next
  <2>3. CASE UNCHANGED restoratorVars
    BY <2>3 DEF restoratorVars, Verdict!vars
  <2> QED BY <2>1, <2>2, <2>3 DEF Next
<1> QED BY <1>1, <1>2, PTL DEF Spec, VerdictKept, Verdict!Spec
=============================================================================
