----------------------- MODULE ChatConstructionProofs -----------------------
(***************************************************************************)
(* Proofs about ChatConstruction, for any roles and conversations of any   *)
(* length: where the list of keywords is inserted, and that it is whenever *)
(* there is a place for it.                                                *)
(***************************************************************************)
EXTENDS ChatConstruction, TextLemmas

(***************************************************************************)
(* Between a system message and a later one of another role a run of       *)
(* system messages ends, and adjacent_find sees it: the first message of   *)
(* another role behind the former has a system message right before it.    *)
(***************************************************************************)
LEMMA RunEnds ==
  ASSUME NEW m \in Seq(Roles), NEW i \in 1 .. Len(m), NEW j \in 1 .. Len(m),
         i < j, m[i] = System, m[j] # System
  PROVE  \E b \in Boundaries(m) : i <= b /\ b < j
<1>l. Len(m) \in Nat
  BY LenProperties
<1> DEFINE Others == {n \in i .. j : m[n] # System}
<1>1. j \in Others /\ Others \in SUBSET Nat
  OBVIOUS
<1>2. PICK n \in Others : \A k \in Others : n <= k
  BY <1>1, SmallestExists
<1>3. n \in Int /\ i <= n /\ n <= j /\ n # i /\ m[n] # System
  BY <1>2
<1> DEFINE b == n - 1
<1>4. /\ b \in i .. j /\ b \in 1 .. Len(m) - 1 /\ b + 1 = n
      /\ i <= b /\ b < j /\ ~ (n <= b)
  BY <1>l, <1>3
<1>5. m[b] = System
  BY <1>2, <1>4
<1>6. b \in Boundaries(m)
  BY <1>3, <1>4, <1>5 DEF Boundaries
<1> QED BY <1>4, <1>6

LEMMA FirstBoundary ==
  ASSUME NEW m \in Seq(Roles), Boundaries(m) # {}
  PROVE  /\ Min(Boundaries(m)) \in Boundaries(m)
         /\ \A b \in Boundaries(m) : Min(Boundaries(m)) <= b
<1>1. Boundaries(m) \in SUBSET Nat
  BY DEF Boundaries
<1>2. \E x \in Boundaries(m) : \A y \in Boundaries(m) : x <= y
  BY <1>1, SmallestExists
<1> QED BY <1>2 DEF Min

\* The place lies behind the first boundary, or behind the end if there is none,
\* and is not looked for beyond a message without a role.
LEMMA WhereItGoes ==
  ASSUME NEW m \in Seq(Roles)
  PROVE  MakeCommandsAvailForAi(m) =
           IF ReadsMissingRole(m) \/ Boundaries(m) = {} THEN Undefined
           ELSE Accepted(InsertAt(m, Min(Boundaries(m)) + 1, Prompt))
<1>l. Len(m) \in Nat
  BY LenProperties
<1>0. CASE ReadsMissingRole(m)
  BY <1>0 DEF MakeCommandsAvailForAi
<1>1. CASE Boundaries(m) = {}
  <2>1. Place(m) = Len(m) + 2 /\ Place(m) > End(m)
    BY <1>l, <1>1 DEF Place, AdjacentFind, End
  <2> QED BY <1>1, <2>1 DEF MakeCommandsAvailForAi
<1>2. CASE Boundaries(m) # {} /\ ~ ReadsMissingRole(m)
  <2> DEFINE b == Min(Boundaries(m))
  <2>1. b \in 1 .. Len(m) - 1
    BY <1>2, FirstBoundary DEF Boundaries
  <2>2. AdjacentFind(m) = b
    BY <1>2 DEF AdjacentFind
  <2> HIDE DEF b
  <2>3. Place(m) = b + 1 /\ ~ (Place(m) > End(m))
    BY <1>l, <2>1, <2>2 DEF Place, End
  <2> QED BY <1>2, <2>3 DEF MakeCommandsAvailForAi, b
<1> QED BY <1>0, <1>1, <1>2

\* What InsertAt returns, element by element, and that RemoveAt undoes it.
LEMMA Inserted ==
  ASSUME NEW S, NEW s \in Seq(S), NEW n \in 1 .. Len(s), NEW e \in S
  PROVE  /\ Len(InsertAt(s, n, e)) = Len(s) + 1
         /\ \A i \in 1 .. n - 1 : InsertAt(s, n, e)[i] = s[i]
         /\ InsertAt(s, n, e)[n] = e
         /\ \A i \in n .. Len(s) : InsertAt(s, n, e)[i + 1] = s[i]
         /\ RemoveAt(InsertAt(s, n, e), n) = s
<1> DEFINE front == SubSeq(s, 1, n - 1)
           back  == SubSeq(s, n, Len(s))
           first == front \o <<e>>
           t     == first \o back
<1>l. Len(s) \in Nat /\ n \in Int /\ 1 <= n /\ n <= Len(s)
  BY LenProperties
<1>1. /\ front \in Seq(S) /\ Len(front) = n - 1
      /\ \A i \in 1 .. n - 1 : front[i] = s[i]
  <2>1. \A i \in 1 .. n - 1 : i \in 1 .. Len(s)
    BY <1>l
  <2>2. \A i \in 1 .. n - 1 : s[i] \in S
    BY <2>1, ElementOfSeq
  <2>3. n - 1 \in Int /\ (IF 1 <= n - 1 THEN n - 1 - 1 + 1 ELSE 0) = n - 1
        /\ n - 1 - 1 + 1 = n - 1 /\ \A i \in 1 .. n - 1 : 1 + i - 1 = i
    BY <1>l
  <2> QED BY <2>2, <2>3, SubSeqProperties
<1>2. /\ back \in Seq(S) /\ Len(back) = Len(s) - n + 1
      /\ \A i \in 1 .. Len(s) - n + 1 : back[i] = s[n + i - 1]
  <2>1. \A i \in n .. Len(s) : s[i] \in S
    BY <1>l, ElementOfSeq
  <2> QED BY <1>l, <2>1, SubSeqProperties
<1> HIDE DEF front, back
<1>3. /\ first \in Seq(S) /\ Len(first) = n
      /\ (\A i \in 1 .. n - 1 : first[i] = s[i]) /\ first[n] = e
  <2>1. <<e>> \in Seq(S) /\ Len(<<e>>) = 1 /\ <<e>>[1] = e
    OBVIOUS
  <2> QED BY <1>l, <1>1, <2>1, ConcatProperties
<1> HIDE DEF first
<1>4. /\ t \in Seq(S) /\ Len(t) = Len(s) + 1
      /\ \A i \in 1 .. n : t[i] = first[i]
      /\ \A i \in 1 .. Len(s) - n + 1 : t[n + i] = back[i]
  <2>1. /\ t \in Seq(S) /\ Len(t) = n + Len(back)
        /\ \A i \in 1 .. n + Len(back) : t[i] = IF i <= n THEN first[i] ELSE back[i - n]
    BY <1>2, <1>3, ConcatProperties
  <2> HIDE DEF t
  <2>2. Len(t) = Len(s) + 1
    BY <1>l, <1>2, <2>1
  <2>3. ASSUME NEW i \in 1 .. n
        PROVE  t[i] = first[i]
    <3>1. i \in 1 .. n + Len(back) /\ i <= n
      BY <1>l, <1>2
    <3> QED BY <2>1, <3>1
  <2>4. ASSUME NEW i \in 1 .. Len(s) - n + 1
        PROVE  t[n + i] = back[i]
    <3>1. n + i \in 1 .. n + Len(back) /\ ~ (n + i <= n) /\ (n + i) - n = i
      BY <1>l, <1>2
    <3> QED BY <2>1, <3>1
  <2> QED BY <2>1, <2>2, <2>3, <2>4
<1> HIDE DEF t
<1>5. /\ \A i \in 1 .. n - 1 : t[i] = s[i]
      /\ t[n] = e
      /\ \A i \in n .. Len(s) : t[i + 1] = s[i]
  <2>1. ASSUME NEW i \in n .. Len(s)
        PROVE  t[i + 1] = s[i]
    <3>1. i - n + 1 \in 1 .. Len(s) - n + 1 /\ n + (i - n + 1) = i + 1
          /\ n + (i - n + 1) - 1 = i
      BY <1>l
    <3>2. t[n + (i - n + 1)] = back[i - n + 1]
      BY <1>4, <3>1
    <3>3. back[i - n + 1] = s[n + (i - n + 1) - 1]
      BY <1>2, <3>1
    <3> QED BY <3>1, <3>2, <3>3
  <2> QED BY <1>l, <1>3, <1>4, <2>1
<1>6. InsertAt(s, n, e) = t
  BY DEF InsertAt, t, first, front, back
<1>7. RemoveAt(t, n) = s
  <2> DEFINE u == SubSeq(t, 1, n - 1)
             v == SubSeq(t, n + 1, Len(t))
  <2>1. \A i \in 1 .. Len(t) : t[i] \in S
    BY <1>4, ElementOfSeq
  <2>2. /\ u \in Seq(S) /\ Len(u) = n - 1
        /\ \A i \in 1 .. n - 1 : u[i] = t[i]
    <3>1. \A i \in 1 .. n - 1 : t[i] \in S
      BY <1>l, <1>4, <2>1
    <3>2. n - 1 \in Int /\ (IF 1 <= n - 1 THEN n - 1 - 1 + 1 ELSE 0) = n - 1
          /\ n - 1 - 1 + 1 = n - 1 /\ \A i \in 1 .. n - 1 : 1 + i - 1 = i
      BY <1>l
    <3> QED BY <3>1, <3>2, SubSeqProperties
  <2>3. /\ v \in Seq(S) /\ Len(v) = Len(s) - n + 1
        /\ \A i \in 1 .. Len(s) - n + 1 : v[i] = t[n + i]
    <3>1. \A i \in n + 1 .. Len(t) : t[i] \in S
      BY <1>l, <1>4, <2>1
    <3>2. /\ n + 1 \in Int /\ Len(t) \in Int /\ n + 1 <= Len(t)
          /\ Len(t) - (n + 1) + 1 = Len(s) - n + 1
          /\ \A i \in 1 .. Len(s) - n + 1 : n + 1 + i - 1 = n + i
      BY <1>l, <1>4
    <3> QED BY <3>1, <3>2, SubSeqProperties
  <2>4. RemoveAt(t, n) = u \o v
    BY DEF RemoveAt
  <2> HIDE DEF u, v
  <2>5. /\ u \o v \in Seq(S) /\ Len(u \o v) = Len(s)
        /\ \A i \in 1 .. Len(s) : (u \o v)[i] = IF i <= n - 1 THEN u[i] ELSE v[i - (n - 1)]
    BY <1>l, <2>2, <2>3, ConcatProperties
  <2>6. ASSUME NEW i \in 1 .. Len(s)
        PROVE  (u \o v)[i] = s[i]
    <3>1. CASE i <= n - 1
      BY <1>l, <1>5, <2>2, <2>5, <3>1
    <3>2. CASE ~ (i <= n - 1)
      <4>1. i - (n - 1) \in 1 .. Len(s) - n + 1 /\ n + (i - (n - 1)) = i + 1
            /\ i \in n .. Len(s)
        BY <1>l, <3>2
      <4>2. v[i - (n - 1)] = t[i + 1]
        BY <2>3, <4>1
      <4> QED BY <1>5, <2>5, <3>2, <4>1, <4>2
    <3> QED BY <3>1, <3>2
  <2> QED BY <2>4, <2>5, <2>6, SeqEqual
<1> QED BY <1>4, <1>5, <1>6, <1>7

-----------------------------------------------------------------------------
(* What is true of the prompt when it is told.                             *)

Told(m, told) ==
  \E i \in 2 .. Len(told) - 1 :
    /\ told[i] = Prompt
    /\ RemoveAt(told, i) = m
    /\ told[i - 1] = System
    /\ told[i + 1] # System
    /\ \E k \in 1 .. i - 1 : \A j \in 1 .. i - 1 : told[j] = System <=> j >= k

LEMMA ToldWell ==
  ASSUME NEW m \in Seq(Roles), Boundaries(m) # {}
  PROVE  Told(m, InsertAt(m, Min(Boundaries(m)) + 1, Prompt))
<1> DEFINE b == Min(Boundaries(m))
           i == b + 1
           told == InsertAt(m, i, Prompt)
           S == Roles \cup {Prompt}
<1>l. Len(m) \in Nat
  BY LenProperties
<1>1. b \in Boundaries(m) /\ \A c \in Boundaries(m) : b <= c
  BY FirstBoundary
<1> HIDE DEF b
<1>2. b \in 1 .. Len(m) - 1 /\ m[b] = System /\ m[i] # System
  BY <1>1 DEF Boundaries
<1>3. /\ i \in 2 .. Len(m) /\ i - 1 = b /\ b \in Nat \ {0}
      /\ i \in i .. Len(m) /\ b \in 1 .. i - 1 /\ i \in 1 .. Len(m)
  BY <1>l, <1>2
<1> HIDE DEF i
<1>4. /\ Len(told) = Len(m) + 1
      /\ \A j \in 1 .. i - 1 : told[j] = m[j]
      /\ told[i] = Prompt /\ told[i + 1] = m[i] /\ RemoveAt(told, i) = m
  <2>1. m \in Seq(S) /\ Prompt \in S
    BY SeqMonotonic
  <2> HIDE DEF S
  <2> QED BY <1>3, <2>1, Inserted
<1> HIDE DEF told
<1>5. i \in 2 .. Len(told) - 1
  BY <1>l, <1>3, <1>4
<1>6. \E k \in 1 .. i - 1 : \A j \in 1 .. i - 1 : told[j] = System <=> j >= k
  <2> DEFINE Firsts == {j \in 1 .. b : m[j] = System}
  <2>1. Firsts \in SUBSET Nat /\ b \in Firsts
    BY <1>2, <1>3
  <2>2. PICK k \in Firsts : \A j \in Firsts : k <= j
    BY <2>1, SmallestExists
  <2>3. k \in 1 .. b /\ m[k] = System
    BY <2>2
  <2>4. ASSUME NEW j \in 1 .. b
        PROVE  m[j] = System <=> j >= k
    <3>1. ASSUME m[j] = System PROVE j >= k
      BY <2>2, <2>3, <3>1
    <3>2. ASSUME j >= k, m[j] # System PROVE FALSE
      <4>1. k < j /\ k \in 1 .. Len(m) /\ j \in 1 .. Len(m)
        BY <1>l, <1>2, <2>3, <3>2
      <4>2. PICK c \in Boundaries(m) : c < j
        BY <2>3, <3>2, <4>1, RunEnds
      <4>3. c \in Int /\ ~ (b <= c)
        BY <1>2, <4>2 DEF Boundaries
      <4> QED BY <1>1, <4>3
    <3> QED BY <3>1, <3>2
  <2>5. \A j \in 1 .. i - 1 : told[j] = System <=> j >= k
    BY <1>3, <1>4, <2>4
  <2> QED BY <1>3, <2>3, <2>5
<1>7. told[i - 1] = System /\ told[i + 1] # System
  BY <1>2, <1>3, <1>4 DEF i
<1>8. Told(m, told)
  BY <1>4, <1>5, <1>6, <1>7 DEF Told
<1> QED BY <1>8 DEF told, i, b

-----------------------------------------------------------------------------
(* The constructor.                                                        *)

RequestInv ==
  /\ request \in UserRequests
  /\ outcome = <<>> \/ outcome = <<Construct(request)>>

LEMMA RequestKept == Spec => []RequestInv
<1>1. Init => RequestInv
  BY DEF Init, RequestInv
<1>2. RequestInv /\ [Next]_<<request, outcome>> => RequestInv'
  BY DEF RequestInv, Next
<1> QED BY <1>1, <1>2, PTL DEF Spec

\* The three ways out of the constructor.
LEMMA Constructed ==
  ASSUME NEW asked \in UserRequests
  PROVE  \/ Construct(asked) = Rejected
         \/ /\ asked.messages \in Seq(Roles)
            /\ Construct(asked) = MakeCommandsAvailForAi(asked.messages)
<1>1. asked.messages \in {Missing} \cup BoundedSeq(Roles, MaxLength)
  BY DEF UserRequests
<1>2. BoundedSeq(Roles, MaxLength) \subseteq Seq(Roles)
  BY LengthAssumption, SeqDef DEF BoundedSeq, SeqOf
<1> QED BY <1>1, <1>2 DEF Construct

LEMMA Kinds ==
  ASSUME NEW m
  PROVE  /\ Accepted(m).kind = "accepted" /\ Accepted(m).messages = m
         /\ Rejected.kind = "rejected" /\ Undefined.kind = "undefined"
BY DEF Accepted, Rejected, Undefined

(***************************************************************************)
(* In a conversation of any length the list of keywords ends the first run *)
(* of system messages and changes nothing else                             *)
(* (chunkedcontentprovider.cpp:144-177).                                   *)
(***************************************************************************)
THEOREM PromptWellPlaced == Spec => []PromptEndsSystemRun
<1>1. RequestInv => PromptEndsSystemRun
  <2> SUFFICES ASSUME RequestInv, Is("accepted") PROVE PromptEndsSystemRun
    BY DEF PromptEndsSystemRun
  <2>1. outcome = <<Construct(request)>> /\ Construct(request).kind = "accepted"
    BY DEF RequestInv, Is
  <2> DEFINE m == request.messages
  <2>2. m \in Seq(Roles) /\ Construct(request) = MakeCommandsAvailForAi(m)
    BY <2>1, Constructed, Kinds DEF RequestInv
  <2> HIDE DEF m
  <2>3. Boundaries(m) # {} /\ ~ ReadsMissingRole(m)
    BY <2>1, <2>2, WhereItGoes, Kinds
  <2> DEFINE told == InsertAt(m, Min(Boundaries(m)) + 1, Prompt)
  <2>4. Construct(request) = Accepted(told) /\ Told(m, told)
    BY <2>2, <2>3, WhereItGoes, ToldWell
  <2> HIDE DEF told
  <2>5. outcome[1].messages = told
    BY <2>1, <2>4, Kinds
  <2> QED BY <2>4, <2>5 DEF PromptEndsSystemRun, Told, m
<1> QED BY <1>1, RequestKept, PTL

(***************************************************************************)
(* And it is inserted, with no step past the end, into every conversation  *)
(* whose messages have roles and in which a message of another role        *)
(* follows a system message (cpp:149-156).                                 *)
(***************************************************************************)
THEOREM DefinedWhereExpected == Spec => []DefinedAfterSystem
<1>1. RequestInv => DefinedAfterSystem
  <2> SUFFICES ASSUME RequestInv, Is("undefined"),
                      ~ \E n \in DOMAIN request.messages :
                          request.messages[n] = Missing,
                      NEW i \in DOMAIN request.messages,
                      NEW j \in DOMAIN request.messages,
                      i < j, request.messages[i] = System,
                      request.messages[j] # System
               PROVE  FALSE
    BY DEF DefinedAfterSystem
  <2>1. outcome = <<Construct(request)>> /\ Construct(request).kind = "undefined"
    BY DEF RequestInv, Is
  <2> DEFINE m == request.messages
  <2>2. m \in Seq(Roles) /\ Construct(request) = MakeCommandsAvailForAi(m)
    BY <2>1, Constructed, Kinds DEF RequestInv
  <2>5. ~ ReadsMissingRole(m)
    BY DEF ReadsMissingRole
  <2>3. i \in 1 .. Len(m) /\ j \in 1 .. Len(m) /\ m[i] = System /\ m[j] # System
    BY <2>2, LenProperties
  <2> HIDE DEF m
  <2>4. Boundaries(m) # {}
    BY <2>2, <2>3, RunEnds
  <2> QED BY <2>1, <2>2, <2>4, <2>5, WhereItGoes, Kinds
<1> QED BY <1>1, RequestKept, PTL
=============================================================================
