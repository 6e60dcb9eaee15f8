-------------------------- MODULE ProxyServerProofs -------------------------
(***************************************************************************)
(* Proofs about ProxyServer, for any number of clients and workers and     *)
(* any requests.                                                           *)
(***************************************************************************)
EXTENDS ProxyServer, FiniteSetTheorems, SequenceTheorems, TLAPS

Places == {"away", "waiting", "handling", "constructing", "streaming", "finished"}

Statuses == {"none", "200", "404", "500", "502", "504"}

AllChats == [thread : {"running", "over", "dead"},
             worker : {"streaming", "releasing", "released"},
             client : {"there", "gone"}]

(***************************************************************************)
(* Why the invariants hold. A client is queued once and only while it      *)
(* waits; an open chat has not released its worker, and only an open one   *)
(* has a thread that runs; what is being answered has a status, from the   *)
(* moment before the provider is built; and no more clients hold a worker  *)
(* than there are workers.                                                 *)
(***************************************************************************)
Queued ==
  /\ waiting \in Seq(Clients)
  /\ \A i \in 1 .. Len(waiting) : place[waiting[i]] = "waiting"
  /\ \A i, j \in 1 .. Len(waiting) : waiting[i] = waiting[j] => i = j

OpenChats ==
  \A c \in Clients :
    /\ place[c] \in {"away", "waiting", "handling"} =>
         chats[c] = NoChat /\ status[c] = "none"
    /\ place[c] = "constructing" => chats[c] = NoChat /\ status[c] # "none"
    /\ place[c] = "streaming" =>
         chats[c] \in AllChats /\ chats[c].worker # "released" /\ status[c] # "none"
    /\ place[c] = "finished" => status[c] # "none" /\ ~ Running(c)

Types ==
  /\ request \in [Clients -> Requests \cup {NoRequest}]
  /\ place \in [Clients -> Places]
  /\ chats \in [Clients -> AllChats \cup {NoChat}]
  /\ status \in [Clients -> Statuses]
  /\ up \in BOOLEAN

HeldBounded == Cardinality(Held) <= NumWorkers

WorkerInv == Types /\ Queued /\ OpenChats /\ HeldBounded

LEMMA ChatIsNot == NoChat \notin AllChats \/ Clients = {}
BY ServerAssumption DEF Life!Chats, AllChats

\* The clients that hold a worker, when no other one begins to.
LEMMA HeldShrinks ==
  ASSUME HeldBounded, Held' \subseteq Held
  PROVE  HeldBounded'
<1>1. IsFiniteSet(Held)
  BY ServerAssumption, FS_Subset DEF Held
<1>2. Cardinality(Held') <= Cardinality(Held)
  BY <1>1, FS_Subset
<1>3. Cardinality(Held) \in Nat /\ Cardinality(Held') \in Nat
  BY <1>1, FS_Subset, FS_CardinalityType
<1> QED BY <1>2, <1>3, ServerAssumption DEF HeldBounded

\* The queue, when nobody who waits is touched.
LEMMA QueueStays ==
  ASSUME Types, Queued, NEW c \in Clients, NEW p \in Places,
         place[c] # "waiting", place' = [place EXCEPT ![c] = p],
         UNCHANGED waiting
  PROVE  Queued'
<1>1. \A i \in 1 .. Len(waiting) : waiting[i] \in Clients /\ waiting[i] # c
  BY ElementOfSeq DEF Queued
<1> QED BY <1>1 DEF Queued, Types

LEMMA ArriveKeeps ==
  ASSUME WorkerInv, NEW c \in Clients, Arrive(c)
  PROVE  WorkerInv'
<1>1. Types'
  BY DEF WorkerInv, Types, Arrive, Places
<1>2. Queued'
  <2>1. Len(waiting) \in Nat /\ waiting' \in Seq(Clients)
        /\ Len(waiting') = Len(waiting) + 1
        /\ \A i \in 1 .. Len(waiting) : waiting'[i] = waiting[i]
        /\ waiting'[Len(waiting) + 1] = c
    BY AppendProperties, LenProperties DEF WorkerInv, Queued, Arrive
  <2>2. \A i \in 1 .. Len(waiting) : waiting[i] \in Clients /\ waiting[i] # c
    BY ElementOfSeq DEF WorkerInv, Queued, Arrive
  <2>3. \A i \in 1 .. Len(waiting') :
          i \in 1 .. Len(waiting) \/ i = Len(waiting) + 1
    BY <2>1
  <2>4. \A i \in 1 .. Len(waiting') : place'[waiting'[i]] = "waiting"
    BY <2>1, <2>2, <2>3 DEF WorkerInv, Types, Queued, Arrive
  <2>5. \A i, j \in 1 .. Len(waiting') : waiting'[i] = waiting'[j] => i = j
    BY <2>1, <2>2, <2>3 DEF WorkerInv, Queued
  <2> QED BY <2>1, <2>4, <2>5 DEF Queued
<1>3. OpenChats'
  BY DEF WorkerInv, Types, OpenChats, Arrive, Running
<1>4. HeldBounded'
  BY HeldShrinks DEF WorkerInv, Types, Held, Arrive
<1> QED BY <1>1, <1>2, <1>3, <1>4 DEF WorkerInv

LEMMA TakeKeeps ==
  ASSUME WorkerInv, TakeRequest
  PROVE  WorkerInv'
<1> DEFINE h == Head(waiting)
<1>q. /\ Len(waiting) \in Nat \ {0}
      /\ h = waiting[1]
      /\ h \in Clients
      /\ place[h] = "waiting"
      /\ waiting' \in Seq(Clients)
      /\ Len(waiting') = Len(waiting) - 1
      /\ \A i \in 1 .. Len(waiting') : waiting'[i] = waiting[i + 1]
  BY HeadTailProperties, EmptySeq, LenProperties
  DEF WorkerInv, Queued, TakeRequest
<1> HIDE DEF h
<1>p. place' = [place EXCEPT ![h] = "handling"]
  BY DEF TakeRequest, h
<1>1. Types'
  BY <1>p DEF WorkerInv, Types, TakeRequest, Places
<1>2. Queued'
  <2>1. \A i \in 1 .. Len(waiting') : i + 1 \in 1 .. Len(waiting) /\ i + 1 # 1
    BY <1>q
  <2>2. \A i \in 1 .. Len(waiting) : waiting[i] \in Clients
    BY ElementOfSeq DEF WorkerInv, Queued
  <2>3. 1 \in 1 .. Len(waiting)
    BY <1>q
  <2>4. \A i \in 1 .. Len(waiting') : waiting'[i] # h
    BY <1>q, <2>1, <2>3 DEF WorkerInv, Queued
  <2>5. \A i \in 1 .. Len(waiting') : place'[waiting'[i]] = "waiting"
    BY <1>p, <1>q, <2>1, <2>2, <2>4 DEF WorkerInv, Types, Queued
  <2>6. \A i, j \in 1 .. Len(waiting') : waiting'[i] = waiting'[j] => i = j
    <3>1. SUFFICES ASSUME NEW i \in 1 .. Len(waiting'),
                          NEW j \in 1 .. Len(waiting'),
                          waiting'[i] = waiting'[j]
                   PROVE  i = j
      OBVIOUS
    <3>2. i + 1 = j + 1
      BY <1>q, <2>1, <3>1 DEF WorkerInv, Queued
    <3> QED BY <1>q, <3>2
  <2> QED BY <1>q, <2>5, <2>6 DEF Queued
<1>3. OpenChats'
  BY <1>p, <1>q DEF WorkerInv, Types, OpenChats, TakeRequest, Running
<1>4. HeldBounded'
  <2>1. IsFiniteSet(Held)
    BY ServerAssumption, FS_Subset DEF Held
  <2>2. Held' = Held \cup {h} /\ h \notin Held
    BY <1>p, <1>q DEF Held, WorkerInv, Types
  <2>3. Cardinality(Held') = Cardinality(Held) + 1
    BY <2>1, <2>2, FS_AddElement
  <2>4. Cardinality(Held) \in Nat
    BY <2>1, FS_CardinalityType
  <2> QED BY <2>3, <2>4, ServerAssumption DEF TakeRequest, HeldBounded
<1> QED BY <1>1, <1>2, <1>3, <1>4 DEF WorkerInv

\* An answer without a chat.
LEMMA RespondKeeps ==
  ASSUME WorkerInv, NEW c \in Clients,
         place[c] \in {"handling", "constructing"},
         NEW code \in Statuses \ {"none"}, Respond(c, code)
  PROVE  WorkerInv'
<1>1. Types'
  BY DEF WorkerInv, Types, Respond, Places, Statuses
<1>2. Queued'
  BY QueueStays DEF WorkerInv, Respond, Places
<1>3. OpenChats'
  BY DEF WorkerInv, Types, OpenChats, Respond, Running
<1>4. HeldBounded'
  BY HeldShrinks DEF WorkerInv, Types, Held, Respond
<1> QED BY <1>1, <1>2, <1>3, <1>4 DEF WorkerInv

\* The provider is about to be built.
LEMMA BeginKeeps ==
  ASSUME WorkerInv, NEW c \in Clients, BeginChat(c)
  PROVE  WorkerInv'
<1>1. Types'
  BY DEF WorkerInv, Types, BeginChat, Places, Statuses
<1>2. Queued'
  BY QueueStays DEF WorkerInv, BeginChat, Handles, Places
<1>3. OpenChats'
  BY DEF WorkerInv, Types, OpenChats, BeginChat, Handles, Running
<1>4. HeldBounded'
  BY HeldShrinks DEF WorkerInv, Types, Held, BeginChat, Handles
<1> QED BY <1>1, <1>2, <1>3, <1>4 DEF WorkerInv

LEMMA StartKeeps ==
  ASSUME WorkerInv, NEW c \in Clients, StartChat(c)
  PROVE  WorkerInv'
<1> DEFINE fresh == [thread |-> "running", worker |-> "streaming",
                     client |-> "there"]
<1>c. /\ place[c] = "constructing"
      /\ chats' = [chats EXCEPT ![c] = fresh]
      /\ place' = [place EXCEPT ![c] = "streaming"]
      /\ UNCHANGED <<request, waiting, status, up>>
  BY DEF StartChat, Life!Fresh
<1>f. fresh \in AllChats /\ fresh # NoChat /\ fresh.worker = "streaming"
  BY ChatIsNot DEF AllChats
<1> HIDE DEF fresh
<1>1. Types'
  BY <1>c, <1>f DEF WorkerInv, Types, Places, Statuses
<1>2. Queued'
  BY <1>c, QueueStays DEF WorkerInv, Places
<1>3. OpenChats'
  BY <1>c, <1>f DEF WorkerInv, Types, OpenChats, Running
<1>4. HeldBounded'
  BY <1>c, HeldShrinks DEF WorkerInv, Types, Held
<1> QED BY <1>1, <1>2, <1>3, <1>4 DEF WorkerInv

\* A step of a chat that does not release a worker whose thread runs.
LEMMA BecomesKeeps ==
  ASSUME WorkerInv, NEW c \in Clients, place[c] = "streaming",
         NEW t \in AllChats, Becomes(c, t),
         t.worker = "released" => t.thread # "running"
  PROVE  WorkerInv'
<1> DEFINE p == IF t.worker = "released" THEN "finished" ELSE "streaming"
<1>c. /\ chats' = [chats EXCEPT ![c] = t]
      /\ place' = [place EXCEPT ![c] = p]
      /\ up' \in BOOLEAN
      /\ UNCHANGED <<request, waiting, status>>
  BY DEF Becomes, WorkerInv, Types
<1>p. /\ p \in {"streaming", "finished"} /\ t # NoChat
      /\ p = "streaming" => t.worker # "released"
      /\ p = "finished" => t.thread # "running"
  BY ChatIsNot
<1> HIDE DEF p
<1>1. Types'
  BY <1>c, <1>p DEF WorkerInv, Types, Places
<1>2. Queued'
  BY <1>c, <1>p, QueueStays DEF WorkerInv, Places
<1>3. OpenChats'
  BY <1>c, <1>p DEF WorkerInv, Types, OpenChats, Running
<1>4. HeldBounded'
  BY <1>c, <1>p, HeldShrinks DEF WorkerInv, Types, Held
<1> QED BY <1>1, <1>2, <1>3, <1>4 DEF WorkerInv

LEMMA ChatKeeps ==
  ASSUME WorkerInv, NEW c \in Clients,
         ThreadGoes(c) \/ WorkerGoes(c) \/ ClientGoes(c)
  PROVE  WorkerInv'
<1>1. place[c] = "streaming"
  BY DEF ThreadGoes, WorkerGoes, ClientGoes
<1>2. chats[c] \in AllChats /\ chats[c].worker # "released"
  BY <1>1 DEF WorkerInv, OpenChats
<1>3. PICK t \in AllChats :
        Becomes(c, t) /\ (t.worker = "released" => t.thread # "running")
  <2>1. CASE ThreadGoes(c)
    BY <1>2, <2>1
    DEF ThreadGoes, Life!ThreadStep, Life!Chats, AllChats
  <2>2. CASE WorkerGoes(c)
    BY <1>2, <2>2
    DEF WorkerGoes, Life!WorkerStep, Life!Chats, AllChats
  <2>3. CASE ClientGoes(c)
    BY <1>2, <2>3
    DEF ClientGoes, Life!ClientStep, Life!Chats, AllChats
  <2> QED BY <2>1, <2>2, <2>3
<1> QED BY <1>1, <1>3, BecomesKeeps

LEMMA NextKeeps ==
  ASSUME WorkerInv, [Next]_vars
  PROVE  WorkerInv'
<1>1. CASE TakeRequest
  BY <1>1, TakeKeeps
<1>2. ASSUME NEW c \in Clients, Arrive(c)
      PROVE  WorkerInv'
  BY <1>2, ArriveKeeps
<1>3. ASSUME NEW c \in Clients, Handle(c)
      PROVE  WorkerInv'
  <2>1. CASE NotFound(c)
    BY <2>1, RespondKeeps DEF NotFound, Handles, Statuses
  <2>2. CASE DefaultProxyEverything(c)
    BY <2>2, RespondKeeps DEF DefaultProxyEverything, Forwarded, Handles, Statuses
  <2>3. CASE RejectContentType(c) \/ RefuseChat(c)
    BY <2>3, RespondKeeps DEF RejectContentType, RefuseChat, Handles, Statuses
  <2>4. CASE BeginChat(c)
    BY <2>4, BeginKeeps
  <2>5. CASE StartChat(c)
    BY <2>5, StartKeeps
  <2>6. CASE PromptCrashes(c)
    <3>1. UNCHANGED <<request, place, waiting, chats, status>> /\ up' = FALSE
      BY <2>6 DEF PromptCrashes
    <3> QED BY <3>1 DEF WorkerInv, Types, Queued, OpenChats,
                        HeldBounded, Held, Running
  <2> QED BY <1>3, <2>1, <2>2, <2>3, <2>4, <2>5, <2>6 DEF Handle
<1>4. ASSUME NEW c \in Clients, ThreadGoes(c) \/ WorkerGoes(c) \/ ClientGoes(c)
      PROVE  WorkerInv'
  BY <1>4, ChatKeeps
<1>5. CASE UNCHANGED vars
  BY <1>5 DEF vars, WorkerInv, Types, Queued, OpenChats,
              HeldBounded, Held, Running
<1> QED BY <1>1, <1>2, <1>3, <1>4, <1>5 DEF Next

LEMMA InitHolds == Init => WorkerInv
<1> SUFFICES ASSUME Init PROVE WorkerInv
  OBVIOUS
<1>1. Types
  BY DEF Init, Types, Places, Statuses
<1>2. Queued
  BY EmptySeq DEF Init, Queued
<1>3. OpenChats
  BY DEF Init, OpenChats, Running
<1>4. HeldBounded
  <2>1. Held = {}
    BY DEF Init, Held
  <2> QED BY <2>1, FS_EmptySet, ServerAssumption DEF HeldBounded
<1> QED BY <1>1, <1>2, <1>3, <1>4 DEF WorkerInv

\* The strengthening of which the invariants below are consequences.
THEOREM WorkersProtected == Spec => []WorkerInv
<1>1. Init => WorkerInv
  BY InitHolds
<1>2. WorkerInv /\ [Next]_vars => WorkerInv'
  BY NextKeeps
<1> QED BY <1>1, <1>2, PTL DEF Spec

-----------------------------------------------------------------------------
(***************************************************************************)
(* Every variable of the server keeps to its type, the queue holds who     *)
(* waits, and who was answered has a status (ollama_proxy.cpp:61-139).     *)
(***************************************************************************)
THEOREM TypeCorrect == Spec => []TypeOK
<1>1. WorkerInv => TypeOK
  <2> SUFFICES ASSUME WorkerInv PROVE TypeOK
    OBVIOUS
  <2>1. waiting \in Seq({c \in Clients : place[c] = "waiting"})
    <3>1. \A i \in 1 .. Len(waiting) :
            waiting[i] \in {c \in Clients : place[c] = "waiting"}
      BY ElementOfSeq DEF WorkerInv, Queued
    <3>2. waiting = [i \in 1 .. Len(waiting) |-> waiting[i]]
          /\ Len(waiting) \in Nat
      BY SeqDef, LenProperties DEF WorkerInv, Queued
    <3> QED BY <3>1, <3>2, IsASeq
  <2>2. \A c \in Clients : chats[c] \in Life(c)!Chats \cup {NoChat}
    BY DEF WorkerInv, Types, Life!Chats, AllChats
  <2>3. \A c \in Clients :
          status[c] # "none" <=> place[c] \in {"constructing", "streaming", "finished"}
    BY DEF WorkerInv, Types, Places, OpenChats
  <2> QED BY <2>1, <2>2, <2>3 DEF WorkerInv, Types, Places, Statuses, Forwarded, TypeOK
<1> QED BY <1>1, WorkersProtected, PTL

(***************************************************************************)
(* For any number of clients there are never more Ollama threads than      *)
(* workers of httplib (ollama_proxy.cpp:119-127).                          *)
(***************************************************************************)
THEOREM BoundsThreads == Spec => []ThreadsBounded
<1>1. WorkerInv => ThreadsBounded
  <2> SUFFICES ASSUME WorkerInv PROVE ThreadsBounded
    OBVIOUS
  <2>1. IsFiniteSet(Held)
    BY ServerAssumption, FS_Subset DEF Held
  <2>2. {c \in Clients : Running(c)} \subseteq Held
    BY DEF WorkerInv, Types, Places, OpenChats, Running, Held
  <2>3. Cardinality({c \in Clients : Running(c)}) <= Cardinality(Held)
    BY <2>1, <2>2, FS_Subset
  <2>4. Cardinality(Held) \in Nat
        /\ Cardinality({c \in Clients : Running(c)}) \in Nat
    BY <2>1, <2>2, FS_Subset, FS_CardinalityType
  <2> QED BY <2>3, <2>4, ServerAssumption DEF WorkerInv, HeldBounded, ThreadsBounded
<1> QED BY <1>1, WorkersProtected, PTL
=============================================================================
