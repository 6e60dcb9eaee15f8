-------------------------- MODULE ThreadPoolProofs --------------------------
(***************************************************************************)
(* Proofs about ThreadPool, for any number of workers, producers and       *)
(* tasks.                                                                  *)
(***************************************************************************)
EXTENDS ThreadPool, SequenceTheorems, TLAPS

-----------------------------------------------------------------------------
(* Types.                                                                  *)

LEMMA WorkerTyped ==
  ASSUME TypeOK, NEW w \in Workers, Worker(w) \/ TaskEnds(w) \/ SpuriousWakeup(w),
         worker[w] = "take" => tasks # <<>>,
         worker[w] = "taken" => nextTaskToExec[w] # <<>>
  PROVE  TypeOK'
<1> USE DEF TypeOK, Goto, others, takeVars
<1>1. CASE TestStop(w)
  BY <1>1 DEF TestStop
<1>2. CASE Lock(w)
  BY <1>2 DEF Lock
<1>3. CASE Predicate(w)
  BY <1>3 DEF Predicate
<1>4. CASE Park(w)
  BY <1>4 DEF Park
<1>5. CASE Check(w)
  BY <1>5 DEF Check
<1>6. CASE Take(w)
  <2>1. tasks # <<>> /\ tasks \in Seq(Tasks) /\ taken \in Seq(Tasks)
    BY <1>6 DEF Take
  <2>2. Head(tasks) \in Tasks /\ Tail(tasks) \in Seq(Tasks)
    BY <2>1, HeadTailProperties
  <2>3. Append(taken, Head(tasks)) \in Seq(Tasks) /\ <<Head(tasks)>> \in Seq(Tasks)
    BY <2>1, <2>2, AppendProperties
  <2> QED BY <1>6, <2>2, <2>3 DEF Take
<1>9. CASE Start(w)
  <2>1. Head(nextTaskToExec[w]) \in Tasks
    BY <1>9, HeadTailProperties DEF Start
  <2>2. started' \subseteq Tasks
    BY <1>9, <2>1 DEF Start
  <2>3. nextTaskToExec' \in [Workers -> Seq(Tasks)]
    BY <1>9, EmptySeq DEF Start
  <2>4. lateStarts' \in [Workers -> Nat]
    BY <1>9 DEF Start
  <2> QED BY <1>9, <2>2, <2>3, <2>4 DEF Start
<1>7. CASE TaskEnds(w)
  BY <1>7 DEF TaskEnds
<1>8. CASE SpuriousWakeup(w)
  BY <1>8 DEF SpuriousWakeup, Wake
<1> QED BY <1>1, <1>2, <1>3, <1>4, <1>5, <1>6, <1>7, <1>8, <1>9 DEF Worker

LEMMA ProducerTyped ==
  ASSUME TypeOK, NEW p \in Producers, Enqueue(p) \/ NotifyOne(p)
  PROVE  TypeOK'
<1> USE DEF TypeOK, others, takeVars
<1>1. CASE Enqueue(p)
  <2>1. PICK task \in Tasks : Push(p, task)
    BY <1>1 DEF Enqueue
  <2>2. Append(tasks, task) \in Seq(Tasks) /\ Append(enqueued, task) \in Seq(Tasks)
    BY AppendProperties
  <2> QED BY <2>1, <2>2 DEF Push
<1>2. CASE NotifyOne(p)
  <2>1. CASE UNCHANGED <<asleep, worker>>
    BY <1>2, <2>1 DEF NotifyOne
  <2>2. CASE \E w \in asleep : Wake({w})
    BY <1>2, <2>2 DEF NotifyOne, Wake
  <2> QED BY <1>2, <2>1, <2>2 DEF NotifyOne
<1> QED BY <1>1, <1>2

LEMMA OwnerTyped ==
  ASSUME TypeOK, Destruct \/ Destructor
  PROVE  TypeOK'
<1> USE DEF TypeOK, others, takeVars
<1>1. CASE Destruct
  BY <1>1 DEF Destruct
<1>2. ASSUME NEW w \in Workers, RaiseStop(w) PROVE TypeOK'
  BY <1>2 DEF RaiseStop
<1>3. CASE NotifyAll
  BY <1>3 DEF NotifyAll, Wake
<1>4. CASE JoinAll
  BY <1>4, EmptySeq DEF JoinAll
<1> QED BY <1>1, <1>2, <1>3, <1>4 DEF Destructor

-----------------------------------------------------------------------------
(* Sequences.                                                              *)

\* Moving the head of a queue to the end of its history changes neither end.
LEMMA HeadMoves ==
  ASSUME NEW S, NEW h \in Seq(S), NEW q \in Seq(S), q # <<>>
  PROVE  Append(h, Head(q)) \o Tail(q) = h \o q
<1>1. Head(q) \in S /\ Tail(q) \in Seq(S)
  BY HeadTailProperties
<1>2. <<Head(q)>> \in Seq(S)
  BY <1>1
<1>3. <<Head(q)>> \o Tail(q) = q
  <2>1. Len(q) \in Nat \ {0}
    BY EmptySeq
  <2>2. SubSeq(q, 1, Len(q)) = <<q[1]>> \o SubSeq(q, 2, Len(q))
    BY <2>1, SubSeqRecursiveFirst
  <2> QED BY <2>2, SubSeqFull, TailIsSubSeq, <2>1
<1>4. Append(h, Head(q)) = h \o <<Head(q)>>
  BY <1>1, AppendIsConcat
<1> QED BY <1>1, <1>2, <1>3, <1>4, ConcatAssociative

LEMMA PushMoves ==
  \A h, q \in Seq(Tasks) : \A e \in Tasks : Append(h \o q, e) = h \o Append(q, e)
<1> TAKE h, q \in Seq(Tasks)
<1> TAKE e \in Tasks
<1>1. <<e>> \in Seq(Tasks) /\ h \o q \in Seq(Tasks)
  BY ConcatProperties
<1>2. Append(h \o q, e) = (h \o q) \o <<e>>
  BY <1>1, AppendIsConcat
<1>3. Append(q, e) = q \o <<e>>
  BY AppendIsConcat
<1>4. (h \o q) \o <<e>> = h \o (q \o <<e>>)
  BY <1>1, ConcatAssociative
<1> QED BY <1>2, <1>3, <1>4, Zenon

-----------------------------------------------------------------------------
(***************************************************************************)
(* The inductive invariant: what holding queue_mutex_ means. Only one      *)
(* worker is inside, and what it saw in the queue stays true while it is   *)
(* there: nobody pushes (park), nobody pops (check, take).                 *)
(***************************************************************************)
Places == {"test", "lock", "predicate", "park", "asleep", "check", "take",
           "taken", "running", "exited"}

Inside == {"predicate", "park", "check", "take"}

MutexHeld == \A w \in Workers : worker[w] \in Inside => mutex = w

ViewHolds ==
  \A w \in Workers :
    /\ worker[w] = "park" => tasks = <<>>
    /\ worker[w] = "check" => tasks # <<>> \/ stop[w]

SleepersSleep == \A w \in asleep : worker[w] = "asleep"

\* What line 64 asserts.
HoldsTask == \A w \in Workers : worker[w] = "taken" => nextTaskToExec[w] # <<>>

LockInv ==
  /\ TypeOK
  /\ MutexHeld
  /\ ViewHolds
  /\ TakeFindsTask
  /\ SleepersSleep
  /\ HoldsTask

LEMMA InitLocks == Init => LockInv
BY EmptySeq
DEF Init, NewFlags, LockInv, TypeOK, MutexHeld, ViewHolds, TakeFindsTask,
    SleepersSleep, HoldsTask, Inside

LEMMA WorkerLocks ==
  ASSUME LockInv, NEW w \in Workers, Worker(w) \/ TaskEnds(w) \/ SpuriousWakeup(w)
  PROVE  LockInv'
<1>t. TypeOK'
  BY WorkerTyped DEF LockInv, TakeFindsTask, HoldsTask
<1>w. /\ worker \in [Workers -> Places] /\ asleep \subseteq Workers
      /\ nextTaskToExec \in [Workers -> Seq(Tasks)]
      /\ Free \notin Workers
  BY PoolAssumption DEF LockInv, TypeOK, Workers, Places
<1> USE <1>t, <1>w DEF LockInv, MutexHeld, ViewHolds, TakeFindsTask,
                       SleepersSleep, HoldsTask, Inside, Goto, others, takeVars
<1>1. CASE TestStop(w)
  BY <1>1 DEF TestStop
<1>2. CASE Lock(w)
  BY <1>2 DEF Lock
<1>3. CASE Predicate(w)
  BY <1>3 DEF Predicate
<1>4. CASE Park(w)
  BY <1>4 DEF Park
<1>5. CASE Check(w)
  BY <1>5 DEF Check
<1>6. CASE Take(w)
  <2>1. \A v \in Workers : v # w => worker[v] \notin Inside
    BY <1>6 DEF Take
  <2> QED BY <1>6, <2>1 DEF Take
<1>9. CASE Start(w)
  BY <1>9 DEF Start
<1>7. CASE TaskEnds(w)
  BY <1>7 DEF TaskEnds
<1>8. CASE SpuriousWakeup(w)
  BY <1>8 DEF SpuriousWakeup, Wake
<1> QED BY <1>1, <1>2, <1>3, <1>4, <1>5, <1>6, <1>7, <1>8, <1>9 DEF Worker

LEMMA OthersLock ==
  ASSUME LockInv,
         \/ \E p \in Producers : Enqueue(p) \/ NotifyOne(p)
         \/ Destruct
         \/ Destructor
  PROVE  LockInv'
<1>t. TypeOK'
  BY ProducerTyped, OwnerTyped DEF LockInv
<1>w. /\ worker \in [Workers -> Places] /\ stop \in [Workers -> BOOLEAN]
      /\ asleep \subseteq Workers /\ tasks \in Seq(Tasks) /\ Free \notin Workers
  BY PoolAssumption DEF LockInv, TypeOK, Workers, Places
<1> USE <1>t, <1>w DEF LockInv, MutexHeld, ViewHolds, TakeFindsTask,
                       SleepersSleep, HoldsTask, Inside, takeVars
<1>1. ASSUME NEW p \in Producers, NEW task \in Tasks, Push(p, task)
      PROVE  LockInv'
  <2>1. tasks' # <<>>
    <3>1. tasks' = Append(tasks, task)
      BY <1>1 DEF Push
    <3>2. Len(Append(tasks, task)) = Len(tasks) + 1 /\ Len(tasks) \in Nat
      BY <1>w, AppendProperties, LenProperties
    <3> QED BY <3>1, <3>2
  <2>2. \A v \in Workers : worker[v] \notin Inside
    BY <1>1 DEF Push
  <2> QED BY <1>1, <2>1, <2>2 DEF Push
<1>2. ASSUME NEW p \in Producers, NotifyOne(p) PROVE LockInv'
  <2>1. CASE UNCHANGED <<asleep, worker>>
    BY <1>2, <2>1 DEF NotifyOne
  <2>2. ASSUME NEW v \in asleep, Wake({v}) PROVE LockInv'
    BY <1>2, <2>2 DEF NotifyOne, Wake
  <2> QED BY <1>2, <2>1, <2>2 DEF NotifyOne
<1>3. CASE Destruct
  BY <1>3 DEF Destruct
<1>4. ASSUME NEW w \in Workers, RaiseStop(w) PROVE LockInv'
  BY <1>4 DEF RaiseStop
<1>5. CASE NotifyAll
  BY <1>5 DEF NotifyAll, Wake
<1>6. CASE JoinAll
  BY <1>6 DEF JoinAll
<1> QED BY <1>1, <1>2, <1>3, <1>4, <1>5, <1>6 DEF Enqueue, Destructor

(***************************************************************************)
(* queue_mutex_ protects the queue: only the worker that holds it is       *)
(* between its lock and its unlock, the sleepers are the workers in wait,  *)
(* and one that goes on to take a task has seen the queue it will pop from *)
(* (threads_pool.hpp:48-63).                                               *)
(***************************************************************************)
THEOREM LocksProtect == Spec => []LockInv
<1>1. LockInv /\ [Next]_vars => LockInv'
  <2> SUFFICES ASSUME LockInv, [Next]_vars PROVE LockInv'
    OBVIOUS
  <2>1. CASE UNCHANGED vars
    BY <2>1 DEF vars, takeVars, LockInv, TypeOK, MutexHeld, ViewHolds,
                TakeFindsTask, SleepersSleep, HoldsTask
  <2> QED BY <2>1, WorkerLocks, OthersLock DEF Next, Destroyed
<1> QED BY <1>1, InitLocks, PTL DEF Spec

(***************************************************************************)
(* Every variable keeps to its type, for any number of threads.            *)
(***************************************************************************)
THEOREM TypeCorrect == Spec => []TypeOK
BY LocksProtect, PTL DEF LockInv

(***************************************************************************)
(* front() is never called on an empty queue (threads_pool.hpp:53-62).     *)
(***************************************************************************)
THEOREM TakesFindTasks == Spec => []TakeFindsTask
BY LocksProtect, PTL DEF LockInv

-----------------------------------------------------------------------------
(* The order of tasks.                                                     *)

LEMMA NextKeepsOrder ==
  ASSUME LockInv, TakenInOrder, Next
  PROVE  TakenInOrder'
<1>0. /\ tasks \in Seq(Tasks) /\ taken \in Seq(Tasks) /\ enqueued \in Seq(Tasks)
  BY DEF LockInv, TypeOK
<1> USE DEF TakenInOrder, others, takeVars
<1>1. ASSUME NEW w \in Workers, Take(w) PROVE TakenInOrder'
  <2>1. tasks # <<>>
    BY <1>1 DEF Take, LockInv, TakeFindsTask
  <2>2. taken' \o tasks' = taken \o tasks
    BY <1>0, <1>1, <2>1, HeadMoves DEF Take
  <2> QED BY <1>1, <2>2 DEF Take
<1>2. ASSUME NEW p \in Producers, NEW task \in Tasks, Push(p, task)
      PROVE  TakenInOrder'
  <2>1. owner = "using" /\ enqueued = taken \o tasks
    BY <1>2 DEF Push
  <2>2. enqueued' = Append(taken \o tasks, task)
    BY <1>2, <2>1 DEF Push
  <2>3. Append(taken \o tasks, task) = taken \o Append(tasks, task)
    BY <1>0, PushMoves
  <2> QED BY <1>2, <2>2, <2>3 DEF Push
<1>3. CASE JoinAll
  BY <1>3 DEF JoinAll
<1>4. CASE NotifyAll
  BY <1>4 DEF NotifyAll
<1>5. CASE /\ UNCHANGED <<tasks, enqueued, taken>>
           /\ owner' # "destroyed" => owner # "destroyed"
  BY <1>5
<1>6. ASSUME NEW w \in Workers,
             TestStop(w) \/ Lock(w) \/ Predicate(w) \/ Park(w) \/ Check(w)
               \/ Start(w) \/ TaskEnds(w) \/ SpuriousWakeup(w) \/ RaiseStop(w)
      PROVE  UNCHANGED <<tasks, enqueued, taken, owner>>
  BY <1>6 DEF TestStop, Lock, Predicate, Park, Check, Start, TaskEnds,
              SpuriousWakeup, RaiseStop
<1>7. ASSUME NEW p \in Producers, NotifyOne(p)
      PROVE  UNCHANGED <<tasks, enqueued, taken, owner>>
  BY <1>7 DEF NotifyOne
<1>8. CASE Destruct
  BY <1>8 DEF Destruct
<1>9. CASE Destroyed
  BY <1>9 DEF Destroyed, vars
<1> QED BY <1>1, <1>2, <1>3, <1>4, <1>5, <1>6, <1>7, <1>8, <1>9
        DEF Next, Worker, Enqueue, Destructor

(***************************************************************************)
(* Tasks are popped in the order of enqueue, each once, none lost while    *)
(* the pool lives (threads_pool.hpp:57-63, 110-113).                       *)
(***************************************************************************)
THEOREM TakesInOrder == Spec => []TakenInOrder
<1>1. Init => TakenInOrder
  BY EmptySeq, ConcatEmptySeq DEF Init, TakenInOrder
<1>2. LockInv /\ TakenInOrder /\ [Next]_vars => TakenInOrder'
  BY NextKeepsOrder DEF vars, takeVars, TakenInOrder
<1> QED BY <1>1, <1>2, LocksProtect, PTL DEF Spec

-----------------------------------------------------------------------------
(* Notifications.                                                          *)

LEMMA NextStrandsNone ==
  ASSUME LockInv, NoneStranded, Next
  PROVE  NoneStranded'
<1>0. /\ worker \in [Workers -> Places] /\ asleep \subseteq Workers
      /\ producer \in [Producers -> {"idle", "notify"}]
      /\ \A w \in asleep : worker[w] = "asleep"
  BY DEF LockInv, TypeOK, Places, SleepersSleep
<1> USE <1>0 DEF NoneStranded, others, takeVars
<1>1. ASSUME NEW w \in Workers, Park(w) PROVE NoneStranded'
  BY <1>1 DEF Park, LockInv, ViewHolds
<1>2. ASSUME NEW w \in Workers, Take(w) PROVE NoneStranded'
  <2>1. w \notin asleep
    BY <1>2 DEF Take
  <2> QED BY <1>2, <2>1 DEF Take
<1>3. ASSUME NEW p \in Producers, NEW task \in Tasks, Push(p, task)
      PROVE  NoneStranded'
  BY <1>3 DEF Push
<1>4. ASSUME NEW p \in Producers, NotifyOne(p) PROVE NoneStranded'
  <2>1. CASE asleep = {} /\ asleep' = asleep
    BY <1>4, <2>1 DEF NotifyOne
  <2>2. ASSUME NEW v \in asleep, Wake({v}) PROVE NoneStranded'
    BY <2>2 DEF Wake
  <2> QED BY <1>4, <2>1, <2>2 DEF NotifyOne
<1>5. ASSUME NEW w \in Workers, SpuriousWakeup(w) PROVE NoneStranded'
  BY <1>5 DEF SpuriousWakeup, Wake
<1>6. CASE NotifyAll
  BY <1>6 DEF NotifyAll, Wake
<1>7. CASE JoinAll
  BY <1>7 DEF JoinAll
<1>8. ASSUME NEW w \in Workers,
             TestStop(w) \/ Lock(w) \/ Predicate(w) \/ Check(w) \/ Start(w)
               \/ TaskEnds(w) \/ RaiseStop(w)
      PROVE  UNCHANGED <<tasks, asleep, producer>>
  BY <1>8 DEF TestStop, Lock, Predicate, Check, Start, TaskEnds, RaiseStop
<1>9. CASE UNCHANGED <<tasks, asleep, producer>>
  BY <1>9
<1>10. Destruct \/ Destroyed => UNCHANGED <<tasks, asleep, producer>>
  BY DEF Destruct, Destroyed, vars
<1> QED BY <1>1, <1>2, <1>3, <1>4, <1>5, <1>6, <1>7, <1>8, <1>9, <1>10
        DEF Next, Worker, Enqueue, Destructor

(***************************************************************************)
(* No queued task is left to sleeping workers without a notification on    *)
(* its way (threads_pool.hpp:109-114).                                     *)
(***************************************************************************)
THEOREM StrandsNone == Spec => []NoneStranded
<1>1. Init => NoneStranded
  BY DEF Init, NoneStranded
<1>2. LockInv /\ NoneStranded /\ [Next]_vars => NoneStranded'
  BY NextStrandsNone DEF vars, NoneStranded
<1> QED BY <1>1, <1>2, LocksProtect, PTL DEF Spec

-----------------------------------------------------------------------------
(* Late tasks.                                                             *)

AllRaised == \A w \in Workers : stop[w]

\* The pop that may still come after the last flag is the only one.
LateTakes ==
  /\ lateTakes \in {0, 1}
  /\ ~ AllRaised => lateTakes = 0
  /\ \A w \in Workers : worker[w] = "take" => lateTakes = 0

LEMMA NextTakesOneLate ==
  ASSUME LockInv, LateTakes, Next
  PROVE  LateTakes'
<1>0. worker \in [Workers -> Places] /\ stop \in [Workers -> BOOLEAN]
  BY DEF LockInv, TypeOK, Places
<1> USE <1>0 DEF LateTakes, AllRaised, Goto, others, takeVars
<1>1. ASSUME NEW w \in Workers, Take(w) PROVE LateTakes'
  <2>1. \A v \in Workers : v # w => worker[v] # "take"
    BY <1>1 DEF Take, LockInv, MutexHeld, Inside
  <2>2. lateTakes = 0
    BY <1>1 DEF Take
  <2> QED BY <1>1, <2>1, <2>2 DEF Take
<1>2. ASSUME NEW w \in Workers, Check(w) PROVE LateTakes'
  BY <1>2 DEF Check
<1>3. ASSUME NEW w \in Workers, RaiseStop(w) PROVE LateTakes'
  BY <1>3 DEF RaiseStop
<1>4. CASE /\ UNCHANGED <<stop, lateTakes>>
           /\ \A v \in Workers : worker'[v] = "take" => worker[v] = "take"
  BY <1>4
<1>5. ASSUME NEW w \in Workers,
             \/ TestStop(w) \/ Lock(w) \/ Predicate(w) \/ Park(w)
             \/ Start(w) \/ TaskEnds(w)
      PROVE  LateTakes'
  BY <1>4, <1>5 DEF TestStop, Lock, Predicate, Park, Start, TaskEnds
<1>6. ASSUME NEW w \in Workers, SpuriousWakeup(w) PROVE LateTakes'
  BY <1>4, <1>6 DEF SpuriousWakeup, Wake
<1>7. ASSUME NEW p \in Producers, NotifyOne(p) PROVE LateTakes'
  BY <1>4, <1>7 DEF NotifyOne, Wake
<1>8. ASSUME NEW p \in Producers, Enqueue(p) PROVE LateTakes'
  BY <1>4, <1>8 DEF Enqueue, Push
<1>9. CASE NotifyAll
  BY <1>4, <1>9 DEF NotifyAll, Wake
<1>10. CASE Destruct \/ JoinAll \/ Destroyed
  BY <1>4, <1>10 DEF Destruct, JoinAll, Destroyed, vars
<1> QED BY <1>1, <1>2, <1>3, <1>5, <1>6, <1>7, <1>8, <1>9, <1>10
        DEF Next, Worker, Destructor

(***************************************************************************)
(* A worker that has started a task with its flag up does not get to a     *)
(* second one: it ends that task, tests the flag and exits (hpp:49).       *)
(***************************************************************************)
LateStarts ==
  \A w \in Workers :
    /\ lateStarts[w] \in {0, 1}
    /\ lateStarts[w] = 1 => stop[w] /\ worker[w] \in {"running", "test", "exited"}

LEMMA NextStartsOneLate ==
  ASSUME LockInv, LateStarts, Next
  PROVE  LateStarts'
<1>0. /\ worker \in [Workers -> Places] /\ stop \in [Workers -> BOOLEAN]
      /\ lateStarts \in [Workers -> Nat]
      /\ \A w \in asleep : worker[w] = "asleep"
  BY DEF LockInv, TypeOK, Places, SleepersSleep
<1> USE <1>0 DEF LateStarts, Goto, others, takeVars
<1>1. ASSUME NEW w \in Workers, Start(w) PROVE LateStarts'
  <2>1. lateStarts[w] = 0
    BY <1>1 DEF Start
  <2> QED BY <1>1, <2>1 DEF Start
<1>2. ASSUME NEW w \in Workers, TestStop(w) \/ TaskEnds(w) PROVE LateStarts'
  BY <1>2 DEF TestStop, TaskEnds
<1>3. ASSUME NEW w \in Workers, RaiseStop(w) PROVE LateStarts'
  BY <1>3 DEF RaiseStop
<1>4. ASSUME NEW w \in Workers,
             Lock(w) \/ Predicate(w) \/ Park(w) \/ Check(w) \/ Take(w)
      PROVE  LateStarts'
  BY <1>4 DEF Lock, Predicate, Park, Check, Take
<1>5. ASSUME NEW w \in Workers, SpuriousWakeup(w) PROVE LateStarts'
  BY <1>5 DEF SpuriousWakeup, Wake
<1>6. ASSUME NEW p \in Producers, NotifyOne(p) PROVE LateStarts'
  BY <1>6 DEF NotifyOne, Wake
<1>7. ASSUME NEW p \in Producers, Enqueue(p) PROVE LateStarts'
  BY <1>7 DEF Enqueue, Push
<1>8. CASE NotifyAll
  BY <1>8 DEF NotifyAll, Wake
<1>9. CASE Destruct \/ JoinAll \/ Destroyed
  BY <1>9 DEF Destruct, JoinAll, Destroyed, vars
<1> QED BY <1>1, <1>2, <1>3, <1>4, <1>5, <1>6, <1>7, <1>8, <1>9
        DEF Next, Worker, Destructor

(***************************************************************************)
(* After the last flag is up at most one task is popped, and no worker     *)
(* starts two tasks after its own flag (hpp:49-67, 80-88).                 *)
(***************************************************************************)
THEOREM StopsSoon == Spec => []FewLateTasks
<1>1. Init => LateTakes /\ LateStarts
  BY DEF Init, LateTakes, LateStarts
<1>2. LockInv /\ LateTakes /\ [Next]_vars => LateTakes'
  BY NextTakesOneLate DEF vars, takeVars, LateTakes, AllRaised
<1>3. LockInv /\ LateStarts /\ [Next]_vars => LateStarts'
  BY NextStartsOneLate DEF vars, takeVars, LateStarts
<1>4. LateTakes /\ LateStarts => FewLateTasks
  BY DEF LateTakes, LateStarts, FewLateTasks
<1> QED BY <1>1, <1>2, <1>3, <1>4, LocksProtect, PTL DEF Spec
=============================================================================
