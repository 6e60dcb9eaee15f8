----------------------------- MODULE ThreadPool -----------------------------
(***************************************************************************)
(* CThreadPool (common/threads_pool.hpp). Workers take tasks from a queue  *)
(* under queue_mutex_ and sleep on cv_ when there is none; the destructor  *)
(* raises the workers' stop flags without taking that mutex.               *)
(*                                                                         *)
(* A condition variable is its set of sleepers. cv_.wait evaluates its     *)
(* predicate, and goes to sleep and unlocks in a later step; a notify in   *)
(* between reaches nobody. A sleeper may also wake up for no reason.       *)
(***************************************************************************)
EXTENDS Integers, Sequences, FiniteSets

CONSTANTS NumWorkers,  \* num_threads
          Producers,   \* the threads that call enqueue
          Tasks,       \* bound: the tasks they enqueue, each once
          Free         \* queue_mutex_ is not locked

ASSUME PoolAssumption ==
  /\ NumWorkers \in Nat
  /\ Free \notin 1 .. NumWorkers

Workers == 1 .. NumWorkers

VARIABLES mutex,     \* the worker that holds queue_mutex_, or Free
          tasks,     \* tasks_
          stop,      \* stop_, by worker
          worker,    \* where each worker is
          asleep,    \* the workers blocked in cv_.wait
          producer,  \* where each producer is
          owner,     \* where the owner of the pool is
          nextTaskToExec, \* by worker: <<task>> between its pop and its start
          enqueued,  \* history: the tasks enqueued
          taken,     \* history: the tasks popped off the queue, in this order
          started,   \* history: the set of the tasks started
          lateTakes, \* history: how many were popped after every flag had risen
          lateStarts \* history: by worker, its starts after its flag had risen

takeVars == <<nextTaskToExec, taken, started, lateTakes, lateStarts>>
others == <<stop, producer, owner, enqueued>>
vars == <<mutex, tasks, stop, worker, asleep, producer, owner, enqueued, takeVars>>

-----------------------------------------------------------------------------
Goto(w, place) == worker' = [worker EXCEPT ![w] = place]

\* while (!(*stopper))
TestStop(w) ==
  /\ worker[w] = "test"
  /\ Goto(w, IF stop[w] THEN "exited" ELSE "lock")
  /\ UNCHANGED <<mutex, tasks, asleep, others, takeVars>>

\* Faulty variant: the predicate is evaluated without the mutex.
LockNothing(w) ==
  /\ worker[w] = "lock"
  /\ mutex = Free
  /\ Goto(w, "predicate")
  /\ UNCHANGED <<mutex, tasks, asleep, others, takeVars>>

\* std::unique_lock, and the relocking when cv_.wait is woken.
Lock(w) ==
  /\ worker[w] = "lock"
  /\ mutex = Free
  /\ mutex' = w
  /\ Goto(w, "predicate")
  /\ UNCHANGED <<tasks, asleep, others, takeVars>>

Predicate(w) ==
  /\ worker[w] = "predicate"
  /\ Goto(w, IF tasks # <<>> \/ stop[w] THEN "check" ELSE "park")
  /\ UNCHANGED <<mutex, tasks, asleep, others, takeVars>>

Park(w) ==
  /\ worker[w] = "park"
  /\ asleep' = asleep \cup {w}
  /\ mutex' = Free
  /\ Goto(w, "asleep")
  /\ UNCHANGED <<tasks, others, takeVars>>

\* Faulty variant: the flag is not tested again after the wait.
CheckNothing(w) ==
  /\ worker[w] = "check"
  /\ IF tasks = <<>>
     THEN Goto(w, "exited") /\ mutex' = Free
     ELSE Goto(w, "take") /\ UNCHANGED mutex
  /\ UNCHANGED <<tasks, asleep, others, takeVars>>

\* if (*stopper) break;
Check(w) ==
  /\ worker[w] = "check"
  /\ IF stop[w]
     THEN Goto(w, "exited") /\ mutex' = Free
     ELSE Goto(w, "take") /\ UNCHANGED mutex
  /\ UNCHANGED <<tasks, asleep, others, takeVars>>

\* Faulty variant: front() without pop().
TakeWithoutPop(w) ==
  /\ worker[w] = "take"
  /\ mutex' = Free
  /\ Goto(w, "taken")
  /\ nextTaskToExec' = [nextTaskToExec EXCEPT ![w] = <<Head(tasks)>>]
  /\ taken' = Append(taken, Head(tasks))
  /\ UNCHANGED <<tasks, asleep, started, lateTakes, lateStarts, others>>

\* front(), pop() and the unlock at the end of the block.
Take(w) ==
  /\ worker[w] = "take"
  /\ tasks' = Tail(tasks)
  /\ mutex' = Free
  /\ Goto(w, "taken")
  /\ nextTaskToExec' = [nextTaskToExec EXCEPT ![w] = <<Head(tasks)>>]
  /\ taken' = Append(taken, Head(tasks))
  /\ lateTakes' = IF \A v \in Workers : stop[v] THEN lateTakes + 1 ELSE lateTakes
  /\ UNCHANGED <<asleep, started, lateStarts, others>>

\* The task is called without the mutex: other workers may have come in between.
\* The local variable is not looked at any more.
Start(w) ==
  /\ worker[w] = "taken"
  /\ Goto(w, "running")
  /\ nextTaskToExec' = [nextTaskToExec EXCEPT ![w] = <<>>]
  /\ started' = started \cup {Head(nextTaskToExec[w])}
  /\ lateStarts' = IF stop[w] THEN [lateStarts EXCEPT ![w] = @ + 1] ELSE lateStarts
  /\ UNCHANGED <<mutex, tasks, asleep, taken, lateTakes, others>>

\* The task returns, or throws and is caught.
TaskEnds(w) ==
  /\ worker[w] = "running"
  /\ Goto(w, "test")
  /\ UNCHANGED <<mutex, tasks, asleep, others, takeVars>>

\* A sleeper leaves cv_.wait's block to lock the mutex again.
Wake(sleepers) ==
  /\ asleep' = asleep \ sleepers
  /\ worker' = [w \in Workers |-> IF w \in sleepers THEN "lock" ELSE worker[w]]

SpuriousWakeup(w) ==
  /\ w \in asleep
  /\ Wake({w})
  /\ UNCHANGED <<mutex, tasks, others, takeVars>>

-----------------------------------------------------------------------------
\* Faulty variant: enqueue does not notify.
PushSilently(p, task) ==
  /\ owner = "using"
  /\ producer[p] = "idle"
  /\ mutex = Free
  /\ tasks' = Append(tasks, task)
  /\ enqueued' = Append(enqueued, task)
  /\ UNCHANGED <<mutex, stop, worker, asleep, producer, owner, takeVars>>

\* enqueue: the push, under the mutex, and then, without it, the notification.
Push(p, task) ==
  /\ owner = "using"
  /\ producer[p] = "idle"
  /\ mutex = Free
  /\ tasks' = Append(tasks, task)
  /\ enqueued' = Append(enqueued, task)
  /\ producer' = [producer EXCEPT ![p] = "notify"]
  /\ UNCHANGED <<mutex, stop, worker, asleep, owner, takeVars>>

\* Faulty variant: the notification wakes nobody.
NotifyNobody(p) ==
  /\ producer[p] = "notify"
  /\ producer' = [producer EXCEPT ![p] = "idle"]
  /\ UNCHANGED <<mutex, tasks, stop, worker, asleep, owner, enqueued, takeVars>>

NotifyOne(p) ==
  /\ producer[p] = "notify"
  /\ producer' = [producer EXCEPT ![p] = "idle"]
  /\ \/ /\ asleep = {}
        /\ UNCHANGED <<asleep, worker>>
     \/ \E w \in asleep : Wake({w})
  /\ UNCHANGED <<mutex, tasks, stop, owner, enqueued, takeVars>>

-----------------------------------------------------------------------------
\* The destructor. No enqueue may be running when an object is destroyed.
Destruct ==
  /\ owner = "using"
  /\ \A p \in Producers : producer[p] = "idle"
  /\ owner' = "stopping"
  /\ UNCHANGED <<mutex, tasks, stop, worker, asleep, producer, enqueued, takeVars>>

\* The flags are raised one by one, in the order of stop_.
RaiseStop(w) ==
  /\ owner = "stopping"
  /\ ~ stop[w]
  /\ \A v \in 1 .. w - 1 : stop[v]
  /\ stop' = [stop EXCEPT ![w] = TRUE]
  /\ UNCHANGED <<mutex, tasks, worker, asleep, producer, owner, enqueued, takeVars>>

NotifyAll ==
  /\ owner = "stopping"
  /\ \A w \in Workers : stop[w]
  /\ owner' = "joining"
  /\ Wake(asleep)
  /\ UNCHANGED <<mutex, tasks, stop, producer, enqueued, takeVars>>

\* The joins, and then the members are destroyed: tasks never started are dropped.
JoinAll ==
  /\ owner = "joining"
  /\ \A w \in Workers : worker[w] = "exited"
  /\ owner' = "destroyed"
  /\ tasks' = <<>>
  /\ UNCHANGED <<mutex, stop, worker, asleep, producer, enqueued, takeVars>>

-----------------------------------------------------------------------------
\* Faulty variant: the constructor's loop makes one flag too many.
OneFlagMore == [w \in 1 .. NumWorkers + 1 |-> FALSE]

NewFlags == [w \in Workers |-> FALSE]

Init ==
  /\ mutex = Free
  /\ tasks = <<>>
  /\ stop = NewFlags
  /\ worker = [w \in Workers |-> "test"]
  /\ asleep = {}
  /\ producer = [p \in Producers |-> "idle"]
  /\ owner = "using"
  /\ enqueued = <<>>
  /\ nextTaskToExec = [w \in Workers |-> <<>>]
  /\ taken = <<>>
  /\ started = {}
  /\ lateTakes = 0
  /\ lateStarts = [w \in Workers |-> 0]

Worker(w) ==
  \/ TestStop(w) \/ Lock(w) \/ Predicate(w) \/ Park(w) \/ Check(w)
  \/ Take(w) \/ Start(w)

Enqueue(p) ==
  \E task \in Tasks :
    /\ \A i \in 1 .. Len(enqueued) : enqueued[i] # task
    /\ Push(p, task)

Destructor ==
  \/ \E w \in Workers : RaiseStop(w)
  \/ NotifyAll
  \/ JoinAll

Destroyed == owner = "destroyed" /\ UNCHANGED vars

Next ==
  \/ \E w \in Workers : Worker(w) \/ TaskEnds(w) \/ SpuriousWakeup(w)
  \/ \E p \in Producers : Enqueue(p) \/ NotifyOne(p)
  \/ Destruct
  \/ Destructor
  \/ Destroyed

Spec == Init /\ [][Next]_vars

(***************************************************************************)
(* Every thread runs and every task ends. Nothing makes a producer enqueue *)
(* or the owner destroy the pool, and no spurious wakeup can be relied on. *)
(***************************************************************************)
FairSpec ==
  /\ Spec
  /\ \A w \in Workers : WF_vars(Worker(w)) /\ WF_vars(TaskEnds(w))
  /\ \A p \in Producers : WF_vars(NotifyOne(p))
  /\ WF_vars(Destructor)

-----------------------------------------------------------------------------
\* Every variable holds a value of its C++ type.
TypeOK ==
  /\ mutex \in Workers \cup {Free}
  /\ tasks \in Seq(Tasks)
  /\ stop \in [Workers -> BOOLEAN]
  /\ worker \in [Workers -> {"test", "lock", "predicate", "park", "asleep",
                             "check", "take", "taken", "running", "exited"}]
  /\ asleep \in SUBSET Workers
  /\ producer \in [Producers -> {"idle", "notify"}]
  /\ owner \in {"using", "stopping", "joining", "destroyed"}
  /\ enqueued \in Seq(Tasks)
  /\ nextTaskToExec \in [Workers -> Seq(Tasks)]
  /\ taken \in Seq(Tasks)
  /\ started \in SUBSET Tasks
  /\ lateTakes \in Nat
  /\ lateStarts \in [Workers -> Nat]

(***************************************************************************)
(* Tasks leave the queue in the order they were enqueued, each once, and   *)
(* none is lost while the pool lives, however enqueue, wakeups and the     *)
(* destructor interleave (threads_pool.hpp:57-63, 110-113). Nothing orders *)
(* their starts, as the call at line 67 comes after the unlock.            *)
(***************************************************************************)
TakenInOrder == owner # "destroyed" => enqueued = taken \o tasks

(***************************************************************************)
(* Taking a task never finds the queue empty: between the predicate and    *)
(* front() no other worker and no wakeup for the stop flag has come in     *)
(* between (threads_pool.hpp:53-62).                                       *)
(***************************************************************************)
TakeFindsTask == \A w \in Workers : worker[w] = "take" => tasks # <<>>

(***************************************************************************)
(* No task is stranded: when tasks are queued and every worker sleeps, the *)
(* notification of an enqueue is still on its way. notify_one after the    *)
(* unlock is enough (threads_pool.hpp:109-114).                            *)
(***************************************************************************)
NoneStranded ==
  tasks # <<>> /\ Workers # {} /\ asleep = Workers
    => \E p \in Producers : producer[p] = "notify"

(***************************************************************************)
(* "Ignores and drops all not-launched yet tasks" (threads_pool.hpp:80):   *)
(* once all the flags are up only one more task leaves the queue, that of  *)
(* the worker between its last test and the pop, both under the mutex. But *)
(* every worker whose flag rises after that test, or between its unlock    *)
(* and the call, still starts one task, and no worker starts a second one. *)
(***************************************************************************)
FewLateTasks ==
  /\ lateTakes <= 1
  /\ \A w \in Workers : lateStarts[w] <= 1

(***************************************************************************)
(* Every enqueued task is started, unless the pool is destroyed first.     *)
(***************************************************************************)
TasksStart ==
  \A task \in Tasks :
    (\E i \in DOMAIN enqueued : enqueued[i] = task)
      ~> (task \in started \/ owner # "using")

(***************************************************************************)
(* threads_pool.hpp:84 says the destructor locks the queue "to update the  *)
(* stop flag safely", and thread_pool_test.cpp:73 expects destruction to   *)
(* end within seconds: a destruction that has begun ends.                  *)
(***************************************************************************)
DestructionEnds == (owner = "stopping") ~> (owner = "destroyed")
=============================================================================
