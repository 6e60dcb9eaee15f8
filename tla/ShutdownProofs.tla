--------------------------- MODULE ShutdownProofs ---------------------------
(***************************************************************************)
(* Proofs about Shutdown: what holds in every order of main, the server    *)
(* thread and the signal, which TLC has all of.                            *)
(***************************************************************************)
EXTENDS Shutdown, TLAPS

(***************************************************************************)
(* What main has done by the time it gets to a place: the thread exists    *)
(* from its first step on, the flag is raised before the join, and behind  *)
(* the join the thread is over, and stays so.                              *)
(***************************************************************************)
Progress ==
  /\ main = "start" => server = "none"
  /\ main \in {"joining", "exited"} => stop
  /\ main = "exited" => server = "done"

ShutdownInv == TypeOK /\ Progress /\ OrderlyExit

LEMMA InitOrderly == Init => ShutdownInv
<1>1. NoHandler \in [on : {"none", "main", "server"},
                     at : {"idle", "reset", "join", "exit", "blocked"}]
  BY DEF NoHandler
<1>2. Init => TypeOK
  <2>1. 0 # 255
    OBVIOUS
  <2> QED BY <1>1, <2>1, Zenon DEF Init, TypeOK
<1>3. Init => Progress /\ OrderlyExit
  BY DEF Init, Progress, OrderlyExit
<1> QED BY <1>2, <1>3 DEF ShutdownInv

LEMMA MainOrderly ==
  ASSUME ShutdownInv, process = "running", Main
  PROVE  ShutdownInv'
<1>1. CASE StartNewRunner
  BY <1>1 DEF StartNewRunner, MainAt, ShutdownInv, TypeOK, Progress, OrderlyExit
<1>2. CASE Assign \/ Return
  BY <1>2 DEF Assign, Return, MainAt, ShutdownInv, TypeOK, Progress, OrderlyExit
<1>3. CASE Release
  BY <1>3 DEF Release, MainAt, ShutdownInv, TypeOK, Progress, OrderlyExit
<1>4. CASE Join
  BY <1>4 DEF Join, MainAt, ShutdownInv, TypeOK, Progress, OrderlyExit
<1>5. CASE Exit
  BY <1>5 DEF Exit, MainAt, ShutdownInv, TypeOK, Progress, OrderlyExit
<1> QED BY <1>1, <1>2, <1>3, <1>4, <1>5 DEF Main

\* The thread goes on only to its end, and tells a failure only there.
LEMMA ServerOrderly ==
  ASSUME ShutdownInv, process = "running", Server
  PROVE  ShutdownInv'
<1>1. CASE Listen \/ ListenReturns
  BY <1>1 DEF Listen, ListenReturns, ServerAt, ShutdownInv, TypeOK, Progress,
              OrderlyExit
<1>2. CASE ServerThrows \/ StopServer
  BY <1>2 DEF ServerThrows, StopServer, ServerAt, ShutdownInv, TypeOK, Progress,
              OrderlyExit
<1> QED BY <1>1, <1>2 DEF Server

\* The handler is never idle again: an end of the process in it is not that of an
\* orderly exit.
LEMMA HandlerOrderly ==
  ASSUME ShutdownInv, process = "running", Signal \/ Handler
  PROVE  ShutdownInv'
<1>1. CASE Signal
  <2>1. handler' \in [on : {"main", "server"}, at : {"reset"}]
    BY <1>1 DEF Signal
  <2> QED BY <1>1, <2>1 DEF Signal, ShutdownInv, TypeOK, Progress, OrderlyExit
<1>2. ASSUME NEW place \in {"join", "exit", "blocked"}, GoesTo(place)
      PROVE  handler' \in [on : {"none", "main", "server"},
                           at : {"idle", "reset", "join", "exit", "blocked"}]
  BY <1>2 DEF GoesTo, ShutdownInv, TypeOK
<1>3. CASE ResetNothing \/ HandlerJoins \/ HandlerBlocks
  <2>1. GoesTo("exit") \/ GoesTo("blocked")
    BY <1>3 DEF ResetNothing, HandlerJoins, HandlerBlocks
  <2> QED BY <1>2, <1>3, <2>1
          DEF ResetNothing, HandlerJoins, HandlerBlocks, ShutdownInv, TypeOK,
              Progress, OrderlyExit
<1>4. CASE ResetHeld
  <2>1. GoesTo("join")
    BY <1>4 DEF ResetHeld
  <2> QED BY <1>2, <1>4, <2>1 DEF ResetHeld, ShutdownInv, TypeOK, Progress, OrderlyExit
<1>5. CASE ResetAborts
  BY <1>5 DEF ResetAborts, ShutdownInv, TypeOK, Progress, OrderlyExit
<1>6. CASE HandlerExits
  <2>1. handler # NoHandler /\ process' \in {"ended", "aborted"}
    BY <1>6 DEF HandlerExits, NoHandler
  <2> QED BY <1>6, <2>1 DEF HandlerExits, ShutdownInv, TypeOK, Progress, OrderlyExit
<1> QED BY <1>1, <1>3, <1>4, <1>5, <1>6 DEF Handler

LEMMA ShutdownKept == Spec => []ShutdownInv
<1>1. ShutdownInv /\ UNCHANGED vars => ShutdownInv'
  BY DEF vars, ShutdownInv, TypeOK, Progress, OrderlyExit
<1>2. ShutdownInv /\ [Next]_vars => ShutdownInv'
  BY <1>1, MainOrderly, ServerOrderly, HandlerOrderly DEF Next
<1> QED BY <1>2, InitOrderly, PTL DEF Spec

(***************************************************************************)
(* Every variable keeps to its type, a pointer that is given up has raised *)
(* the flag, and a failure is told only by a thread that is over.          *)
(***************************************************************************)
THEOREM TypeCorrect == Spec => []TypeOK
<1>1. ShutdownInv => TypeOK
  BY DEF ShutdownInv
<1> QED BY <1>1, ShutdownKept, PTL

(***************************************************************************)
(* Without a signal the process does not end before the server thread      *)
(* (main.cpp:37-53, runners.h:19-20, 29-41).                               *)
(***************************************************************************)
THEOREM EndsInOrder == Spec => []OrderlyExit
<1>1. ShutdownInv => OrderlyExit
  BY DEF ShutdownInv
<1> QED BY <1>1, ShutdownKept, PTL
=============================================================================
