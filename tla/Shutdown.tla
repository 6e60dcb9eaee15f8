------------------------------ MODULE Shutdown ------------------------------
(***************************************************************************)
(* How the program starts and ends (main.cpp, common/runners.h). main      *)
(* starts the server thread, stores the pointer to it, returns at once,    *)
(* and from then on waits in a static destructor, in the deleter of that   *)
(* pointer, which raises the stop flag and joins. One SIGINT or SIGTERM    *)
(* may come at any time, on either thread; its handler resets the same     *)
(* pointer and calls exit.                                                 *)
(*                                                                         *)
(* To reset a pointer in the middle of its own destruction, and to call    *)
(* exit during exit, are undefined. The outcomes are those of libstdc++,   *)
(* where a count that is already zero releases nothing, and of glibc,      *)
(* where exit called again goes on with what is left, or makes another     *)
(* thread than the first one wait.                                         *)
(***************************************************************************)
EXTENDS Integers

VARIABLES main,     \* where the main thread is
          server,   \* where the server thread is
          pointer,  \* proxyServerThread
          stop,     \* the flag the deleter raises
          retCode,
          handler,  \* the signal handler: the thread it runs on, where it is
          process   \* "running", "ended" or "aborted"

vars == <<main, server, pointer, stop, retCode, handler, process>>

NoHandler == [on |-> "none", at |-> "idle"]

\* A thread does not go on while the handler runs on top of it.
MainAt(place) == main = place /\ handler.on # "main"
ServerAt(place) == server = place /\ handler.on # "server"

-----------------------------------------------------------------------------
StartNewRunner ==
  /\ MainAt("start")
  /\ main' = "assigning"
  /\ server' = "starting"
  /\ UNCHANGED <<pointer, stop, retCode, handler, process>>

Assign ==
  /\ MainAt("assigning")
  /\ main' = "returning"
  /\ pointer' = "held"
  /\ UNCHANGED <<server, stop, retCode, handler, process>>

Return ==
  /\ MainAt("returning")
  /\ main' = "exiting"
  /\ UNCHANGED <<server, pointer, stop, retCode, handler, process>>

\* Faulty variant: the deleter joins without raising the flag.
ReleaseQuietly ==
  /\ MainAt("exiting")
  /\ main' = "joining"
  /\ pointer' = "releasing"
  /\ UNCHANGED <<server, stop, retCode, handler, process>>

\* The static destructor, up to the join.
Release ==
  /\ MainAt("exiting")
  /\ main' = "joining"
  /\ pointer' = "releasing"
  /\ stop' = TRUE
  /\ UNCHANGED <<server, retCode, handler, process>>

\* Faulty variant: the thread is detached.
Detach ==
  /\ MainAt("joining")
  /\ main' = "exited"
  /\ pointer' = "destroyed"
  /\ UNCHANGED <<server, stop, retCode, handler, process>>

Join ==
  /\ MainAt("joining")
  /\ server = "done"
  /\ main' = "exited"
  /\ pointer' = "destroyed"
  /\ UNCHANGED <<server, stop, retCode, handler, process>>

Exit ==
  /\ MainAt("exited")
  /\ process' = "ended"
  /\ UNCHANGED <<main, server, pointer, stop, retCode, handler>>

-----------------------------------------------------------------------------
(***************************************************************************)
(* The server thread. Start blocks in listen as long as the server lives;  *)
(* nobody looks at what listen returns.                                    *)
(***************************************************************************)
Listen ==
  /\ ServerAt("starting")
  /\ server' = "listening"
  /\ UNCHANGED <<main, pointer, stop, retCode, handler, process>>

\* Faulty variant: the failure is told, and the thread goes on.
ListenReturnsFailed ==
  /\ ServerAt("starting") \/ ServerAt("listening")
  /\ server' = "polling"
  /\ retCode' = 255
  /\ UNCHANGED <<main, pointer, stop, handler, process>>

\* The port is taken, or the socket breaks later on.
ListenReturns ==
  /\ ServerAt("starting") \/ ServerAt("listening")
  /\ server' = "polling"
  /\ UNCHANGED <<main, pointer, stop, retCode, handler, process>>

ServerThrows ==
  /\ ServerAt("starting") \/ ServerAt("listening")
  /\ server' = "done"
  /\ retCode' = 255
  /\ UNCHANGED <<main, pointer, stop, handler, process>>

StopServer ==
  /\ ServerAt("polling")
  /\ stop
  /\ server' = "done"
  /\ UNCHANGED <<main, pointer, stop, retCode, handler, process>>

-----------------------------------------------------------------------------
(***************************************************************************)
(* HandleSignal, on any thread there is.                                   *)
(***************************************************************************)
Signal ==
  /\ handler = NoHandler
  /\ handler' \in {[on |-> "main", at |-> "reset"]}
       \cup IF server \in {"none", "done"} THEN {} ELSE {[on |-> "server", at |-> "reset"]}
  /\ UNCHANGED <<main, server, pointer, stop, retCode, process>>

GoesTo(place) == handler' = [handler EXCEPT !.at = place]

\* Faulty variant: the handler also waits when main has begun to release.
ResetWaits ==
  /\ handler.at = "reset"
  /\ handler.on = "main"
  /\ pointer # "null"
  /\ pointer' = "null"
  /\ stop' = TRUE
  /\ GoesTo("join")
  /\ UNCHANGED <<main, server, retCode, process>>

\* The thread was not assigned yet, or it is main that is releasing it.
ResetNothing ==
  /\ handler.at = "reset"
  /\ pointer # "held"
  /\ GoesTo("exit")
  /\ UNCHANGED <<main, server, pointer, stop, retCode, process>>

ResetHeld ==
  /\ handler.at = "reset"
  /\ handler.on = "main"
  /\ pointer = "held"
  /\ pointer' = "null"
  /\ stop' = TRUE
  /\ GoesTo("join")
  /\ UNCHANGED <<main, server, retCode, process>>

\* The server thread cannot join itself, and the count of a pointer destroyed
\* before is no longer there.
ResetAborts ==
  /\ handler.at = "reset"
  /\ (handler.on = "server" /\ pointer = "held") \/ pointer = "destroyed"
  /\ process' = "aborted"
  /\ UNCHANGED <<main, server, pointer, stop, retCode, handler>>

HandlerJoins ==
  /\ handler.at = "join"
  /\ server = "done"
  /\ GoesTo("exit")
  /\ UNCHANGED <<main, server, pointer, stop, retCode, process>>

\* exit destroys the pointer, which main may have assigned in the meantime.
HandlerExits ==
  /\ handler.at = "exit"
  /\ process' = IF pointer = "held" THEN "aborted" ELSE "ended"
  /\ UNCHANGED <<main, server, pointer, stop, retCode, handler>>

HandlerBlocks ==
  /\ handler.at = "exit"
  /\ handler.on = "server"
  /\ main \in {"exiting", "joining", "exited"}
  /\ GoesTo("blocked")
  /\ UNCHANGED <<main, server, pointer, stop, retCode, process>>

-----------------------------------------------------------------------------
Init ==
  /\ main = "start"
  /\ server = "none"
  /\ pointer = "null"
  /\ stop = FALSE
  /\ retCode = 0
  /\ handler = NoHandler
  /\ process = "running"

Main == StartNewRunner \/ Assign \/ Return \/ Release \/ Join \/ Exit

Server == Listen \/ ListenReturns \/ ServerThrows \/ StopServer

Handler ==
  ResetNothing \/ ResetHeld \/ ResetAborts \/ HandlerJoins \/ HandlerExits
    \/ HandlerBlocks

Next == process = "running" /\ (Main \/ Server \/ Signal \/ Handler)

Spec == Init /\ [][Next]_vars

\* Every thread runs. Nothing makes listen return, and no signal must come.
FairSpec ==
  /\ Spec
  /\ WF_vars(process = "running" /\ Main)
  /\ WF_vars(process = "running" /\ Handler)
  /\ WF_vars(process = "running" /\ StopServer)
  /\ WF_vars(process = "running" /\ server = "starting" /\ Server)

-----------------------------------------------------------------------------
\* Every variable holds a value of its type; a pointer that is given up has raised
\* the flag, and a failure is told by a thread that is over.
TypeOK ==
  /\ main \in {"start", "assigning", "returning", "exiting", "joining", "exited"}
  /\ server \in {"none", "starting", "listening", "polling", "done"}
  /\ pointer \in {"null", "held", "releasing", "destroyed"}
  /\ stop \in BOOLEAN
  /\ retCode \in {0, 255}
  /\ handler \in [on : {"none", "main", "server"},
                  at : {"idle", "reset", "join", "exit", "blocked"}]
  /\ process \in {"running", "ended", "aborted"}
  /\ pointer \in {"releasing", "destroyed"} => stop
  /\ retCode = 255 => server = "done"

(***************************************************************************)
(* Without a signal the process ends only after the server thread, which   *)
(* is not cut off by the end of main: the pointer "will .join() thread on  *)
(* destruction" (main.cpp:37-53, runners.h:19-20, 29-41).                  *)
(***************************************************************************)
OrderlyExit == process = "ended" /\ handler = NoHandler => server = "done"

(***************************************************************************)
(* A server that cannot listen, or no longer can, does not stay behind as  *)
(* a process without a port: the polling loop sees the flag which main has *)
(* raised, or will raise (main.cpp:42-44).                                 *)
(***************************************************************************)
FailureEndsProcess ==
  server = "polling" ~> (process # "running" \/ handler.on = "server")

(***************************************************************************)
(* Ctrl-C ends the program although main hangs in the join of the static   *)
(* destructor, because reset() on the pointer that is being destroyed      *)
(* leaves the join alone (main.cpp:19-25).                                 *)
(***************************************************************************)
SignalEndsProcess ==
  handler = [on |-> "main", at |-> "reset"] /\ pointer # "held"
    ~> process # "running"
=============================================================================
