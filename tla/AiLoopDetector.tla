--------------------------- MODULE AiLoopDetector ---------------------------
(***************************************************************************)
(* CAiLoopDetector (commands/ollama_commands.hpp): counts how often in a   *)
(* row the model asked for the same command. The object is a record with   *)
(* the two fields of the class.                                            *)
(***************************************************************************)
EXTENDS Integers

CONSTANT NoCommand   \* the empty lastCommand of a fresh detector

kMaxRepeats == 3

LoopReset == [lastCommand |-> NoCommand, counter |-> 0]

LoopUpdate(loop, command) ==
  IF command = loop.lastCommand
  THEN [loop EXCEPT !.counter = @ + 1]
  ELSE [lastCommand |-> command, counter |-> 1]

\* Faulty variant: off by one.
IsLoopingLate(loop) == loop.counter > kMaxRepeats

IsLooping(loop) == loop.counter >= kMaxRepeats
=============================================================================
