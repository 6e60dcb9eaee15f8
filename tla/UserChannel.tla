---------------------------- MODULE UserChannel -----------------------------
(***************************************************************************)
(* What the two threads of a chat make of TCommObject together: a channel  *)
(* that delivers what was sent, in order, and that somebody closes. To     *)
(* close it does not take back what was sent, and one message that was on  *)
(* its way may still get in. ChatProvider implements this specification.   *)
(***************************************************************************)
EXTENDS Integers, Sequences

VARIABLES stream,     \* every message sent so far
          delivered,  \* how many of them have been delivered
          closed,     \* the channel is closed
          late        \* how many were sent after that

vars == <<stream, delivered, closed, late>>

Init == stream = <<>> /\ delivered = 0 /\ closed = FALSE /\ late = 0

\* Some message is added at the end.
Send ==
  /\ closed => late = 0
  /\ Len(stream') = Len(stream) + 1
  /\ SubSeq(stream', 1, Len(stream)) = stream
  /\ late' = IF closed THEN 1 ELSE 0
  /\ UNCHANGED <<delivered, closed>>

Deliver ==
  /\ delivered < Len(stream)
  /\ delivered' = delivered + 1
  /\ UNCHANGED <<stream, closed, late>>

Close ==
  /\ closed' = TRUE
  /\ UNCHANGED <<stream, delivered, late>>

Next == Send \/ Deliver \/ Close

Spec == Init /\ [][Next]_vars
=============================================================================
