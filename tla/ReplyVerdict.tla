---------------------------- MODULE ReplyVerdict ----------------------------
(***************************************************************************)
(* What CContentRestorator promises the chat provider about one reply: it  *)
(* collects the text until it takes a decision, hands out everything it    *)
(* collected at that moment, and never decides about that reply again.     *)
(* ContentRestorator implements this specification.                        *)
(***************************************************************************)
EXTENDS Sequences

CONSTANT Pieces      \* the contents one chunk may carry

VARIABLES collected, \* the text held back so far
          taken,     \* the decision about this reply is taken
          handed     \* <<text>> when the last chunk brought the decision

vars == <<collected, taken, handed>>

Init == collected = <<>> /\ taken = FALSE /\ handed = <<>>

Hold(piece) ==
  /\ ~ taken
  /\ collected' = collected \o piece
  /\ handed' = <<>>
  /\ UNCHANGED taken

Decide(piece) ==
  /\ ~ taken
  /\ taken' = TRUE
  /\ handed' = <<collected \o piece>>
  /\ collected' = <<>>

\* A chunk that is relayed, or that cannot be read.
Ignore ==
  /\ handed' = <<>>
  /\ UNCHANGED <<collected, taken>>

Restart == collected' = <<>> /\ taken' = FALSE /\ handed' = <<>>

Next ==
  \/ \E piece \in Pieces : Hold(piece) \/ Decide(piece)
  \/ Ignore
  \/ Restart

Spec == Init /\ [][Next]_vars
=============================================================================
