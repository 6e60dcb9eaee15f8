----------------------------- MODULE UserPinger -----------------------------
(***************************************************************************)
(* CPinger (network/chunkedcontentprovider.hpp) around CUserPingGenerator  *)
(* (network/user_ping_generator.hpp): the "Working..." line the user sees  *)
(* while the proxy serves a request of the model.                          *)
(*                                                                         *)
(* A pinger is "none" when its optional holds no generator, "fresh" when   *)
(* the generator's once_flag is untouched, and "used" after the first      *)
(* ping. Messages are records; the JSON around the text is left out.       *)
(***************************************************************************)
EXTENDS Sequences

Pinger == {"none", "fresh", "used"}

\* BuildJsStringForUser: "done" is false in every message of the proxy's own.
Notice(kind) == [kind |-> kind, text |-> <<>>, done |-> FALSE]

Restarted == "fresh"

\* What Ping() sends and what it leaves: "Working." once, then dots.
PingReply(ping) ==
  IF ping = "none" THEN <<>>
  ELSE <<Notice(IF ping = "fresh" THEN "working" ELSE "dot")>>

AfterPing(ping) == IF ping = "none" THEN "none" ELSE "used"

\* What Finish() sends: nothing unless there was a ping. It drops the generator.
FinishReply(ping) == IF ping = "used" THEN <<Notice("finish")>> ELSE <<>>

AfterFinish == "none"
=============================================================================
