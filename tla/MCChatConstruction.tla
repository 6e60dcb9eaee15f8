------------------------ MODULE MCChatConstruction -------------------------
(***************************************************************************)
(* Constants for ChatConstruction: the three roles of a conversation, and  *)
(* messages without a role.                                                *)
(***************************************************************************)
EXTENDS ChatConstruction

CONSTANTS User, Assistant

AllRoles == {System, User, Assistant, Missing}
=============================================================================
