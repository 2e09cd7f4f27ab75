---------------------------- MODULE MCConversation ----------------------------
(***************************************************************************)
(* Conversation for TLC: messages share nothing but how the process is     *)
(* wired, and its death.                                                   *)
(***************************************************************************)
EXTENDS Conversation
=============================================================================
