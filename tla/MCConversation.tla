---------------------------- MODULE MCConversation ----------------------------
(* The instances of Conversation that are checked.                         *)
EXTENDS Conversation

Texts == {"text", "edit", "delete"}
=============================================================================
