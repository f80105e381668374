--------------------------- MODULE MCConversation ---------------------------
(* Bounds of the Conversation runs are given in the configurations.        *)
EXTENDS Conversation
=============================================================================
