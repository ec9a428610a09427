--------------------------- MODULE MCConversation ---------------------------
(* Conversation on a small instance: the windows are as small as they can  *)
(* be and still drop something.                                            *)
EXTENDS Conversation
=============================================================================
