--------------------------- MODULE MCChatProviders ---------------------------
(* The conversation with two tools and short replies.                      *)
EXTENDS ChatProviders
=============================================================================
