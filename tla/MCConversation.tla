--------------------------- MODULE MCConversation ---------------------------
(* Constants for model checking ConversationTitle and Conversation. *)
EXTENDS ConversationTitle, TLC

CONSTANTS c1, c2, c3

\* No property names a chat.
Alike == Permutations(Chats)

=============================================================================
