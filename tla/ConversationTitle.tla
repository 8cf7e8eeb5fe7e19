-------------------------- MODULE ConversationTitle --------------------------
(***************************************************************************)
(* The title of a conversation, which its owner gives and the goroutine of *)
(* a chat generates if there is none: Conversation, with a record of which *)
(* goroutines had already looked when the owner gave the title.            *)
(***************************************************************************)
EXTENDS Conversation

VARIABLE
    overtaken   \* the chats that were about to write a title when the owner gave one (history)

titleVars == <<row, title, stored, chat, written, crashes, overtaken>>

-----------------------------------------------------------------------------

Entitling == {c \in Chats : chat[c].pc = "entitle"}

OwnerNames == CreateConversation \/ UpdateConversation

TitleInit == Init /\ overtaken = {}

TitleNext ==
    \/ OwnerNames /\ overtaken' = IF title' = "owner" THEN Entitling ELSE {}
    \/ /\ \/ DeleteConversation
          \/ \E c \in Chats : ChatStep(c)
          \/ Crash
       /\ UNCHANGED overtaken

TitleSpec == TitleInit /\ [][TitleNext]_titleVars

-----------------------------------------------------------------------------
(* Properties                                                              *)

\* A title that the owner gave is only replaced by a generated one, or by a blank, if the
\* chat that does so looked before: "existingTitle != nil" (handlers/llm/llm.go) keeps
\* every title but one that is given within the seconds the generation takes.  Chats
\* that overlap, fail or crash do not widen that gap.
OwnerTitleKept ==
    [][\A c \in Chats : SetTitle(c) /\ title = "owner" /\ title' # "owner" => c \in overtaken]_titleVars

=============================================================================
