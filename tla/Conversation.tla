---------------------------- MODULE Conversation ----------------------------
(***************************************************************************)
(* One saved conversation: the handlers that create, rename and delete it  *)
(* (handlers/conversations), and the two that chat in it: ChatStream       *)
(* (handlers/llm/llm.go) and RunSaved (handlers/agents/runs.go).           *)
(*                                                                         *)
(* A chat loads the whole transcript, appends its turns in memory and      *)
(* writes the whole transcript back, twice, without looking at the row     *)
(* again; in between it waits for the model.  One action is one statement  *)
(* with the local computation up to the next one.  A turn is its role and  *)
(* the chat it belongs to; what it says is left out.                       *)
(***************************************************************************)
EXTENDS Naturals, Sequences, FiniteSets

CONSTANTS
    Chats,      \* requests to ChatStream or RunSaved
    Faults,     \* the failures the environment may inject
    MaxCrashes  \* bound on process crashes

\* "error": a statement fails and has no effect.  "lost": it takes effect, and its
\* caller sees an error.
ASSUME FaultsAssumption == Faults \subseteq {"error", "lost"}
ASSUME BoundAssumption == MaxCrashes \in Nat

VARIABLES
    row,        \* whether the row of the conversation is there
    title,      \* its title: blank, given by the owner, or generated
    stored,     \* its compressed_messages, a sequence of turns
    chat,       \* each chat: next step, handler, the transcript it holds, chats before it
    written,    \* the turns that have been in the row (history)
    crashes     \* crashes so far

vars == <<row, title, stored, chat, written, crashes>>

-----------------------------------------------------------------------------

ChatSteps == {"new", "loaded", "running", "answered", "title", "entitle",
              "over", "refused", "crashed"}
Turns     == {"user", "assistant"} \X Chats

TurnsOf(s) == {s[i] : i \in DOMAIN s}

Outcomes   == {"ok"} \cup Faults
Applied(o) == o # "error"

\* A chat that will not write the transcript (any more).
Quiet(c) == chat[c].pc \in {"title", "entitle", "over", "refused", "crashed"}

Goto(c, step) == chat' = [chat EXCEPT ![c].pc = step]

Init ==
    /\ row = "none" /\ title = "blank" /\ stored = << >>
    /\ chat = [c \in Chats |-> [pc |-> "new", op |-> "none", turns |-> << >>, before |-> {}]]
    /\ written = {}
    /\ crashes = 0

-----------------------------------------------------------------------------
(* The owner: a title is required, but it may consist of spaces.           *)

CreateConversation ==
    /\ row = "none"
    /\ row' = "live"
    /\ title' \in {"blank", "owner"}
    /\ UNCHANGED <<stored, chat, written, crashes>>

UpdateConversation ==
    /\ row = "live"
    /\ title' \in {"blank", "owner"}
    /\ UNCHANGED <<row, stored, chat, written, crashes>>

DeleteConversation ==
    /\ row = "live"
    /\ row' = "gone" /\ stored' = << >> /\ title' = "blank"
    /\ UNCHANGED <<chat, written, crashes>>

-----------------------------------------------------------------------------
(* A chat                                                                  *)

\* The transcript as it is loaded, with the user's turn appended in memory.
Asked(c) == Append(stored, <<"user", c>>)

\* What generateTitle may return: one made of quoted spaces is blank.
GeneratedTitles == {"blank", "generated"}

\* Mutant: the turn is appended to a transcript that was not loaded.
StartChatUnloaded(c, op) ==
    /\ chat[c].pc = "new"
    /\ row = "live"
    /\ chat' = [chat EXCEPT ![c] =
                   [pc |-> "loaded", op |-> op, turns |-> << <<"user", c>> >>,
                    before |-> {e \in Chats : Quiet(e)}]]
    /\ UNCHANGED <<row, title, stored, written, crashes>>

\* The request is validated and the transcript loaded.
StartChat(c, op) ==
    /\ chat[c].pc = "new"
    /\ row = "live"
    /\ chat' = [chat EXCEPT ![c] =
                   [pc |-> "loaded", op |-> op, turns |-> Asked(c),
                    before |-> {e \in Chats : Quiet(e)}]]
    /\ UNCHANGED <<row, title, stored, written, crashes>>

\* The request is not valid, or the conversation is not there.
RefuseChat(c) ==
    /\ chat[c].pc = "new"
    /\ row # "none"
    /\ Goto(c, "refused")
    /\ UNCHANGED <<row, title, stored, written, crashes>>

\* Mutants: the row is inserted if it is not there; the turns are added to the row.
PersistUpsert(c, o) ==
    IF Applied(o)
    THEN stored' = chat[c].turns /\ written' = written \cup TurnsOf(chat[c].turns)
    ELSE UNCHANGED <<stored, written>>
PersistAppend(c, o) ==
    IF Applied(o) /\ row = "live"
    THEN stored' = stored \o chat[c].turns /\ written' = written \cup TurnsOf(chat[c].turns)
    ELSE UNCHANGED <<stored, written>>

\* The transcript that c holds becomes that of the row.  If the row is gone, no row
\* is updated, which is not an error.
Persist(c, o) ==
    IF Applied(o) /\ row = "live"
    THEN stored' = chat[c].turns /\ written' = written \cup TurnsOf(chat[c].turns)
    ELSE UNCHANGED <<stored, written>>

PersistQuestion(c) ==
    /\ chat[c].pc = "loaded"
    /\ \E o \in Outcomes :
          /\ Persist(c, o)
          /\ Goto(c, IF o = "ok" THEN "running" ELSE "refused")
    /\ UNCHANGED <<row, title, crashes>>

\* Runtime.Run returns: with an answer, which is appended, or with an error.
FinishRun(c) ==
    /\ chat[c].pc = "running"
    /\ \/ Goto(c, "over")
       \/ chat' = [chat EXCEPT ![c].pc = "answered",
                               ![c].turns = Append(@, <<"assistant", c>>)]
    /\ UNCHANGED <<row, title, stored, written, crashes>>

\* An error of this is ignored.  ChatStream then starts a goroutine for the title.
PersistAnswer(c) ==
    /\ chat[c].pc = "answered"
    /\ \E o \in Outcomes : Persist(c, o)
    /\ Goto(c, IF chat[c].op = "ChatStream" THEN "title" ELSE "over")
    /\ UNCHANGED <<row, title, crashes>>

\* Mutant: a title is generated whether there is one or not.
ReadTitleIgnored(c) ==
    /\ chat[c].pc = "title"
    /\ row = "live" /\ Goto(c, "entitle")
    /\ UNCHANGED <<row, title, stored, written, crashes>>

\* A conversation that has a title keeps it.
ReadTitle(c) ==
    /\ chat[c].pc = "title"
    /\ \/ row = "live" /\ title = "blank" /\ Goto(c, "entitle")
       \/ /\ row # "live" \/ title # "blank" \/ "error" \in Faults
          /\ Goto(c, "over")
    /\ UNCHANGED <<row, title, stored, written, crashes>>

\* Up to 30 seconds later the generated title is written, whatever the title is then.
SetTitle(c) ==
    /\ chat[c].pc = "entitle"
    /\ \E o \in Outcomes :
          IF Applied(o) /\ row = "live" THEN title' \in GeneratedTitles
                                        ELSE UNCHANGED title
    /\ Goto(c, "over")
    /\ UNCHANGED <<row, stored, written, crashes>>

\* The process ends, and with it every chat in progress.
Crash ==
    /\ crashes < MaxCrashes
    /\ crashes' = crashes + 1
    /\ chat' = [c \in Chats |->
                   IF chat[c].pc \in {"new", "over", "refused"} THEN chat[c]
                   ELSE [chat[c] EXCEPT !.pc = "crashed"]]
    /\ UNCHANGED <<row, title, stored, written>>

ChatStep(c) ==
    \/ \E op \in {"ChatStream", "RunSaved"} : StartChat(c, op)
    \/ RefuseChat(c)
    \/ PersistQuestion(c) \/ FinishRun(c) \/ PersistAnswer(c)
    \/ ReadTitle(c) \/ SetTitle(c)

Next ==
    \/ CreateConversation \/ UpdateConversation \/ DeleteConversation
    \/ \E c \in Chats : ChatStep(c)
    \/ Crash

Spec == Init /\ [][Next]_vars

-----------------------------------------------------------------------------
(* Properties                                                              *)

\* Types; and no turn is kept of a conversation that is not there, though chats in
\* progress still persist theirs after DeleteConversation.
TypeOK ==
    /\ row \in {"none", "live", "gone"}
    /\ title \in {"blank", "owner", "generated"}
    /\ stored \in Seq(Turns)
    /\ chat \in [Chats -> [pc : ChatSteps, op : {"none", "ChatStream", "RunSaved"},
                           turns : Seq(Turns), before : SUBSET Chats]]
    /\ written \subseteq Turns
    /\ crashes \in 0 .. MaxCrashes
    /\ row # "live" => stored = << >>

\* However chats overlap and whatever fails, the transcript stays a dialogue: no turn
\* is there twice, and an answer directly follows the question it answers.
\* GetHistorySnapshot hands the end of it to the model, 20 messages at most, which may
\* begin with an answer whose question was cut off.
TranscriptPaired ==
    /\ \A i, j \in DOMAIN stored : stored[i] = stored[j] => i = j
    /\ \A i \in DOMAIN stored :
          stored[i][1] = "assistant" =>
              i > 1 /\ stored[i - 1] = <<"user", stored[i][2]>>

\* Nothing happened between the load of one of the two and its last write but the
\* other was quiet.
Apart(c, e) == c \in chat[e].before \/ e \in chat[c].before

\* A turn that was once in the row is still there, unless the conversation is deleted
\* or a chat overlapped with the one it belongs to: Persist overwrites only what the
\* chat has loaded.  Statements that fail or lose their acknowledgement, crashes and
\* chats that overlap elsewhere lose nothing.
TurnsKept ==
    \A t \in written :
        \/ t \in TurnsOf(stored)
        \/ row = "gone"
        \/ \E e \in Chats \ {t[2]} :
              chat[e].op # "none" /\ ~Apart(t[2], e)

\* "Could not save user message" (handlers/llm/llm.go) is what a chat is told whose
\* question is not saved: otherwise it is in the transcript, if that is still there.
QuestionSaved ==
    \A c \in Chats :
        row = "live" /\ chat[c].pc \in {"running", "answered", "title", "entitle", "over"}
            => <<"user", c>> \in TurnsOf(stored)

=============================================================================
