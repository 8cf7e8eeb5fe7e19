------------------------- MODULE ConversationProofs -------------------------
(***************************************************************************)
(* Theorems about Conversation and ConversationTitle for every set of      *)
(* chats, every combination of faults and any number of crashes.           *)
(***************************************************************************)
EXTENDS ConversationTitle, SequenceTheorems, TLAPS

-----------------------------------------------------------------------------
(* Dialogues                                                               *)

\* No turn is twice in s, and an answer follows its question.
Dialogue(s) ==
    /\ \A i, j \in DOMAIN s : s[i] = s[j] => i = j
    /\ \A i \in DOMAIN s : s[i][1] = "assistant" => i > 1 /\ s[i - 1] = <<"user", s[i][2]>>

\* The transcript in memory of a chat whose question has not been answered.
Asking(c) ==
    LET s == chat[c].turns
    IN  /\ s # << >> /\ s[Len(s)] = <<"user", c>>
        /\ <<"assistant", c>> \notin TurnsOf(s)

\* The row and all chats hold dialogues; nothing is there of a chat that has not begun;
\* one whose model is at work ends with its question.
Dialogues ==
    /\ Dialogue(stored)
    /\ \A c \in Chats : Dialogue(chat[c].turns)
    /\ \A c \in Chats : chat[c].pc \in {"loaded", "running"} => Asking(c)

\* Nothing is there yet of a chat that has not begun.
FreshAbsent ==
    \A c \in Chats : chat[c].pc = "new" =>
        /\ \A t \in TurnsOf(stored) : t[2] # c
        /\ \A e \in Chats : \A t \in TurnsOf(chat[e].turns) : t[2] # c

-----------------------------------------------------------------------------
(* What TurnsKept rests on                                                 *)

\* Chat c has overlapped with another.
Overlapped(c) == \E e \in Chats \ {c} : chat[e].op # "none" /\ ~Apart(c, e)

\* Which chats were over when c began: only such as write no more.
BeforeIsQuiet == \A c \in Chats : \A e \in chat[c].before : Quiet(e)

\* A chat has no history before it begins, and one as soon as it does.
Begun ==
    \A c \in Chats :
        /\ chat[c].pc = "new" => chat[c].op = "none" /\ chat[c].before = {} /\ chat[c].turns = << >>
        /\ chat[c].pc \notin {"new", "refused", "crashed"} => chat[c].op # "none"

\* What has been written was held by the chat that wrote it, and what a chat
\* holds of others was written.
Written ==
    /\ TurnsOf(stored) \subseteq written
    /\ \A t \in written : chat[t[2]].op # "none" /\ t \in TurnsOf(chat[t[2]].turns)
    /\ \A c \in Chats : \A t \in TurnsOf(chat[c].turns) : t[2] # c => t \in written

\* A chat has loaded all that was written by the chats before it, unless these
\* overlapped with others.
LoadedAll ==
    \A c \in Chats : \A t \in written :
        t[2] \in chat[c].before =>
            t \in TurnsOf(chat[c].turns) \/ row = "gone" \/ Overlapped(t[2])

History == BeforeIsQuiet /\ Begun /\ Written /\ LoadedAll /\ TurnsKept

IInv == TypeOK /\ Dialogues /\ FreshAbsent /\ History

-----------------------------------------------------------------------------
(* Sequences of turns                                                      *)

\* A turn that is appended is added to the turns.
LEMMA TurnsOfAppend ==
    ASSUME NEW s \in Seq(Turns), NEW t \in Turns
    PROVE  TurnsOf(Append(s, t)) = TurnsOf(s) \cup {t}
<1>1. TurnsOf(Append(s, t)) \subseteq TurnsOf(s) \cup {t}
  BY DEF TurnsOf
<1>2. TurnsOf(s) \subseteq TurnsOf(Append(s, t))
  BY DEF TurnsOf
<1>3. t = Append(s, t)[Len(s) + 1] /\ Len(s) + 1 \in DOMAIN Append(s, t)
  OBVIOUS
<1> QED BY <1>1, <1>2, <1>3 DEF TurnsOf

\* and is the last of them.
LEMMA AppendLast ==
    ASSUME NEW s \in Seq(Turns), NEW t \in Turns
    PROVE  Append(s, t) # << >> /\ Append(s, t)[Len(Append(s, t))] = t
OBVIOUS

\* A turn that is not there is at no place.
LEMMA NotInTurns ==
    ASSUME NEW s, NEW t, t \notin TurnsOf(s)
    PROVE  \A i \in DOMAIN s : s[i] # t
BY DEF TurnsOf

\* The question of a chat that is not in a dialogue can be added to it ...
LEMMA DialogueAsk ==
    ASSUME NEW s \in Seq(Turns), NEW c \in Chats, Dialogue(s), <<"user", c>> \notin TurnsOf(s)
    PROVE  Dialogue(Append(s, <<"user", c>>))
<1> DEFINE a == Append(s, <<"user", c>>)
<1>1. a \in Seq(Turns) /\ Len(a) = Len(s) + 1 /\ a[Len(s) + 1] = <<"user", c>>
  BY DEF Turns
<1>2. \A i \in 1 .. Len(s) : a[i] = s[i]
  OBVIOUS
<1>3. \A i \in 1 .. Len(s) : s[i] # <<"user", c>>
  <2>1. DOMAIN s = 1 .. Len(s)
    OBVIOUS
  <2> QED BY <2>1, NotInTurns
<1>4. ASSUME NEW i \in DOMAIN a, NEW j \in DOMAIN a, a[i] = a[j]
      PROVE  i = j
  BY <1>1, <1>2, <1>3, <1>4 DEF Dialogue
<1>5. ASSUME NEW i \in DOMAIN a, a[i][1] = "assistant"
      PROVE  i > 1 /\ a[i - 1] = <<"user", a[i][2]>>
  BY <1>1, <1>2, <1>3, <1>5 DEF Dialogue
<1> QED BY <1>4, <1>5 DEF Dialogue

\* ... and the answer after the question.
LEMMA DialogueAnswer ==
    ASSUME NEW s \in Seq(Turns), NEW c \in Chats, Dialogue(s),
           s # << >>, s[Len(s)] = <<"user", c>>, <<"assistant", c>> \notin TurnsOf(s)
    PROVE  Dialogue(Append(s, <<"assistant", c>>))
<1> DEFINE a == Append(s, <<"assistant", c>>)
<1>1. a \in Seq(Turns) /\ Len(a) = Len(s) + 1 /\ a[Len(s) + 1] = <<"assistant", c>> /\ Len(s) > 0
  BY DEF Turns
<1>2. \A i \in 1 .. Len(s) : a[i] = s[i]
  OBVIOUS
<1>3. \A i \in 1 .. Len(s) : s[i] # <<"assistant", c>>
  <2>1. DOMAIN s = 1 .. Len(s)
    OBVIOUS
  <2> QED BY <2>1, NotInTurns
<1>4. ASSUME NEW i \in DOMAIN a, NEW j \in DOMAIN a, a[i] = a[j]
      PROVE  i = j
  BY <1>1, <1>2, <1>3, <1>4 DEF Dialogue
<1>5. ASSUME NEW i \in DOMAIN a, a[i][1] = "assistant"
      PROVE  i > 1 /\ a[i - 1] = <<"user", a[i][2]>>
  BY <1>1, <1>2, <1>3, <1>5 DEF Dialogue
<1> QED BY <1>4, <1>5 DEF Dialogue

-----------------------------------------------------------------------------
(* Initial states and types                                                *)

\* A conversation that is not there has no turns and no chats.
LEMMA InvInit == Init => IInv
BY BoundAssumption
   DEF Init, IInv, TypeOK, Dialogues, FreshAbsent, History, BeforeIsQuiet, Begun, Written,
       LoadedAll, TurnsKept, Dialogue, Asking, TurnsOf, ChatSteps

\* What a chat is.
ChatType == [pc : ChatSteps, op : {"none", "ChatStream", "RunSaved"},
             turns : Seq(Turns), before : SUBSET Chats]

\* Its step can be replaced.
LEMMA TypeStepOf ==
    ASSUME NEW r \in ChatType, NEW step \in ChatSteps
    PROVE  [r EXCEPT !.pc = step] \in ChatType /\ [r EXCEPT !.pc = step].turns = r.turns
BY DEF ChatType

\* A chat that goes on to another step remains one.
LEMMA TypeGoto ==
    ASSUME chat \in [Chats -> ChatType], NEW c \in Chats, NEW step \in ChatSteps, Goto(c, step)
    PROVE  chat' \in [Chats -> ChatType]
<1>1. [chat[c] EXCEPT !.pc = step] \in ChatType
  BY TypeStepOf
<1> QED BY <1>1 DEF Goto

\* Nothing else about it changes, nor about the other chats.
LEMMA GotoFields ==
    ASSUME chat \in [Chats -> ChatType], NEW c \in Chats, NEW step \in ChatSteps, Goto(c, step),
           NEW e \in Chats
    PROVE  /\ chat'[e].pc = IF e = c THEN step ELSE chat[e].pc
           /\ chat'[e].op = chat[e].op
           /\ chat'[e].turns = chat[e].turns
           /\ chat'[e].before = chat[e].before
<1>1. CASE e = c
  <2>1. chat'[c] = [chat[c] EXCEPT !.pc = step]
    BY DEF Goto
  <2> QED BY <1>1, <2>1 DEF ChatType
<1>2. CASE e # c
  BY <1>2 DEF Goto
<1> QED BY <1>1, <1>2

\* Each action keeps the types; only a conversation that is there gets turns.
LEMMA TypeStep == TypeOK /\ [Next]_vars => TypeOK'
<1> SUFFICES ASSUME TypeOK, [Next]_vars PROVE TypeOK'
  OBVIOUS
<1> USE BoundAssumption DEF TypeOK
<1>1. chat \in [Chats -> ChatType]
  BY DEF ChatType
<1>2. CASE CreateConversation
  BY <1>2 DEF CreateConversation
<1>3. CASE UpdateConversation
  BY <1>3 DEF UpdateConversation
<1>4. CASE DeleteConversation
  BY <1>4 DEF DeleteConversation
<1>5. ASSUME NEW c \in Chats, NEW op \in {"ChatStream", "RunSaved"}, StartChat(c, op)
      PROVE  TypeOK'
  <2>1. Asked(c) \in Seq(Turns)
    BY DEF Asked, Turns
  <2> QED BY <1>5, <2>1 DEF StartChat, ChatSteps
<1>6. ASSUME NEW c \in Chats, RefuseChat(c)
      PROVE  TypeOK'
  <2>1. chat' \in [Chats -> ChatType]
    BY <1>1, <1>6, TypeGoto DEF RefuseChat, ChatSteps
  <2> QED BY <1>6, <2>1 DEF RefuseChat, ChatType
<1>7. ASSUME NEW c \in Chats, PersistQuestion(c) \/ PersistAnswer(c)
      PROVE  TypeOK'
  <2>1. chat' \in [Chats -> ChatType]
    BY <1>1, <1>7, TypeGoto DEF PersistQuestion, PersistAnswer, ChatSteps
  <2>2. TurnsOf(chat[c].turns) \subseteq Turns
    BY DEF TurnsOf
  <2>3. PICK o \in Outcomes : Persist(c, o)
    BY <1>7 DEF PersistQuestion, PersistAnswer
  <2>4. stored' \in Seq(Turns) /\ written' \subseteq Turns /\ (row # "live" => stored' = << >>)
    BY <2>2, <2>3 DEF Persist
  <2>5. UNCHANGED <<row, title, crashes>>
    BY <1>7 DEF PersistQuestion, PersistAnswer
  <2> QED BY <2>1, <2>4, <2>5 DEF ChatType
<1>8. ASSUME NEW c \in Chats, FinishRun(c)
      PROVE  TypeOK'
  <2>1. CASE Goto(c, "over")
    <3>1. chat' \in [Chats -> ChatType]
      BY <1>1, <2>1, TypeGoto DEF ChatSteps
    <3> QED BY <1>8, <3>1 DEF FinishRun, ChatType
  <2>2. CASE ~Goto(c, "over")
    <3> DEFINE r == [chat[c] EXCEPT !.pc = "answered", !.turns = Append(@, <<"assistant", c>>)]
    <3>1. Append(chat[c].turns, <<"assistant", c>>) \in Seq(Turns)
      BY DEF Turns
    <3>2. r \in ChatType
      <4> DEFINE q == [chat[c] EXCEPT !.pc = "answered"]
      <4>1. q \in ChatType /\ q.turns = chat[c].turns
        BY <1>1, TypeStepOf DEF ChatSteps
      <4>2. r = [q EXCEPT !.turns = Append(chat[c].turns, <<"assistant", c>>)]
        BY <1>1 DEF ChatType
      <4> HIDE DEF q
      <4>3. [q EXCEPT !.turns = Append(chat[c].turns, <<"assistant", c>>)] \in ChatType
        BY <3>1, <4>1 DEF ChatType
      <4> QED BY <4>2, <4>3
    <3>3. chat' = [chat EXCEPT ![c] = r]
      BY <1>8, <2>2 DEF FinishRun
    <3>4. chat' \in [Chats -> ChatType]
      BY <1>1, <3>2, <3>3
    <3> QED BY <1>8, <3>4 DEF FinishRun, ChatType
  <2> QED BY <2>1, <2>2
<1>9. ASSUME NEW c \in Chats, ReadTitle(c) \/ SetTitle(c)
      PROVE  TypeOK'
  <2>1. chat' \in [Chats -> ChatType]
    BY <1>1, <1>9, TypeGoto DEF ReadTitle, SetTitle, ChatSteps
  <2>2. UNCHANGED <<row, stored, written, crashes>>
    BY <1>9 DEF ReadTitle, SetTitle
  <2>3. title' \in {title, "blank", "generated"}
    BY <1>9 DEF ReadTitle, SetTitle, GeneratedTitles
  <2> QED BY <2>1, <2>2, <2>3 DEF ChatType
<1>10. CASE Crash
  <2>1. ASSUME NEW c \in Chats
        PROVE  [chat[c] EXCEPT !.pc = "crashed"] \in ChatType
    BY <1>1, TypeStepOf DEF ChatSteps
  <2>2. chat' \in [Chats -> ChatType]
    BY <1>1, <1>10, <2>1 DEF Crash
  <2>3. UNCHANGED <<row, title, stored, written>> /\ crashes < MaxCrashes /\ crashes' = crashes + 1
    BY <1>10 DEF Crash
  <2> QED BY <2>2, <2>3 DEF ChatType
<1>11. CASE UNCHANGED vars
  BY <1>11 DEF vars
<1> QED BY <1>2, <1>3, <1>4, <1>5, <1>6, <1>7, <1>8, <1>9, <1>10, <1>11 DEF Next, ChatStep

-----------------------------------------------------------------------------
(* Steps that touch no transcript                                          *)

\* No transcript changes; chats go on to steps in which they can do no more than before.
StepsOnly ==
    /\ UNCHANGED <<stored, written>>
    /\ row = "gone" => row' = "gone"
    /\ \A c \in Chats :
          /\ chat'[c].op = chat[c].op
          /\ chat'[c].turns = chat[c].turns
          /\ chat'[c].before = chat[c].before
          /\ Quiet(c) => Quiet(c)'
          /\ chat'[c].pc = "new" => chat[c].pc = "new"
          /\ chat'[c].pc \in {"loaded", "running"} => chat[c].pc \in {"loaded", "running"}
          /\ chat'[c].pc \notin {"new", "refused", "crashed"} =>
                chat[c].pc \notin {"new", "refused", "crashed"}

\* Which of the actions are such steps.
LEMMA StepsOnlyActions ==
    ASSUME TypeOK,
           \/ CreateConversation \/ UpdateConversation \/ Crash \/ UNCHANGED vars
           \/ \E c \in Chats : RefuseChat(c) \/ ReadTitle(c) \/ SetTitle(c)
    PROVE  StepsOnly
<1>1. chat \in [Chats -> ChatType]
  BY DEF TypeOK, ChatType
<1>2. CASE CreateConversation \/ UpdateConversation \/ UNCHANGED vars
  BY <1>2 DEF CreateConversation, UpdateConversation, vars, StepsOnly, Quiet
<1>3. ASSUME NEW c \in Chats, RefuseChat(c)
      PROVE  StepsOnly
  BY <1>1, <1>3, GotoFields DEF RefuseChat, ChatSteps, StepsOnly, Quiet
<1>4. ASSUME NEW c \in Chats, ReadTitle(c) \/ SetTitle(c)
      PROVE  StepsOnly
  <2>1. UNCHANGED <<row, stored, written>>
    BY <1>4 DEF ReadTitle, SetTitle
  <2>2. /\ chat[c].pc \in {"title", "entitle"}
        /\ \E step \in {"entitle", "over"} : Goto(c, step)
    BY <1>4 DEF ReadTitle, SetTitle
  <2> QED BY <1>1, <2>1, <2>2, GotoFields DEF ChatSteps, StepsOnly, Quiet
<1>5. CASE Crash
  <2>1. ASSUME NEW e \in Chats
        PROVE  /\ chat'[e].op = chat[e].op
               /\ chat'[e].turns = chat[e].turns
               /\ chat'[e].before = chat[e].before
               /\ chat'[e].pc = IF chat[e].pc \in {"new", "over", "refused"} THEN chat[e].pc
                                ELSE "crashed"
    <3>1. chat'[e] = IF chat[e].pc \in {"new", "over", "refused"} THEN chat[e]
                     ELSE [chat[e] EXCEPT !.pc = "crashed"]
      BY <1>5 DEF Crash
    <3> QED BY <1>1, <3>1 DEF ChatType
  <2>2. UNCHANGED <<row, stored, written>>
    BY <1>5 DEF Crash
  <2> QED BY <2>1, <2>2 DEF StepsOnly, Quiet
<1> QED BY <1>2, <1>3, <1>4, <1>5

\* They keep all parts of the invariant.
LEMMA StepsOnlyKeep ==
    ASSUME IInv, TypeOK', StepsOnly
    PROVE  IInv'
<1>1. Dialogues' /\ FreshAbsent'
  BY DEF IInv, StepsOnly, Dialogues, FreshAbsent, Asking
<1>2. BeforeIsQuiet' /\ Begun' /\ Written'
  BY DEF IInv, TypeOK, StepsOnly, History, BeforeIsQuiet, Begun, Written, Turns
<1>3. \A d \in Chats : Overlapped(d) => Overlapped(d)'
  BY DEF StepsOnly, Overlapped, Apart
<1>4. LoadedAll'
  BY <1>3 DEF IInv, TypeOK, StepsOnly, History, LoadedAll, Turns
<1>5. TurnsKept'
  <2> SUFFICES ASSUME NEW t \in written, t \notin TurnsOf(stored), row' # "gone"
               PROVE  Overlapped(t[2])'
    BY DEF TurnsKept, Overlapped, StepsOnly
  <2>1. Overlapped(t[2]) /\ t[2] \in Chats
    BY DEF IInv, TypeOK, History, TurnsKept, Overlapped, StepsOnly, Turns
  <2> QED BY <2>1, <1>3
<1> QED BY <1>1, <1>2, <1>4, <1>5 DEF IInv, History

\* A run that returns with an error is such a step, too.
LEMMA RunFails ==
    ASSUME TypeOK, NEW c \in Chats, FinishRun(c), Goto(c, "over")
    PROVE  StepsOnly
<1>1. chat \in [Chats -> ChatType]
  BY DEF TypeOK, ChatType
<1> QED BY <1>1, GotoFields DEF FinishRun, ChatSteps, StepsOnly, Quiet

-----------------------------------------------------------------------------
(* The other steps                                                         *)

\* A conversation that is deleted loses its turns; it does not come back.
LEMMA DeleteKeeps ==
    ASSUME IInv, TypeOK', DeleteConversation
    PROVE  IInv'
<1>1. stored' = << >> /\ row' = "gone" /\ UNCHANGED <<chat, written>>
  BY DEF DeleteConversation
<1>2. TurnsOf(<< >>) = {} /\ Dialogue(<< >>)
  BY DEF TurnsOf, Dialogue
<1>3. Dialogues' /\ FreshAbsent'
  BY <1>1, <1>2 DEF IInv, Dialogues, FreshAbsent, Asking
<1>4. BeforeIsQuiet' /\ Begun' /\ Written'
  BY <1>1, <1>2 DEF IInv, History, BeforeIsQuiet, Quiet, Begun, Written
<1>5. LoadedAll' /\ TurnsKept'
  BY <1>1 DEF LoadedAll, TurnsKept
<1> QED BY <1>3, <1>4, <1>5 DEF IInv, History

\* A chat that begins holds the transcript of the row and its own question.
LEMMA StartKeeps ==
    ASSUME IInv, TypeOK', NEW c \in Chats, NEW op \in {"ChatStream", "RunSaved"}, StartChat(c, op)
    PROVE  IInv'
<1> DEFINE q == <<"user", c>>
<1> USE DEF IInv, TypeOK
<1>1. q \in Turns /\ q[1] = "user" /\ q[2] = c /\ q # <<"assistant", c>>
  BY DEF Turns
<1>2. /\ chat'[c].pc = "loaded" /\ chat'[c].op = op /\ chat'[c].turns = Append(stored, q)
      /\ chat'[c].before = {e \in Chats : Quiet(e)}
      /\ \A e \in Chats \ {c} : chat'[e] = chat[e]
      /\ chat[c].pc = "new" /\ row = "live" /\ UNCHANGED <<row, stored, written>>
  BY DEF StartChat, Asked
<1>3. q \notin TurnsOf(stored) /\ <<"assistant", c>> \notin TurnsOf(stored)
  BY <1>2 DEF FreshAbsent
<1>4. TurnsOf(chat'[c].turns) = TurnsOf(stored) \cup {q}
  BY <1>1, <1>2, TurnsOfAppend
<1>5. Dialogues'
  <2>1. Dialogue(chat'[c].turns)
    BY <1>2, <1>3, DialogueAsk DEF Dialogues
  <2>2. Append(stored, q) # << >> /\ Append(stored, q)[Len(Append(stored, q))] = q
    BY <1>1, AppendLast
  <2>3. <<"assistant", c>> \notin TurnsOf(chat'[c].turns)
    BY <1>1, <1>3, <1>4
  <2>4. Asking(c)'
    BY <1>2, <2>2, <2>3 DEF Asking
  <2> QED BY <1>2, <2>1, <2>4 DEF Dialogues, Asking
<1>6. FreshAbsent'
  <2> SUFFICES ASSUME NEW d \in Chats, chat'[d].pc = "new"
               PROVE  /\ \A t \in TurnsOf(stored) : t[2] # d
                      /\ \A e \in Chats : \A t \in TurnsOf(chat'[e].turns) : t[2] # d
    BY <1>2 DEF FreshAbsent
  <2>1. d # c /\ chat[d].pc = "new"
    BY <1>2
  <2>2. \A t \in TurnsOf(chat'[c].turns) : t[2] # d
    BY <1>1, <1>4, <2>1 DEF FreshAbsent
  <2> QED BY <1>2, <2>1, <2>2 DEF FreshAbsent
<1>7. BeforeIsQuiet'
  <2>1. \A e \in Chats : Quiet(e) => Quiet(e)' /\ e # c
    BY <1>2 DEF Quiet
  <2>2. \A e \in chat'[c].before : e \in Chats /\ Quiet(e)
    BY <1>2
  <2>3. \A d \in Chats \ {c} : \A e \in chat'[d].before : e \in Chats /\ Quiet(e)
    BY <1>2 DEF History, BeforeIsQuiet
  <2> QED BY <2>1, <2>2, <2>3 DEF BeforeIsQuiet
<1>8. Begun'
  BY <1>2 DEF History, Begun
<1>9. Written'
  <2>1. TurnsOf(stored) \subseteq written
    BY DEF History, Written
  <2>2. ASSUME NEW t \in written
        PROVE  chat'[t[2]].op # "none" /\ t \in TurnsOf(chat'[t[2]].turns)
    BY <1>2 DEF History, Written, Begun, Turns
  <2>3. \A t \in TurnsOf(chat'[c].turns) : t[2] # c => t \in written
    BY <1>1, <1>4, <2>1
  <2>4. \A e \in Chats \ {c} : \A t \in TurnsOf(chat'[e].turns) : t[2] # e => t \in written
    BY <1>2 DEF History, Written
  <2> QED BY <1>2, <2>1, <2>2, <2>3, <2>4 DEF Written
<1>10. \A d \in Chats \ {c} : Overlapped(d) => Overlapped(d)'
  BY <1>2 DEF History, Begun, Overlapped, Apart
<1>11. \A t \in written : t[2] \in Chats \ {c}
  BY <1>2 DEF History, Begun, Written, Turns
<1>12. \A t \in written : t \in TurnsOf(stored) \/ Overlapped(t[2])
  BY <1>2 DEF History, TurnsKept, Overlapped
<1>13. LoadedAll'
  BY <1>2, <1>4, <1>10, <1>11, <1>12 DEF History, LoadedAll
<1>14. TurnsKept'
  BY <1>2, <1>10, <1>11, <1>12 DEF TurnsKept, Overlapped
<1> QED BY <1>5, <1>6, <1>7, <1>9, <1>13, <1>14, <1>8 DEF History

\* An answer is appended after the question it belongs to.
LEMMA AnswerKeeps ==
    ASSUME IInv, TypeOK', NEW c \in Chats, FinishRun(c), ~Goto(c, "over")
    PROVE  IInv'
<1> DEFINE a == <<"assistant", c>>
<1> USE DEF IInv, TypeOK
<1>1. a \in Turns /\ a[2] = c
  BY DEF Turns
<1>2. /\ chat'[c].pc = "answered" /\ chat'[c].turns = Append(chat[c].turns, a)
      /\ chat'[c].op = chat[c].op /\ chat'[c].before = chat[c].before
      /\ \A e \in Chats \ {c} : chat'[e] = chat[e]
      /\ chat[c].pc = "running" /\ UNCHANGED <<row, stored, written>>
  BY DEF FinishRun
<1>3. chat[c].turns \in Seq(Turns)
  OBVIOUS
<1>4. TurnsOf(chat'[c].turns) = TurnsOf(chat[c].turns) \cup {a}
  BY <1>1, <1>2, <1>3, TurnsOfAppend
<1>5. Dialogues'
  <2>1. Dialogue(chat[c].turns) /\ Asking(c)
    BY <1>2 DEF Dialogues
  <2>2. Dialogue(Append(chat[c].turns, a))
    <3>1. /\ chat[c].turns # << >> /\ chat[c].turns[Len(chat[c].turns)] = <<"user", c>>
          /\ a \notin TurnsOf(chat[c].turns)
      BY <2>1 DEF Asking
    <3> QED BY <1>3, <2>1, <3>1, DialogueAnswer
  <2>3. Dialogue(chat'[c].turns)
    BY <1>2, <2>2
  <2> QED BY <1>2, <2>3 DEF Dialogues, Asking
<1>6. FreshAbsent'
  <2> SUFFICES ASSUME NEW d \in Chats, chat'[d].pc = "new"
               PROVE  /\ \A t \in TurnsOf(stored) : t[2] # d
                      /\ \A e \in Chats : \A t \in TurnsOf(chat'[e].turns) : t[2] # d
    BY <1>2 DEF FreshAbsent
  <2>1. d # c /\ chat[d].pc = "new"
    BY <1>2
  <2>2. \A t \in TurnsOf(chat'[c].turns) : t[2] # d
    BY <1>1, <1>4, <2>1 DEF FreshAbsent
  <2> QED BY <1>2, <2>1, <2>2 DEF FreshAbsent
<1>7. BeforeIsQuiet'
  <2>1. \A e \in Chats : Quiet(e) => Quiet(e)'
    BY <1>2 DEF Quiet
  <2>2. \A d \in Chats : chat'[d].before = chat[d].before
    BY <1>2
  <2> QED BY <2>1, <2>2 DEF History, BeforeIsQuiet
<1>8. Begun'
  <2>1. chat[c].op # "none"
    BY <1>2 DEF History, Begun
  <2>2. ASSUME NEW d \in Chats
        PROVE  /\ chat'[d].pc = "new" => chat'[d] = chat[d] /\ chat[d].pc = "new"
               /\ chat'[d].op = chat[d].op
               /\ d # c => chat'[d] = chat[d]
    BY <1>2
  <2> QED BY <2>1, <2>2 DEF History, Begun
<1>9. Written'
  <2>1. ASSUME NEW t \in written
        PROVE  chat'[t[2]].op # "none" /\ t \in TurnsOf(chat'[t[2]].turns)
    BY <1>2, <1>4 DEF History, Written, Turns
  <2>2. \A t \in TurnsOf(chat'[c].turns) : t[2] # c => t \in written
    BY <1>1, <1>4 DEF History, Written
  <2>3. \A e \in Chats \ {c} : \A t \in TurnsOf(chat'[e].turns) : t[2] # e => t \in written
    BY <1>2 DEF History, Written
  <2> QED BY <1>2, <2>1, <2>2, <2>3 DEF History, Written
<1>10. \A d \in Chats : Overlapped(d) => Overlapped(d)'
  BY <1>2 DEF Overlapped, Apart
<1>11. \A t \in written : t[2] \in Chats
  BY DEF Turns
<1>12. LoadedAll'
  BY <1>2, <1>4, <1>10, <1>11 DEF History, LoadedAll
<1>13. TurnsKept'
  BY <1>2, <1>10, <1>11 DEF History, TurnsKept, Overlapped
<1> QED BY <1>5, <1>6, <1>7, <1>9, <1>12, <1>13, <1>8 DEF History

\* A chat overwrites the row with what it holds.  A turn that is lost by this was not
\* written when the chat began, so its own chat was not over.
LEMMA PersistKeeps ==
    ASSUME IInv, TypeOK', NEW c \in Chats, PersistQuestion(c) \/ PersistAnswer(c)
    PROVE  IInv'
<1> DEFINE T == TurnsOf(chat[c].turns)
<1> USE DEF IInv, TypeOK
<1>1. chat \in [Chats -> ChatType]
  BY DEF ChatType
<1>2. PICK o \in Outcomes, step \in ChatSteps \ {"new", "loaded", "answered"} :
          Persist(c, o) /\ Goto(c, step)
  BY DEF PersistQuestion, PersistAnswer, ChatSteps
<1>3. /\ chat[c].pc \in {"loaded", "answered"} /\ row' = row
      /\ step = "running" => chat[c].pc = "loaded"
  BY <1>2 DEF PersistQuestion, PersistAnswer, Goto
<1>4. /\ chat'[c].pc = step
      /\ \A e \in Chats \ {c} : chat'[e].pc = chat[e].pc
      /\ \A e \in Chats : /\ chat'[e].turns = chat[e].turns
                          /\ chat'[e].op = chat[e].op
                          /\ chat'[e].before = chat[e].before
  BY <1>1, <1>2, GotoFields
<1>5. CASE ~(Applied(o) /\ row = "live")
  <2>1. StepsOnly
    BY <1>2, <1>3, <1>4, <1>5 DEF Persist, StepsOnly, Quiet
  <2> QED BY <2>1, StepsOnlyKeep
<1>6. CASE Applied(o) /\ row = "live"
  <2>1. stored' = chat[c].turns /\ written' = written \cup T
    BY <1>2, <1>6 DEF Persist
  <2>2. Dialogues'
    <3>1. \A e \in Chats : Asking(e) => Asking(e)'
      BY <1>4 DEF Asking
    <3>2. \A e \in Chats : chat'[e].pc \in {"loaded", "running"}
                              => chat[e].pc \in {"loaded", "running"}
      BY <1>3, <1>4
    <3> QED BY <1>4, <2>1, <3>1, <3>2 DEF Dialogues
  <2>3. FreshAbsent'
    <3>1. \A e \in Chats : chat'[e].pc = "new" => chat[e].pc = "new"
      BY <1>4
    <3> QED BY <1>4, <2>1, <3>1 DEF FreshAbsent
  <2>4. BeforeIsQuiet'
    <3>1. \A e \in Chats : Quiet(e) => Quiet(e)'
      BY <1>3, <1>4 DEF Quiet
    <3> QED BY <1>4, <3>1 DEF History, BeforeIsQuiet
  <2>5. Begun'
    BY <1>3, <1>4 DEF History, Begun
  <2>6. c \in Chats /\ chat[c].op # "none" /\ ~Quiet(c)
    BY <1>3 DEF History, Begun, Quiet
  <2>7. T \subseteq Turns
    BY DEF TurnsOf
  <2>8. Written'
    <3>1. ASSUME NEW t \in written'
          PROVE  chat[t[2]].op # "none" /\ t \in TurnsOf(chat[t[2]].turns) /\ t[2] \in Chats
      <4>1. CASE t \in written
        BY <4>1 DEF History, Written, Turns
      <4>2. CASE t \in T /\ t \notin written
        BY <2>6, <4>2 DEF History, Written
      <4> QED BY <2>1, <4>1, <4>2
    <3>2. TurnsOf(stored') \subseteq written'
      BY <2>1
    <3> QED BY <1>4, <2>1, <3>1, <3>2 DEF History, Written
  <2>9. \A d \in Chats : Overlapped(d) => Overlapped(d)'
    BY <1>4 DEF Overlapped, Apart
  <2>10. \A t \in T : t \in written \/ t[2] = c
    BY DEF History, Written
  <2>11. \A e \in Chats : c \notin chat[e].before
    BY <2>6 DEF History, BeforeIsQuiet
  <2>12. LoadedAll'
    BY <1>3, <1>4, <2>1, <2>9, <2>10, <2>11 DEF History, LoadedAll, Turns
  <2>13. TurnsKept'
    <3> SUFFICES ASSUME NEW t \in written', t \notin TurnsOf(stored')
                 PROVE  Overlapped(t[2])'
      BY DEF TurnsKept, Overlapped
    <3>1. t \in written /\ t[2] \in Chats /\ t[2] # c
      BY <2>1 DEF History, Written, Turns
    <3>2. CASE t[2] \in chat[c].before
      BY <1>6, <2>1, <2>9, <3>1, <3>2 DEF History, LoadedAll
    <3>3. CASE t[2] \notin chat[c].before
      BY <2>6, <2>9, <2>11, <3>1, <3>3 DEF Overlapped, Apart
    <3> QED BY <3>2, <3>3
  <2> QED BY <2>2, <2>4, <2>8, <2>12, <2>13, <2>3, <2>5 DEF History
<1> QED BY <1>5, <1>6

-----------------------------------------------------------------------------
(* Theorems                                                                *)

\* All parts of the invariant hold in every reachable state of Conversation.
THEOREM Invariance == Spec => []IInv
<1>1. IInv /\ [Next]_vars => IInv'
  <2> SUFFICES ASSUME IInv, [Next]_vars PROVE IInv'
    OBVIOUS
  <2>1. TypeOK'
    BY TypeStep DEF IInv
  <2>2. ASSUME NEW c \in Chats, ChatStep(c)
        PROVE  IInv'
    <3>1. ASSUME NEW op \in {"ChatStream", "RunSaved"}, StartChat(c, op)
          PROVE  IInv'
      BY <2>1, <3>1, StartKeeps
    <3>2. CASE PersistQuestion(c) \/ PersistAnswer(c)
      BY <2>1, <3>2, PersistKeeps
    <3>3. CASE FinishRun(c)
      BY <2>1, <3>3, RunFails, StepsOnlyKeep, AnswerKeeps DEF IInv
    <3>4. CASE RefuseChat(c) \/ ReadTitle(c) \/ SetTitle(c)
      BY <2>1, <3>4, StepsOnlyActions, StepsOnlyKeep DEF IInv
    <3> QED BY <2>2, <3>1, <3>2, <3>3, <3>4 DEF ChatStep
  <2>3. CASE DeleteConversation
    BY <2>1, <2>3, DeleteKeeps
  <2>4. CASE CreateConversation \/ UpdateConversation \/ Crash \/ UNCHANGED vars
    BY <2>1, <2>4, StepsOnlyActions, StepsOnlyKeep DEF IInv
  <2> QED BY <2>2, <2>3, <2>4 DEF Next
<1> QED BY InvInit, <1>1, PTL DEF Spec

\* The row, the transcripts and the chats are well typed, and nothing is kept of a
\* conversation that is not there.
THEOREM TypeCorrect == Spec => []TypeOK
<1>1. IInv => TypeOK BY DEF IInv
<1> QED BY Invariance, <1>1, PTL

\* Persist, of any number of overlapping chats, leaves a dialogue in the row.
THEOREM TranscriptIsPaired == Spec => []TranscriptPaired
<1>1. IInv => TranscriptPaired BY DEF IInv, Dialogues, Dialogue, TranscriptPaired
<1> QED BY Invariance, <1>1, PTL

\* Persist takes away only turns of chats that overlapped with others.
THEOREM TurnsAreKept == Spec => []TurnsKept
<1>1. IInv => TurnsKept BY DEF IInv, History
<1> QED BY Invariance, <1>1, PTL

-----------------------------------------------------------------------------
(* The title                                                               *)

LEMMA TitleKeepsSpec == TitleSpec => Spec
<1>1. TitleInit => Init
  BY DEF TitleInit
<1>2. [TitleNext]_titleVars => [Next]_vars
  BY DEF TitleNext, OwnerNames, Next, titleVars, vars
<1> QED BY <1>1, <1>2, PTL DEF TitleSpec, Spec

\* While the owner's title is there, only goroutines that had looked before are about to
\* replace it.
OnlyOvertaken == title = "owner" => Entitling \subseteq overtaken

\* Of the steps of a chat, only a look at a blank title makes it write one.
LEMMA ChatEntitles ==
    ASSUME TypeOK, NEW c \in Chats, ChatStep(c), title' = "owner"
    PROVE  Entitling' \subseteq Entitling
<1>1. chat \in [Chats -> ChatType]
  BY DEF TypeOK, ChatType
<1>2. \A e \in Chats \ {c} : chat'[e] = chat[e]
  BY <1>1 DEF ChatStep, StartChat, RefuseChat, PersistQuestion, FinishRun, PersistAnswer,
              ReadTitle, SetTitle, Goto
<1>3. chat'[c].pc = "entitle" => ReadTitle(c) /\ title = "blank"
  <2>1. ASSUME NEW step \in ChatSteps, Goto(c, step) PROVE chat'[c].pc = step
    BY <1>1, <2>1, GotoFields
  <2>2. ASSUME NEW op \in {"ChatStream", "RunSaved"}, StartChat(c, op)
        PROVE  chat'[c].pc # "entitle"
    BY <1>1, <2>2 DEF StartChat
  <2>3. CASE RefuseChat(c)
    BY <2>1, <2>3 DEF RefuseChat, ChatSteps
  <2>4. CASE PersistQuestion(c)
    BY <2>1, <2>4 DEF PersistQuestion, ChatSteps
  <2>5. CASE FinishRun(c)
    <3>1. CASE Goto(c, "over")
      BY <2>1, <3>1 DEF ChatSteps
    <3>2. CASE chat' = [chat EXCEPT ![c].pc = "answered",
                                    ![c].turns = Append(@, <<"assistant", c>>)]
      BY <1>1, <3>2 DEF ChatType
    <3> QED BY <2>5, <3>1, <3>2 DEF FinishRun
  <2>6. CASE PersistAnswer(c)
    BY <2>1, <2>6 DEF PersistAnswer, ChatSteps
  <2>7. CASE ReadTitle(c)
    <3>1. CASE title = "blank"
      BY <2>7, <3>1
    <3>2. CASE Goto(c, "over")
      BY <2>1, <3>2 DEF ChatSteps
    <3> QED BY <2>7, <3>1, <3>2 DEF ReadTitle
  <2>8. CASE SetTitle(c)
    BY <2>1, <2>8 DEF SetTitle, ChatSteps
  <2> QED BY <2>2, <2>3, <2>4, <2>5, <2>6, <2>7, <2>8 DEF ChatStep
<1>4. ~(ReadTitle(c) /\ title = "blank")
  BY DEF ReadTitle
<1> QED BY <1>2, <1>3, <1>4 DEF Entitling

\* No step of a chat gives the owner's title.
LEMMA ChatNamesNothing ==
    ASSUME NEW c \in Chats, ChatStep(c), title' = "owner"
    PROVE  title = "owner"
BY DEF ChatStep, StartChat, RefuseChat, PersistQuestion, FinishRun, PersistAnswer, ReadTitle,
       SetTitle, GeneratedTitles

LEMMA OnlyOvertakenStep ==
    TypeOK /\ OnlyOvertaken /\ [TitleNext]_titleVars => OnlyOvertaken'
<1> SUFFICES ASSUME TypeOK, OnlyOvertaken, [TitleNext]_titleVars, title' = "owner"
             PROVE  Entitling' \subseteq overtaken'
  BY DEF OnlyOvertaken
<1>1. CASE OwnerNames /\ overtaken' = IF title' = "owner" THEN Entitling ELSE {}
  <2>1. chat' = chat
    BY <1>1 DEF OwnerNames, CreateConversation, UpdateConversation
  <2> QED BY <1>1, <2>1 DEF Entitling
<1>2. CASE DeleteConversation
  BY <1>2 DEF DeleteConversation
<1>3. ASSUME NEW c \in Chats, ChatStep(c), UNCHANGED overtaken PROVE Entitling' \subseteq overtaken'
  BY <1>3, ChatEntitles, ChatNamesNothing DEF OnlyOvertaken
<1>4. CASE Crash /\ UNCHANGED overtaken
  <2>1. title = "owner" /\ \A c \in Chats : chat'[c].pc = "entitle" => chat[c].pc = "entitle"
    BY <1>4 DEF Crash, TypeOK
  <2> QED BY <1>4, <2>1 DEF Entitling, OnlyOvertaken
<1>5. CASE UNCHANGED titleVars
  BY <1>5 DEF titleVars, Entitling, OnlyOvertaken
<1> QED BY <1>1, <1>2, <1>3, <1>4, <1>5 DEF TitleNext

\* A title that the owner gave is only replaced by a chat that had looked, and found none,
\* before it was given, however many chats there are and wherever they fail.
THEOREM OwnerTitleStays == TitleSpec => OwnerTitleKept
<1>1. TitleInit => OnlyOvertaken
  BY DEF TitleInit, Init, OnlyOvertaken
<1>2. TypeOK /\ OnlyOvertaken /\ [TitleNext]_titleVars => OnlyOvertaken'
  BY OnlyOvertakenStep
<1>3. OnlyOvertaken
         => [\A c \in Chats : SetTitle(c) /\ title = "owner" /\ title' # "owner"
                                 => c \in overtaken]_titleVars
  BY DEF OnlyOvertaken, Entitling, SetTitle
<1> QED BY TitleKeepsSpec, TypeCorrect, <1>1, <1>2, <1>3, PTL DEF TitleSpec, OwnerTitleKept

=============================================================================
