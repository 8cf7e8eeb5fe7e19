--------------------------- MODULE AgentRunProofs ---------------------------
(***************************************************************************)
(* Theorems about AgentRun and RunView for every configured limit, every   *)
(* size of a response and every number of faults.                          *)
(***************************************************************************)
EXTENDS RunView, TLAPS

-----------------------------------------------------------------------------
(* Types                                                                   *)

EventType ==
    [type : {"run.started", "tool.started", "tool.completed", "assistant.delta",
             "run.completed", "run.failed"},
     step : Nat, evidence : SUBSET Nat]

StepType == [ordinal : Nat, type : {"tool.started", "tool.completed"}]

LEMMA TypeInit == Init => TypeOK
<1> SUFFICES ASSUME Init PROVE TypeOK
  OBVIOUS
<1>1. calls \in Seq(CallKinds) /\ steps \in Seq(StepType) /\ stream \in Seq(EventType)
  BY DEF Init
<1>2. faults \in 0 .. MaxFaults
  BY BoundAssumption DEF Init
<1> QED BY <1>1, <1>2 DEF Init, TypeOK, RunSteps, StepType, EventType

\* What a statement does to the counter of faults.
LEMMA FaultsTyped ==
    ASSUME TypeOK, NEW o \in ContextOutcomes \cup Outcomes, Counted(o)
    PROVE  faults' \in 0 .. MaxFaults /\ (faults' = 0 => o \in {"ok", "cancelled"})
BY BoundAssumption DEF TypeOK, ContextOutcomes, Outcomes, Counted

LEMMA EventsTyped ==
    ASSUME TypeOK
    PROVE  /\ \A t \in {"run.started", "assistant.delta", "run.failed"} : Event(t) \in EventType
           /\ \A t \in {"tool.started", "tool.completed"} : ToolEvent(ordinal, t) \in EventType
           /\ CompletedEvent \in EventType
BY DEF TypeOK, Event, ToolEvent, CompletedEvent, EventType

LEMMA EmitTyped ==
    ASSUME TypeOK, NEW e \in EventType, Emit(e)
    PROVE  stream' \in Seq(EventType)
<1>1. stream \in Seq(EventType)
  BY DEF TypeOK, EventType
<1> QED BY <1>1 DEF Emit

LEMMA AddTyped ==
    ASSUME TypeOK, NEW type \in {"tool.started", "tool.completed"},
           NEW next, AddRunStep(type, next)
    PROVE  /\ ordinal' = ordinal + 1 /\ pc' \in {next, "fail"}
           /\ steps' \in Seq(StepType) /\ faults' \in 0 .. MaxFaults
           /\ steps' = steps \/ steps' = Append(steps, Step(ordinal + 1, type))
           /\ pc' = next /\ next # "fail" => steps' = Append(steps, Step(ordinal + 1, type))
<1>1. PICK o \in ContextOutcomes :
         /\ Counted(o)
         /\ steps' = IF Applied(o) THEN Append(steps, Step(ordinal', type)) ELSE steps
         /\ pc' = IF o = "ok" THEN next ELSE "fail"
  BY DEF AddRunStep, Goto
<1>2. ordinal' = ordinal + 1 /\ ordinal + 1 \in Nat
  BY DEF AddRunStep, TypeOK
<1>3. Step(ordinal + 1, type) \in StepType
  BY <1>2 DEF Step, StepType
<1>4. steps \in Seq(StepType)
  BY DEF TypeOK, StepType
<1>5. steps' \in Seq(StepType)
  BY <1>1, <1>2, <1>3, <1>4
<1>6. faults' \in 0 .. MaxFaults
  BY <1>1, FaultsTyped
<1>7. "ok" \in {"ok", "lost"}
  OBVIOUS
<1> QED BY <1>1, <1>2, <1>5, <1>6, <1>7 DEF Applied

LEMMA TypeStep == TypeOK /\ [Next]_vars => TypeOK'
<1> SUFFICES ASSUME TypeOK, [Next]_vars PROVE TypeOK'
  OBVIOUS
<1> USE DEF EventType, StepType
<1>1. CASE CreateRun
  <2>1. PICK o \in ContextOutcomes :
           /\ Counted(o)
           /\ status' = IF Applied(o) THEN "running" ELSE status
           /\ \/ pc' = "setup" /\ Emit(Event("run.started")) /\ UNCHANGED result
              \/ pc' = "returned" /\ result' = "error" /\ UNCHANGED stream
    BY <1>1 DEF CreateRun, Goto
  <2>2. faults' \in 0 .. MaxFaults
    BY <2>1, FaultsTyped
  <2>3. stream' \in Seq(EventType)
    BY <2>1, EventsTyped, EmitTyped DEF TypeOK
  <2> QED BY <1>1, <2>1, <2>2, <2>3 DEF CreateRun, run, TypeOK, RunSteps
<1>2. CASE SetUp
  BY <1>2, StepsAssumption DEF SetUp, Goto, run, TypeOK, RunSteps
<1>3. CASE ModelFails \/ ModelAnswers \/ SearchFails
  BY <1>3 DEF ModelFails, ModelAnswers, SearchFails, Goto, run, TypeOK, RunSteps
<1>4. CASE ModelCallsTools
  <2>1. PICK batch \in Batches :
           \/ pc' = "fail" /\ UNCHANGED calls
           \/ pc' = "call" /\ calls' = batch
    BY <1>4 DEF ModelCallsTools, Goto
  <2>2. PICK n \in 1 .. MaxBatch : batch \in [1 .. n -> CallKinds]
    BY DEF Batches
  <2>3. batch \in Seq(CallKinds) /\ batch # << >>
    BY <2>2, BoundAssumption
  <2> QED BY <1>4, <2>1, <2>3 DEF ModelCallsTools, TypeOK, RunSteps
<1>5. CASE StartCall
  <2>1. pc' \in {"started", "fail"} /\ toolSteps' = toolSteps + 1 /\ ordinal' \in Nat
        /\ steps' \in Seq(StepType) /\ faults' \in 0 .. MaxFaults
    BY <1>5, AddTyped DEF StartCall, TypeOK, Goto
  <2> QED BY <1>5, <2>1 DEF StartCall, TypeOK, RunSteps
<1>6. CASE Search
  BY <1>6 DEF Search, Goto, TypeOK, RunSteps
<1>7. CASE FinishCall
  <2>1. pc' \in {"recorded", "fail"} /\ ordinal' \in Nat
        /\ steps' \in Seq(StepType) /\ faults' \in 0 .. MaxFaults
    BY <1>7, AddTyped DEF FinishCall, TypeOK
  <2>2. calls' \in Seq(CallKinds)
    BY <1>7 DEF FinishCall, TypeOK
  <2> QED BY <1>7, <2>1, <2>2 DEF FinishCall, TypeOK, RunSteps
<1>8. CASE EmitStarted \/ EmitCompleted \/ EmitAnswer
  <2>1. stream' \in Seq(EventType)
    BY <1>8, EventsTyped, EmitTyped DEF EmitStarted, EmitCompleted, EmitAnswer, Announce, EmitFails, TypeOK
  <2>2. pc' \in {"search", "generate", "call", "complete", "fail"} /\ (pc' = "search" => pc = "started")
        /\ (pc' = "call" => calls # << >>)
    BY <1>8 DEF EmitStarted, EmitCompleted, EmitAnswer, Announce, Goto
  <2> QED BY <1>8, <2>1, <2>2 DEF EmitStarted, EmitCompleted, EmitAnswer, Announce, run, TypeOK, RunSteps
<1>9. CASE CompleteRun
  <2>1. PICK o \in Outcomes :
           /\ Counted(o)
           /\ status' = IF Applied(o) THEN "completed" ELSE status
           /\ \/ pc' = "returned" /\ result' = "ok" /\ Emit(CompletedEvent)
              \/ pc' = "fail" /\ UNCHANGED <<result, stream>>
    BY <1>9 DEF CompleteRun, Goto
  <2>2. faults' \in 0 .. MaxFaults
    BY <2>1, FaultsTyped
  <2>3. stream' \in Seq(EventType)
    BY <2>1, EventsTyped, EmitTyped DEF TypeOK
  <2> QED BY <1>9, <2>1, <2>2, <2>3 DEF CompleteRun, run, TypeOK, RunSteps
<1>10. CASE FailRun
  <2>1. PICK o \in Outcomes :
           Counted(o) /\ status' = IF Applied(o) THEN "failed" ELSE status
    BY <1>10 DEF FailRun
  <2>2. faults' \in 0 .. MaxFaults
    BY <2>1, FaultsTyped
  <2>3. stream' \in Seq(EventType) /\ pc' = "returned" /\ result' = "error"
    BY <1>10, EventsTyped, EmitTyped DEF FailRun, Goto
  <2> QED BY <1>10, <2>1, <2>2, <2>3 DEF FailRun, run, TypeOK, RunSteps
<1>11. CASE ClientLeaves \/ DeadlinePasses \/ Crash
  BY <1>11 DEF ClientLeaves, DeadlinePasses, Crash, Goto, run, TypeOK, RunSteps
<1>12. CASE UNCHANGED vars
  BY <1>12 DEF vars, TypeOK
<1> QED BY <1>1, <1>2, <1>3, <1>4, <1>5, <1>6, <1>7, <1>8, <1>9, <1>10, <1>11, <1>12 DEF Next, RunStep

\* Types; and a call that is being executed is there.
THEOREM TypeCorrect == Spec => []TypeOK
BY TypeInit, TypeStep, PTL DEF Spec

-----------------------------------------------------------------------------
(* The budget                                                              *)

Working == {"create", "setup", "generate", "call", "started", "search", "record", "recorded",
            "answer", "complete"}
Kind(i) == IF i % 2 = 1 THEN "tool.started" ELSE "tool.completed"

\* As long as the run goes on, no row is missing, and there are two for each call.
Counting ==
    /\ pc \in Working => Len(steps) = ordinal
    /\ pc \in {"create", "setup"} => toolSteps = 0 /\ ordinal = 0
    /\ pc \in {"generate", "call", "recorded", "answer", "complete"} => ordinal = 2 * toolSteps
    /\ pc \in {"started", "search", "record"} => ordinal = 2 * toolSteps - 1
    /\ pc \in Working \ {"create", "setup"} => limit \in 1 .. 10

BudgetInv == StepsInBudget /\ Counting

LEMMA BudgetInit == Init => BudgetInv
BY DEF Init, BudgetInv, StepsInBudget, Counting

\* The row of the next call, or of its result.
LEMMA BudgetAdd ==
    ASSUME TypeOK, BudgetInv, NEW type \in {"tool.started", "tool.completed"}, NEW next,
           AddRunStep(type, next), Len(steps) = ordinal, type = Kind(ordinal + 1)
    PROVE  /\ \A i \in DOMAIN steps' : steps'[i] = Step(i, Kind(i))
           /\ Len(steps') \in {ordinal, ordinal + 1}
           /\ pc' = next /\ next # "fail" => Len(steps') = ordinal'
<1>1. /\ steps' = steps \/ steps' = Append(steps, Step(ordinal + 1, type))
      /\ pc' = next /\ next # "fail" => steps' = Append(steps, Step(ordinal + 1, type))
      /\ ordinal' = ordinal + 1 /\ ordinal \in Nat /\ steps \in Seq(StepType)
  BY AddTyped DEF TypeOK, StepType
<1>2. \A i \in DOMAIN steps : steps[i] = Step(i, Kind(i))
  BY DEF BudgetInv, StepsInBudget, Kind
<1>3. CASE steps' = Append(steps, Step(ordinal + 1, type))
  <2>1. Len(steps') = ordinal + 1 /\ DOMAIN steps' = 1 .. (ordinal + 1) /\ DOMAIN steps = 1 .. ordinal
    BY <1>1, <1>3
  <2>2. \A i \in 1 .. ordinal : steps'[i] = steps[i]
    BY <1>1, <1>3, <2>1
  <2>3. steps'[ordinal + 1] = Step(ordinal + 1, Kind(ordinal + 1))
    BY <1>1, <1>3, <2>1
  <2>4. \A i \in DOMAIN steps' : i \in 1 .. ordinal \/ i = ordinal + 1
    BY <1>1, <2>1
  <2> QED BY <1>1, <1>2, <2>1, <2>2, <2>3, <2>4
<1>4. CASE steps' = steps
  <2>1. Append(steps, Step(ordinal + 1, type)) # steps
    <3>1. Len(Append(steps, Step(ordinal + 1, type))) = ordinal + 1
      BY <1>1
    <3> QED BY <1>1, <3>1
  <2> QED BY <1>1, <1>2, <1>4, <2>1
<1> QED BY <1>1, <1>3, <1>4

LEMMA BudgetStep == TypeOK /\ BudgetInv /\ [Next]_vars => BudgetInv'
<1> SUFFICES ASSUME TypeOK, BudgetInv, [Next]_vars PROVE BudgetInv'
  OBVIOUS
<1>0. /\ toolSteps \in Nat /\ ordinal \in Nat /\ calls \in Seq(CallKinds) /\ Len(calls) \in Nat
      /\ Len(steps) \in Nat /\ limit \in Int
  BY StepsAssumption DEF TypeOK
<1>1. CASE StartCall
  <2>1. /\ pc = "call" /\ toolSteps' = toolSteps + 1 /\ UNCHANGED <<limit, calls>>
        /\ Len(steps) = ordinal /\ ordinal = 2 * toolSteps /\ limit \in 1 .. 10
        /\ toolSteps + Len(calls) <= limit
    BY <1>1 DEF StartCall, BudgetInv, Counting, StepsInBudget, Working
  <2>2. Len(calls) >= 1
    BY <1>0, <2>1 DEF TypeOK
  <2>3. CASE pc' = "fail" /\ UNCHANGED steps
    BY <1>0, <2>1, <2>3 DEF BudgetInv, Counting, StepsInBudget, Working
  <2>4. CASE AddRunStep("tool.started", "started")
    <3>1. Kind(ordinal + 1) = "tool.started"
      BY <1>0, <2>1 DEF Kind
    <3>2. pc' \in {"started", "fail"} /\ ordinal' = ordinal + 1
      BY <2>4, AddTyped
    <3>3. /\ \A i \in DOMAIN steps' : steps'[i] = Step(i, Kind(i))
          /\ Len(steps') \in {ordinal, ordinal + 1}
          /\ pc' = "started" => Len(steps') = ordinal'
      BY <2>1, <2>4, <3>1, BudgetAdd
    <3>4. StepsInBudget'
      BY <1>0, <2>1, <2>2, <3>2, <3>3 DEF StepsInBudget, Kind
    <3>5. Counting'
      BY <1>0, <2>1, <3>2, <3>3 DEF Counting, Working
    <3> QED BY <3>4, <3>5 DEF BudgetInv
  <2> QED BY <1>1, <2>3, <2>4 DEF StartCall, Goto
<1>2. CASE FinishCall
  <2>1. /\ pc = "record" /\ UNCHANGED <<limit, toolSteps>> /\ calls' = Tail(calls)
        /\ Len(steps) = ordinal /\ ordinal = 2 * toolSteps - 1 /\ limit \in 1 .. 10
        /\ toolSteps + Len(calls) - 1 <= limit
    BY <1>2 DEF FinishCall, BudgetInv, Counting, StepsInBudget, Working
  <2>2. Len(calls) >= 1 /\ Len(calls') = Len(calls) - 1
    BY <1>0, <2>1 DEF TypeOK
  <2>3. Kind(ordinal + 1) = "tool.completed"
    BY <1>0, <2>1 DEF Kind
  <2>4. pc' \in {"recorded", "fail"} /\ ordinal' = ordinal + 1
    BY <1>2, AddTyped DEF FinishCall
  <2>5. /\ \A i \in DOMAIN steps' : steps'[i] = Step(i, Kind(i))
        /\ Len(steps') \in {ordinal, ordinal + 1}
        /\ pc' = "recorded" => Len(steps') = ordinal'
    BY <1>2, <2>1, <2>3, BudgetAdd DEF FinishCall
  <2>6. StepsInBudget'
    BY <1>0, <2>1, <2>2, <2>4, <2>5 DEF StepsInBudget, Kind
  <2>7. Counting'
    BY <1>0, <2>1, <2>4, <2>5 DEF Counting, Working
  <2> QED BY <2>6, <2>7 DEF BudgetInv
<1>3. CASE CreateRun
  <2>1. pc = "create" /\ pc' \in {"setup", "returned"} /\ UNCHANGED <<limit, toolSteps, ordinal, steps, calls>>
    BY <1>3 DEF CreateRun, run, Goto
  <2> QED BY <2>1 DEF BudgetInv, Counting, StepsInBudget, Working
<1>4. CASE SetUp
  <2>1. /\ pc = "setup" /\ pc' \in {"generate", "fail"} /\ UNCHANGED <<toolSteps, ordinal, steps, calls>>
        /\ limit' = IF limit <= 0 THEN 6 ELSE limit
        /\ pc' = "generate" => limit' <= 10
    BY <1>4 DEF SetUp, run, Goto
  <2>2. toolSteps = 0 /\ ordinal = 0 /\ Len(steps) = 0
    BY <2>1 DEF BudgetInv, Counting, Working
  <2> QED BY <1>0, <2>1, <2>2 DEF BudgetInv, Counting, StepsInBudget, Working
<1>5. CASE ModelCallsTools
  <2>1. PICK batch \in Batches :
           \/ pc' = "fail" /\ UNCHANGED calls
           \/ pc' = "call" /\ ~OverBudget(batch) /\ calls' = batch
    BY <1>5 DEF ModelCallsTools, Goto
  <2>2. pc = "generate" /\ UNCHANGED <<limit, toolSteps, ordinal, steps>>
    BY <1>5 DEF ModelCallsTools
  <2>3. Len(batch) \in Nat
    <3>1. PICK n \in 1 .. MaxBatch : batch \in [1 .. n -> CallKinds]
      BY DEF Batches
    <3>2. batch \in Seq(CallKinds)
      BY <3>1, BoundAssumption
    <3> QED BY <3>2
  <2> QED BY <1>0, <2>1, <2>2, <2>3 DEF BudgetInv, Counting, StepsInBudget, Working, OverBudget
<1>6. CASE ModelFails \/ ModelAnswers
  BY <1>6 DEF ModelFails, ModelAnswers, Goto, run, BudgetInv, Counting, StepsInBudget, Working
<1>7. CASE Search \/ SearchFails
  BY <1>7 DEF Search, SearchFails, Goto, run, BudgetInv, Counting, StepsInBudget, Working
<1>8. CASE EmitStarted \/ EmitCompleted \/ EmitAnswer
  <2>1. /\ UNCHANGED <<limit, toolSteps, ordinal, steps, calls>>
        /\ \/ pc = "started" /\ pc' = "search"
           \/ pc = "recorded" /\ pc' \in {"generate", "call"}
           \/ pc = "answer" /\ pc' = "complete"
           \/ pc' = "fail"
    BY <1>8 DEF EmitStarted, EmitCompleted, EmitAnswer, Announce, Goto, run
  <2> QED BY <2>1 DEF BudgetInv, Counting, StepsInBudget, Working
<1>9. CASE CompleteRun \/ FailRun
  <2>1. UNCHANGED <<limit, toolSteps, ordinal, steps, calls>> /\ pc' \in {"fail", "returned"}
    BY <1>9 DEF CompleteRun, FailRun, Goto, run
  <2> QED BY <2>1 DEF BudgetInv, Counting, StepsInBudget, Working
<1>10. CASE ClientLeaves \/ DeadlinePasses \/ Crash
  <2>1. UNCHANGED <<limit, toolSteps, ordinal, steps, calls>> /\ pc' \in {pc, "crashed"}
    BY <1>10 DEF ClientLeaves, DeadlinePasses, Crash, Goto, run
  <2> QED BY <2>1 DEF BudgetInv, Counting, StepsInBudget, Working
<1>11. CASE UNCHANGED vars
  BY <1>11 DEF vars, BudgetInv, Counting, StepsInBudget
<1> QED BY <1>1, <1>2, <1>3, <1>4, <1>5, <1>6, <1>7, <1>8, <1>9, <1>10, <1>11 DEF Next, RunStep

\* The rows of a run are numbered without gaps, starts and completions in turn, and no
\* call is executed beyond the limit, whatever the model asks for and whatever fails.
THEOREM StepsStayInBudget == Spec => []StepsInBudget
<1>1. Init => TypeOK /\ BudgetInv
  BY TypeInit, BudgetInit
<1>2. TypeOK /\ BudgetInv /\ [Next]_vars => (TypeOK /\ BudgetInv)'
  BY TypeStep, BudgetStep
<1>3. BudgetInv => StepsInBudget
  BY DEF BudgetInv
<1> QED BY <1>1, <1>2, <1>3, PTL DEF Spec

-----------------------------------------------------------------------------
(* The end                                                                 *)

\* There is no row before there is a run.
SettledInv == SettledWhenReturned /\ (pc = "create" => status = "none")

LEMMA SettledInit == Init => SettledInv
BY DEF Init, SettledInv, SettledWhenReturned

LEMMA SettledStep == TypeOK /\ SettledInv /\ [Next]_vars => SettledInv'
<1> SUFFICES ASSUME TypeOK, SettledInv, [Next]_vars PROVE SettledInv'
  OBVIOUS
<1>1. CASE CreateRun
  <2>1. PICK o \in ContextOutcomes :
           /\ Counted(o)
           /\ status' = IF Applied(o) THEN "running" ELSE status
           /\ \/ pc' = "setup"
              \/ o # "ok" /\ pc' = "returned" /\ result' = "error"
    BY <1>1 DEF CreateRun, Goto
  <2>2. status = "none" /\ (faults' = 0 => o \in {"ok", "cancelled"})
    BY <1>1, <2>1, FaultsTyped DEF SettledInv, CreateRun
  <2>3. "cancelled" \notin {"ok", "lost"}
    OBVIOUS
  <2> QED BY <2>1, <2>2, <2>3 DEF SettledInv, SettledWhenReturned, Applied
<1>2. CASE CompleteRun
  <2>1. PICK o \in Outcomes :
           /\ status' = IF Applied(o) THEN "completed" ELSE status
           /\ \/ o = "ok" /\ pc' = "returned" /\ result' = "ok"
              \/ pc' = "fail"
    BY <1>2 DEF CompleteRun, Goto
  <2> QED BY <2>1 DEF SettledInv, SettledWhenReturned, Applied
<1>3. CASE FailRun
  <2>1. PICK o \in Outcomes :
           Counted(o) /\ status' = IF Applied(o) THEN "failed" ELSE status
    BY <1>3 DEF FailRun
  <2>2. "cancelled" \notin Outcomes
    BY DEF Outcomes
  <2>3. faults' = 0 => o = "ok"
    BY <2>1, <2>2, FaultsTyped
  <2>4. pc' = "returned" /\ result' = "error"
    BY <1>3 DEF FailRun, Goto
  <2> QED BY <2>1, <2>3, <2>4 DEF SettledInv, SettledWhenReturned, Applied
<1>4. ASSUME pc' \notin {"create", "returned"} PROVE SettledInv'
  BY <1>4 DEF SettledInv, SettledWhenReturned
<1>5. CASE \/ SetUp \/ ModelFails \/ ModelAnswers \/ ModelCallsTools \/ Search \/ SearchFails
           \/ EmitStarted \/ EmitCompleted \/ EmitAnswer \/ Crash
  BY <1>4, <1>5 DEF SetUp, ModelFails, ModelAnswers, ModelCallsTools, Search, SearchFails,
     EmitStarted, EmitCompleted, EmitAnswer, Announce, Crash, Goto
<1>6. CASE StartCall \/ FinishCall
  BY <1>4, <1>6, AddTyped DEF StartCall, FinishCall, Goto
<1>7. CASE ClientLeaves \/ DeadlinePasses \/ UNCHANGED vars
  BY <1>7 DEF ClientLeaves, DeadlinePasses, vars, SettledInv, SettledWhenReturned
<1> QED BY <1>1, <1>2, <1>3, <1>5, <1>6, <1>7 DEF Next, RunStep

\* A caller that is told that its run succeeded finds it completed, and one that is told
\* that it did not finds it failed or absent unless a statement went wrong.
THEOREM SettledAtTheEnd == Spec => []SettledWhenReturned
<1>1. Init => TypeOK /\ SettledInv
  BY TypeInit, SettledInit
<1>2. TypeOK /\ SettledInv /\ [Next]_vars => (TypeOK /\ SettledInv)'
  BY TypeStep, SettledStep
<1>3. SettledInv => SettledWhenReturned
  BY DEF SettledInv
<1> QED BY <1>1, <1>2, <1>3, PTL DEF Spec

-----------------------------------------------------------------------------
(* The stream and the rows                                                 *)

ToolEvents == {"tool.started", "tool.completed"}
Evidence   == {s.ordinal - 1 : s \in {t \in Recorded : t.type = "tool.completed"}}

\* What has been collected is what is recorded as completed, but for the search that is
\* about to be recorded; the row of the last call is there; and the end is announced
\* last.
Collecting ==
    /\ pc \in Working \ {"record"} => evidence = Evidence
    /\ pc = "record" => evidence = Evidence \cup {ordinal}
    /\ pc = "started" => Step(ordinal, "tool.started") \in Recorded
    /\ pc = "recorded" => Step(ordinal, "tool.completed") \in Recorded
    /\ (\E e \in Received : e.type = "run.completed") => pc = "returned"

BackedInv == StreamBacked /\ Collecting

LEMMA BackedInit == Init => BackedInv
<1> SUFFICES ASSUME Init PROVE BackedInv
  OBVIOUS
<1>1. Recorded = {} /\ Received = {} /\ evidence = {} /\ pc = "create"
  BY DEF Init, Recorded, Received
<1>2. Evidence = {}
  BY <1>1 DEF Evidence
<1> QED BY <1>1, <1>2 DEF BackedInv, StreamBacked, Collecting

\* The client receives e or nothing.
LEMMA ReceivedGrows ==
    ASSUME TypeOK, NEW e, Emit(e)
    PROVE  Received' = Received \/ Received' = Received \cup {e}
<1>1. stream \in Seq(EventType)
  BY DEF TypeOK, EventType
<1>2. CASE stream' = stream
  BY <1>2 DEF Received
<1>3. CASE stream' = Append(stream, e)
  <2>1. /\ DOMAIN stream = 1 .. Len(stream) /\ DOMAIN stream' = 1 .. (Len(stream) + 1)
        /\ Len(stream) \in Nat
        /\ stream'[Len(stream) + 1] = e /\ \A i \in 1 .. Len(stream) : stream'[i] = stream[i]
    BY <1>1, <1>3
  <2>2. \A x : x \in {stream'[i] : i \in DOMAIN stream'} <=>
                  x \in {stream[i] : i \in DOMAIN stream} \/ x = e
    <3> SUFFICES ASSUME NEW x
                 PROVE  (\E i \in DOMAIN stream' : x = stream'[i]) <=>
                            (\E i \in DOMAIN stream : x = stream[i]) \/ x = e
      OBVIOUS
    <3>1. \A i \in DOMAIN stream' : i \in DOMAIN stream \/ i = Len(stream) + 1
      BY <2>1
    <3>2. \A i \in DOMAIN stream : i \in DOMAIN stream'
      BY <2>1
    <3>3. Len(stream) + 1 \in DOMAIN stream'
      BY <2>1
    <3> QED BY <2>1, <3>1, <3>2, <3>3
  <2> QED BY <2>2 DEF Received
<1> QED BY <1>2, <1>3 DEF Emit

\* A row is added, or not.
LEMMA RecordedGrows ==
    ASSUME TypeOK, NEW type \in ToolEvents, NEW next, AddRunStep(type, next)
    PROVE  /\ \/ Recorded' = Recorded
              \/ Recorded' = Recorded \cup {Step(ordinal + 1, type)}
           /\ pc' = next /\ next # "fail" => Recorded' = Recorded \cup {Step(ordinal + 1, type)}
<1> DEFINE s == Step(ordinal + 1, type)
<1>1. /\ steps' = steps \/ steps' = Append(steps, s)
      /\ pc' = next /\ next # "fail" => steps' = Append(steps, s)
      /\ steps \in Seq(StepType)
  BY AddTyped DEF TypeOK, StepType, ToolEvents
<1> HIDE DEF s
<1>2. steps' = steps => Recorded' = Recorded
  BY DEF Recorded
<1>3. ASSUME steps' = Append(steps, s) PROVE Recorded' = Recorded \cup {s}
  <2>1. /\ DOMAIN steps = 1 .. Len(steps) /\ DOMAIN steps' = 1 .. (Len(steps) + 1)
        /\ Len(steps) \in Nat
        /\ steps'[Len(steps) + 1] = s /\ \A i \in 1 .. Len(steps) : steps'[i] = steps[i]
    BY <1>1, <1>3
  <2>2. \A x : x \in {steps'[i] : i \in DOMAIN steps'} <=>
                  x \in {steps[i] : i \in DOMAIN steps} \/ x = s
    <3> SUFFICES ASSUME NEW x
                 PROVE  (\E i \in DOMAIN steps' : x = steps'[i]) <=>
                            (\E i \in DOMAIN steps : x = steps[i]) \/ x = s
      OBVIOUS
    <3>1. \A i \in DOMAIN steps' : i \in DOMAIN steps \/ i = Len(steps) + 1
      BY <2>1
    <3>2. \A i \in DOMAIN steps : i \in DOMAIN steps'
      BY <2>1
    <3>3. Len(steps) + 1 \in DOMAIN steps'
      BY <2>1
    <3> QED BY <2>1, <3>1, <3>2, <3>3
  <2> QED BY <2>2 DEF Recorded
<1> QED BY <1>1, <1>2, <1>3 DEF s

\* A row of a start changes no evidence; one of a completion adds the ordinal before it.
LEMMA EvidenceGrows ==
    ASSUME TypeOK, NEW type \in ToolEvents, Recorded' = Recorded \cup {Step(ordinal + 1, type)}
    PROVE  Evidence' = IF type = "tool.started" THEN Evidence ELSE Evidence \cup {ordinal}
<1>1. /\ Step(ordinal + 1, type).type = type
      /\ Step(ordinal + 1, type).ordinal - 1 = ordinal
  BY DEF Step, TypeOK
<1>2. CASE type = "tool.started"
  <2>1. {t \in Recorded' : t.type = "tool.completed"} = {t \in Recorded : t.type = "tool.completed"}
    BY <1>1, <1>2
  <2> QED BY <1>2, <2>1 DEF Evidence
<1>3. CASE type = "tool.completed"
  <2>1. {t \in Recorded' : t.type = "tool.completed"}
            = {t \in Recorded : t.type = "tool.completed"} \cup {Step(ordinal + 1, type)}
    BY <1>1, <1>3
  <2> QED BY <1>1, <1>3, <2>1 DEF Evidence
<1> QED BY <1>2, <1>3 DEF ToolEvents

\* A step that writes no row and sends no event about rows.
LEMMA BackedKept ==
    ASSUME TypeOK, BackedInv, UNCHANGED <<steps, evidence>>, pc \in Working \cup {"fail"},
           \/ UNCHANGED stream
           \/ \E e \in {Event("run.started"), Event("assistant.delta"), Event("run.failed")} : Emit(e),
           pc' \in Working => pc \in Working /\ (pc' = "record" <=> pc = "record"),
           pc' = "started" => pc = "started",
           pc' = "recorded" => pc = "recorded",
           UNCHANGED ordinal \/ pc' = "fail"
    PROVE  BackedInv'
<1>1. \A e \in Received : e.type # "run.completed"
  BY DEF BackedInv, Collecting, Working
<1>2. \A e \in Received' : e \in Received \/ e.type \in {"run.started", "assistant.delta", "run.failed"}
  <2>1. CASE UNCHANGED stream
    BY <2>1 DEF Received
  <2>2. ASSUME NEW e \in {Event("run.started"), Event("assistant.delta"), Event("run.failed")}, Emit(e)
        PROVE  \A f \in Received' : f \in Received \/ f.type \in {"run.started", "assistant.delta", "run.failed"}
    BY <2>2, ReceivedGrows DEF Event
  <2> QED BY <2>1, <2>2
<1>3. Recorded' = Recorded /\ Evidence' = Evidence
  BY DEF Recorded, Evidence
<1>4. StreamBacked'
  BY <1>1, <1>2, <1>3 DEF BackedInv, StreamBacked
<1>5. Collecting'
  BY <1>1, <1>2, <1>3 DEF BackedInv, Collecting, Working
<1> QED BY <1>4, <1>5 DEF BackedInv

LEMMA BackedCall ==
    ASSUME TypeOK, BackedInv, StartCall
    PROVE  BackedInv'
<1>0. pc = "call" /\ evidence = Evidence /\ UNCHANGED <<evidence, stream>>
  BY DEF StartCall, BackedInv, Collecting, Working
<1>1. CASE pc' = "fail" /\ UNCHANGED steps
  BY <1>0, <1>1, BackedKept DEF Working
<1>2. CASE AddRunStep("tool.started", "started")
  <2>1. pc' \in {"started", "fail"} /\ ordinal' = ordinal + 1
    BY <1>2, AddTyped
  <2>2. /\ Recorded' = Recorded \/ Recorded' = Recorded \cup {Step(ordinal + 1, "tool.started")}
        /\ pc' = "started" => Recorded' = Recorded \cup {Step(ordinal + 1, "tool.started")}
    BY <1>2, RecordedGrows DEF ToolEvents
  <2>3. Received' = Received
    BY <1>0 DEF Received
  <2>4. Evidence' = Evidence
    <3>1. Recorded' = Recorded => Evidence' = Evidence
      BY DEF Evidence
    <3> QED BY <2>2, <3>1, EvidenceGrows DEF ToolEvents
  <2>5. \A e \in Received : e.type # "run.completed"
    BY <1>0 DEF BackedInv, Collecting
  <2>6. StreamBacked'
    BY <2>2, <2>3, <2>5 DEF BackedInv, StreamBacked
  <2>7. Collecting'
    BY <1>0, <2>1, <2>2, <2>3, <2>4, <2>5 DEF Collecting, Working
  <2> QED BY <2>6, <2>7 DEF BackedInv
<1> QED BY <1>1, <1>2 DEF StartCall, Goto

LEMMA BackedFinish ==
    ASSUME TypeOK, BackedInv, FinishCall
    PROVE  BackedInv'
<1>0. pc = "record" /\ evidence = Evidence \cup {ordinal} /\ UNCHANGED <<evidence, stream>>
  BY DEF FinishCall, BackedInv, Collecting, Working
<1>1. AddRunStep("tool.completed", "recorded")
  BY DEF FinishCall
<1>2. pc' \in {"recorded", "fail"} /\ ordinal' = ordinal + 1
  BY <1>1, AddTyped
<1>3. /\ Recorded' = Recorded \/ Recorded' = Recorded \cup {Step(ordinal + 1, "tool.completed")}
      /\ pc' = "recorded" => Recorded' = Recorded \cup {Step(ordinal + 1, "tool.completed")}
  BY <1>1, RecordedGrows DEF ToolEvents
<1>4. Received' = Received
  BY <1>0 DEF Received
<1>5. pc' = "recorded" => Evidence' = Evidence \cup {ordinal}
  BY <1>3, EvidenceGrows DEF ToolEvents
<1>6. \A e \in Received : e.type # "run.completed"
  BY <1>0 DEF BackedInv, Collecting
<1>7. StreamBacked'
  BY <1>3, <1>4, <1>6 DEF BackedInv, StreamBacked
<1>8. Collecting'
  BY <1>0, <1>2, <1>3, <1>4, <1>5, <1>6 DEF Collecting, Working
<1> QED BY <1>7, <1>8 DEF BackedInv

\* An event about a call: its row is there.
LEMMA BackedAnnounce ==
    ASSUME TypeOK, BackedInv, NEW type \in ToolEvents, Emit(ToolEvent(ordinal, type)),
           Step(ordinal, type) \in Recorded, pc \in {"started", "recorded"},
           pc' \in {"search", "generate", "call"}, UNCHANGED <<steps, evidence, ordinal>>
    PROVE  BackedInv'
<1> DEFINE e == ToolEvent(ordinal, type)
<1>1. e.type = type /\ e.step = ordinal /\ type # "run.completed"
  BY DEF ToolEvent, ToolEvents
<1>2. Received' = Received \/ Received' = Received \cup {e}
  BY ReceivedGrows
<1> HIDE DEF e
<1>3. Recorded' = Recorded /\ Evidence' = Evidence
  BY DEF Recorded, Evidence
<1>4. \A f \in Received : f.type # "run.completed"
  BY DEF BackedInv, Collecting
<1>5. StreamBacked'
  BY <1>1, <1>2, <1>3, <1>4 DEF BackedInv, StreamBacked
<1>6. Collecting'
  BY <1>1, <1>2, <1>3, <1>4 DEF BackedInv, Collecting, Working
<1> QED BY <1>5, <1>6 DEF BackedInv

LEMMA BackedComplete ==
    ASSUME TypeOK, BackedInv, CompleteRun
    PROVE  BackedInv'
<1>0. pc = "complete" /\ evidence = Evidence /\ UNCHANGED <<steps, evidence, ordinal>>
  BY DEF CompleteRun, run, BackedInv, Collecting, Working
<1>1. CASE pc' = "fail" /\ UNCHANGED stream
  BY <1>0, <1>1, BackedKept DEF Working
<1>2. CASE status' = "completed" /\ pc' = "returned" /\ Emit(CompletedEvent)
  <2>1. Received' = Received \/ Received' = Received \cup {CompletedEvent}
    BY <1>2, ReceivedGrows
  <2>2. CompletedEvent.type = "run.completed" /\ CompletedEvent.evidence = evidence
    BY DEF CompletedEvent
  <2>3. Recorded' = Recorded /\ Evidence' = Evidence
    BY <1>0 DEF Recorded, Evidence
  <2>4. \A f \in Received : f.type # "run.completed"
    BY <1>0 DEF BackedInv, Collecting
  <2> HIDE DEF CompletedEvent
  <2>5. StreamBacked'
    BY <1>0, <1>2, <2>1, <2>2, <2>3, <2>4 DEF BackedInv, StreamBacked, Evidence
  <2>6. Collecting'
    BY <1>2 DEF Collecting, Working
  <2> QED BY <2>5, <2>6 DEF BackedInv
<1> QED BY <1>1, <1>2 DEF CompleteRun, Goto, Applied

LEMMA BackedStep == TypeOK /\ BackedInv /\ [Next]_vars => BackedInv'
<1> SUFFICES ASSUME TypeOK, BackedInv, [Next]_vars PROVE BackedInv'
  OBVIOUS
<1>1. CASE CreateRun
  <2>1. /\ pc = "create" /\ pc' \in {"setup", "returned"} /\ UNCHANGED <<steps, evidence, ordinal>>
        /\ Emit(Event("run.started")) \/ UNCHANGED stream
    BY <1>1 DEF CreateRun, run, Goto
  <2> QED BY <2>1, BackedKept DEF Working
<1>2. CASE SetUp \/ ModelFails \/ ModelAnswers \/ ModelCallsTools \/ SearchFails
  <2>1. /\ pc \in {"setup", "generate", "search"} /\ pc' \in {"generate", "answer", "call", "fail"}
        /\ UNCHANGED <<steps, evidence, ordinal, stream>>
    BY <1>2 DEF SetUp, ModelFails, ModelAnswers, ModelCallsTools, SearchFails, run, Goto
  <2> QED BY <2>1, BackedKept DEF Working
<1>3. CASE Search
  <2>1. /\ pc = "search" /\ pc' = "record" /\ evidence' = evidence \cup {ordinal}
        /\ UNCHANGED <<steps, ordinal, stream>>
    BY <1>3 DEF Search, Goto
  <2>2. Recorded' = Recorded /\ Evidence' = Evidence /\ Received' = Received
    BY <2>1 DEF Recorded, Evidence, Received
  <2>3. \A f \in Received : f.type # "run.completed"
    BY <2>1 DEF BackedInv, Collecting
  <2>4. StreamBacked'
    BY <2>2, <2>3 DEF BackedInv, StreamBacked
  <2>5. Collecting'
    BY <2>1, <2>2, <2>3 DEF BackedInv, Collecting, Working
  <2> QED BY <2>4, <2>5 DEF BackedInv
<1>4. CASE EmitStarted
  <2>1. pc = "started" /\ UNCHANGED <<steps, evidence, ordinal>>
    BY <1>4 DEF EmitStarted, Announce, run
  <2>2. Step(ordinal, "tool.started") \in Recorded
    BY <2>1 DEF BackedInv, Collecting
  <2>3. \/ Emit(ToolEvent(ordinal, "tool.started")) /\ pc' = "search"
        \/ UNCHANGED stream /\ pc' = "fail"
    BY <1>4 DEF EmitStarted, Announce, EmitFails, Goto
  <2> QED BY <2>1, <2>2, <2>3, BackedAnnounce, BackedKept DEF Working, ToolEvents
<1>5. CASE EmitCompleted
  <2>1. pc = "recorded" /\ UNCHANGED <<steps, evidence, ordinal>>
    BY <1>5 DEF EmitCompleted, Announce, run
  <2>2. Step(ordinal, "tool.completed") \in Recorded
    BY <2>1 DEF BackedInv, Collecting
  <2>3. \/ Emit(ToolEvent(ordinal, "tool.completed")) /\ pc' \in {"generate", "call"}
        \/ UNCHANGED stream /\ pc' = "fail"
    BY <1>5 DEF EmitCompleted, Announce, EmitFails, Goto
  <2> QED BY <2>1, <2>2, <2>3, BackedAnnounce, BackedKept DEF Working, ToolEvents
<1>6. CASE EmitAnswer \/ FailRun
  <2>1. /\ pc \in {"answer", "fail"} /\ pc' \in {"complete", "fail", "returned"}
        /\ pc' = "complete" => pc = "answer"
        /\ UNCHANGED <<steps, evidence, ordinal>>
        /\ Emit(Event("assistant.delta")) \/ Emit(Event("run.failed")) \/ UNCHANGED stream
    BY <1>6 DEF EmitAnswer, Announce, EmitFails, FailRun, Goto, run
  <2> QED BY <2>1, BackedKept DEF Working
<1>7. CASE ClientLeaves \/ DeadlinePasses \/ Crash
  <2>1. /\ pc \notin {"returned", "crashed"} /\ pc' \in {pc, "crashed"}
        /\ UNCHANGED <<steps, evidence, ordinal, stream>>
    BY <1>7 DEF ClientLeaves, DeadlinePasses, Crash, Over, Goto, run
  <2>2. pc \in Working \cup {"fail"}
    BY <2>1 DEF TypeOK, RunSteps, Working
  <2>3. "crashed" \notin Working
    BY DEF Working
  <2> QED BY <2>1, <2>2, <2>3, BackedKept
<1>8. CASE UNCHANGED vars
  BY <1>8 DEF vars, BackedInv, StreamBacked, Collecting, Received, Recorded, Evidence
<1> QED BY <1>1, <1>2, <1>3, <1>4, <1>5, <1>6, <1>7, <1>8, BackedCall, BackedFinish, BackedComplete
        DEF Next, RunStep

\* What the client has been told of a run is in the database, and the end that it is told
\* comes with the evidence of exactly the searches that are recorded.
THEOREM StreamIsBacked == Spec => []StreamBacked
<1>1. Init => TypeOK /\ BackedInv
  BY TypeInit, BackedInit
<1>2. TypeOK /\ BackedInv /\ [Next]_vars => (TypeOK /\ BackedInv)'
  BY TypeStep, BackedStep
<1>3. BackedInv => StreamBacked
  BY DEF BackedInv
<1> QED BY <1>1, <1>2, <1>3, PTL DEF Spec

-----------------------------------------------------------------------------
(* The order of events                                                     *)

Latest == stream[Len(stream)]

\* What a client that is there has received last.
Orderly ==
    client = "there" =>
        /\ pc = "create" => stream = << >>
        /\ pc \in (Working \ {"create"}) \cup {"fail"} => stream # << >>
        /\ pc \in {"setup", "generate", "call", "started", "answer"} =>
              Latest.type \in {"run.started", "tool.completed"}
        /\ pc \in {"search", "record"} => Latest = ToolEvent(ordinal, "tool.started")
        /\ pc = "recorded" => Latest = ToolEvent(ordinal - 1, "tool.started")
        /\ pc = "complete" => Latest.type = "assistant.delta"
        /\ pc = "fail" => Latest.type \notin {"run.completed", "run.failed"}

OrderInv == StreamInOrder /\ Orderly

LEMMA OrderInit == Init => OrderInv
BY DEF Init, OrderInv, StreamInOrder, Orderly, Working

\* A client that is there receives e, which may follow what it has received.
LEMMA OrderEmit ==
    ASSUME TypeOK, StreamInOrder, client = "there", NEW e, Emit(e),
           stream = << >> => e.type = "run.started",
           stream # << >> => MayFollow(Latest, e)
    PROVE  StreamInOrder' /\ stream' # << >> /\ Latest' = e
<1>1. stream \in Seq(EventType)
  BY DEF TypeOK, EventType
<1>2. /\ Len(stream) \in Nat /\ DOMAIN stream = 1 .. Len(stream)
      /\ DOMAIN stream' = 1 .. (Len(stream) + 1) /\ Len(stream') = Len(stream) + 1
      /\ stream'[Len(stream) + 1] = e /\ \A i \in 1 .. Len(stream) : stream'[i] = stream[i]
  BY <1>1 DEF Emit
<1>3. stream' # << >> /\ Latest' = e
  BY <1>2 DEF Latest
<1>4. stream'[1].type = "run.started"
  <2>1. CASE stream = << >>
    <3>1. Len(stream) = 0
      BY <2>1
    <3> QED BY <1>2, <2>1, <3>1
  <2>2. CASE stream # << >>
    <3>1. 1 \in 1 .. Len(stream)
      BY <1>1, <2>2
    <3> QED BY <1>2, <2>2, <3>1 DEF StreamInOrder
  <2> QED BY <2>1, <2>2
<1>5. ASSUME NEW i \in DOMAIN stream', i > 1
      PROVE  MayFollow(stream'[i - 1], stream'[i])
  <2>1. CASE i \in 1 .. Len(stream)
    <3>1. i - 1 \in 1 .. Len(stream)
      BY <1>2, <1>5, <2>1
    <3>2. stream'[i] = stream[i] /\ stream'[i - 1] = stream[i - 1]
      BY <1>2, <2>1, <3>1
    <3>3. MayFollow(stream[i - 1], stream[i])
      BY <1>2, <1>5, <2>1 DEF StreamInOrder
    <3> QED BY <3>2, <3>3
  <2>2. CASE i = Len(stream) + 1
    <3>1. i - 1 = Len(stream) /\ Len(stream) \in 1 .. Len(stream) /\ stream # << >>
      BY <1>1, <1>2, <1>5, <2>2
    <3>2. stream'[i] = e /\ stream'[i - 1] = Latest
      BY <1>2, <2>2, <3>1 DEF Latest
    <3> QED BY <3>1, <3>2
  <2> QED BY <1>2, <1>5, <2>1, <2>2
<1> QED BY <1>3, <1>4, <1>5 DEF StreamInOrder

\* Steps that send nothing.
LEMMA OrderSilent ==
    ASSUME TypeOK, OrderInv, UNCHANGED stream,
           client' = "there" => client = "there",
           client' = "there" =>
               /\ pc' = "create" => pc = "create"
               /\ pc' \in (Working \ {"create"}) \cup {"fail"} => stream # << >>
               /\ pc' \in {"setup", "generate", "call", "started", "answer"} =>
                     Latest.type \in {"run.started", "tool.completed"}
               /\ pc' \in {"search", "record"} => Latest = ToolEvent(ordinal', "tool.started")
               /\ pc' = "recorded" => Latest = ToolEvent(ordinal' - 1, "tool.started")
               /\ pc' = "complete" => Latest.type = "assistant.delta"
               /\ pc' = "fail" => Latest.type \notin {"run.completed", "run.failed"}
    PROVE  OrderInv'
<1>1. StreamInOrder' /\ Latest' = Latest
  BY DEF OrderInv, StreamInOrder, Latest
<1>2. ToolEvent(ordinal, "tool.started")' = ToolEvent(ordinal', "tool.started")
      /\ ToolEvent(ordinal - 1, "tool.started")' = ToolEvent(ordinal' - 1, "tool.started")
  BY DEF ToolEvent
<1>3. pc = "create" /\ client = "there" => stream = << >>
  BY DEF OrderInv, Orderly
<1>4. Orderly'
  BY <1>1, <1>2, <1>3 DEF Orderly
<1> QED BY <1>1, <1>4 DEF OrderInv

\* An event is sent, to a client that is there or not.
LEMMA OrderSends ==
    ASSUME TypeOK, OrderInv, NEW e, Emit(e), UNCHANGED client, pc \in Working \cup {"fail"},
           client = "there" =>
               /\ stream = << >> => e.type = "run.started"
               /\ stream # << >> => MayFollow(Latest, e),
           pc' \notin {"create", "started", "answer", "record", "recorded", "fail"},
           pc' \in {"setup", "generate", "call"} => e.type \in {"run.started", "tool.completed"},
           pc' = "search" => e = ToolEvent(ordinal', "tool.started"),
           pc' = "complete" => e.type = "assistant.delta"
    PROVE  OrderInv'
<1>1. CASE client = "there"
  <2>1. StreamInOrder' /\ stream' # << >> /\ Latest' = e
    BY <1>1, OrderEmit DEF OrderInv
  <2>2. ToolEvent(ordinal, "tool.started")' = ToolEvent(ordinal', "tool.started")
    BY DEF ToolEvent
  <2>3. Orderly'
    BY <2>1, <2>2 DEF Orderly
  <2> QED BY <2>1, <2>3 DEF OrderInv
<1>2. CASE client # "there"
  BY <1>2 DEF Emit, OrderInv, StreamInOrder, Orderly
<1> QED BY <1>1, <1>2

LEMMA OrderCalls ==
    ASSUME TypeOK, OrderInv, StartCall \/ Search \/ FinishCall
    PROVE  OrderInv'
<1>1. UNCHANGED <<client, stream>>
  BY DEF StartCall, Search, FinishCall
<1>2. CASE StartCall
  <2>1. pc = "call" /\ pc' \in {"started", "fail"}
    BY <1>2, AddTyped DEF StartCall, Goto
  <2> QED BY <1>1, <2>1, OrderSilent DEF OrderInv, Orderly, Working
<1>3. CASE Search
  <2>1. pc = "search" /\ pc' = "record" /\ UNCHANGED ordinal
    BY <1>3 DEF Search, Goto
  <2> QED BY <1>1, <2>1, OrderSilent DEF OrderInv, Orderly, Working
<1>4. CASE FinishCall
  <2>1. pc = "record" /\ pc' \in {"recorded", "fail"} /\ ordinal' - 1 = ordinal
    BY <1>4, AddTyped DEF FinishCall, TypeOK
  <2>2. ToolEvent(ordinal, "tool.started").type = "tool.started"
    BY DEF ToolEvent
  <2> QED BY <1>1, <2>1, <2>2, OrderSilent DEF OrderInv, Orderly, Working
<1> QED BY <1>2, <1>3, <1>4

LEMMA OrderAnnounce ==
    ASSUME TypeOK, OrderInv, EmitStarted \/ EmitCompleted \/ EmitAnswer
    PROVE  OrderInv'
<1>1. UNCHANGED <<client, ordinal>> /\ pc \in {"started", "recorded", "answer"}
  BY DEF EmitStarted, EmitCompleted, EmitAnswer, Announce, run
<1>2. CASE EmitFails /\ pc' = "fail"
  BY <1>1, <1>2, OrderSilent DEF EmitFails
<1>3. ordinal \in Nat
  BY DEF TypeOK
<1>4. CASE pc = "started" /\ Emit(ToolEvent(ordinal, "tool.started")) /\ pc' = "search"
  <2>1. ToolEvent(ordinal, "tool.started").type = "tool.started"
    BY DEF ToolEvent
  <2>2. client = "there" => stream # << >> /\ Latest.type \in {"run.started", "tool.completed"}
    BY <1>4 DEF OrderInv, Orderly, Working
  <2> QED BY <1>1, <1>4, <2>1, <2>2, OrderSends DEF MayFollow, Working
<1>5. CASE /\ pc = "recorded" /\ Emit(ToolEvent(ordinal, "tool.completed"))
           /\ pc' \in {"generate", "call"}
  <2> DEFINE e == ToolEvent(ordinal, "tool.completed")
  <2>1. e.type = "tool.completed"
    BY DEF ToolEvent
  <2>2. client = "there" => stream # << >> /\ Latest = ToolEvent(ordinal - 1, "tool.started")
    BY <1>5 DEF OrderInv, Orderly, Working
  <2>3. MayFollow(ToolEvent(ordinal - 1, "tool.started"), e)
    <3>1. /\ ToolEvent(ordinal - 1, "tool.started").type = "tool.started"
          /\ ToolEvent(ordinal - 1, "tool.started").step + 1 = ordinal
      BY <1>3 DEF ToolEvent
    <3> QED BY <3>1 DEF MayFollow
  <2>4. Emit(e)
    BY <1>5
  <2> HIDE DEF e
  <2> QED BY <1>1, <1>5, <2>1, <2>2, <2>3, <2>4, OrderSends DEF Working
<1>6. CASE pc = "answer" /\ Emit(Event("assistant.delta")) /\ pc' = "complete"
  <2>1. Event("assistant.delta").type = "assistant.delta"
    BY DEF Event
  <2>2. client = "there" => stream # << >> /\ Latest.type \in {"run.started", "tool.completed"}
    BY <1>6 DEF OrderInv, Orderly, Working
  <2> QED BY <1>1, <1>6, <2>1, <2>2, OrderSends DEF MayFollow, Working
<1> QED BY <1>2, <1>4, <1>5, <1>6 DEF EmitStarted, EmitCompleted, EmitAnswer, Announce, Goto

LEMMA OrderEnds ==
    ASSUME TypeOK, OrderInv, CompleteRun \/ FailRun
    PROVE  OrderInv'
<1>1. UNCHANGED client
  BY DEF CompleteRun, FailRun
<1>2. CASE pc = "complete" /\ Emit(CompletedEvent) /\ pc' = "returned"
  <2>1. CompletedEvent.type = "run.completed"
    BY DEF CompletedEvent
  <2>2. client = "there" => stream # << >> /\ Latest.type = "assistant.delta"
    BY <1>2 DEF OrderInv, Orderly, Working
  <2> QED BY <1>1, <1>2, <2>1, <2>2, OrderSends DEF MayFollow, Working
<1>3. CASE pc = "complete" /\ UNCHANGED stream /\ pc' = "fail"
  BY <1>1, <1>3, OrderSilent DEF OrderInv, Orderly, Working
<1>4. CASE pc = "fail" /\ Emit(Event("run.failed")) /\ pc' = "returned"
  <2>1. Event("run.failed").type = "run.failed"
    BY DEF Event
  <2>2. client = "there" => stream # << >> /\ Latest.type \notin {"run.completed", "run.failed"}
    BY <1>4 DEF OrderInv, Orderly
  <2>3. client = "there" => Latest.type \in {"run.started", "tool.started", "tool.completed", "assistant.delta"}
    <3>1. stream # << >> => Latest \in EventType
      <4>1. stream \in Seq(EventType)
        BY DEF TypeOK, EventType
      <4>2. stream # << >> => Len(stream) \in DOMAIN stream
        BY <4>1
      <4> QED BY <4>1, <4>2 DEF Latest
    <3> QED BY <2>2, <3>1 DEF EventType
  <2>4. client = "there" => MayFollow(Latest, Event("run.failed"))
    BY <2>1, <2>3 DEF MayFollow
  <2> QED BY <1>1, <1>4, <2>1, <2>2, <2>4, OrderSends
<1> QED BY <1>2, <1>3, <1>4 DEF CompleteRun, FailRun, Goto

LEMMA OrderStep == TypeOK /\ OrderInv /\ [Next]_vars => OrderInv'
<1> SUFFICES ASSUME TypeOK, OrderInv, [Next]_vars PROVE OrderInv'
  OBVIOUS
<1>1. CASE CreateRun
  <2>1. /\ pc = "create" /\ UNCHANGED client
        /\ \/ pc' = "setup" /\ Emit(Event("run.started"))
           \/ pc' = "returned" /\ UNCHANGED stream
    BY <1>1 DEF CreateRun, Goto
  <2>2. Event("run.started").type = "run.started"
    BY DEF Event
  <2>3. client = "there" => stream = << >>
    BY <2>1 DEF OrderInv, Orderly
  <2>4. CASE pc' = "setup" /\ Emit(Event("run.started"))
    BY <2>1, <2>2, <2>3, <2>4, OrderSends DEF Working
  <2>5. CASE pc' = "returned" /\ UNCHANGED stream
    BY <2>1, <2>5, OrderSilent DEF Working
  <2> QED BY <2>1, <2>4, <2>5
<1>2. CASE SetUp \/ ModelFails \/ ModelAnswers \/ ModelCallsTools
  <2>1. /\ pc \in {"setup", "generate"} /\ pc' \in {"generate", "answer", "call", "fail"}
        /\ UNCHANGED <<client, stream>>
    BY <1>2 DEF SetUp, ModelFails, ModelAnswers, ModelCallsTools, Goto
  <2> QED BY <2>1, OrderSilent DEF OrderInv, Orderly, Working
<1>3. CASE SearchFails
  <2>1. pc = "search" /\ pc' = "fail" /\ UNCHANGED <<client, stream>>
    BY <1>3 DEF SearchFails, Goto
  <2>2. ToolEvent(ordinal, "tool.started").type = "tool.started"
    BY DEF ToolEvent
  <2> QED BY <2>1, <2>2, OrderSilent DEF OrderInv, Orderly, Working
<1>4. CASE ClientLeaves \/ DeadlinePasses \/ Crash
  <2>1. /\ pc' \in {pc, "crashed"} /\ client' \in {client, "gone"}
        /\ UNCHANGED <<ordinal, stream>>
    BY <1>4 DEF ClientLeaves, DeadlinePasses, Crash, Goto, run
  <2> QED BY <2>1, OrderSilent DEF OrderInv, Orderly, Working
<1>5. CASE UNCHANGED vars
  BY <1>5, OrderSilent DEF vars, OrderInv, Orderly
<1> QED BY <1>1, <1>2, <1>3, <1>4, <1>5, OrderCalls, OrderAnnounce, OrderEnds DEF Next, RunStep

\* Events arrive in the order that the client relies on: the start first, every completed
\* call right after its start, the answer before the end, and nothing after the end.
THEOREM StreamArrivesInOrder == Spec => []StreamInOrder
<1>1. Init => TypeOK /\ OrderInv
  BY TypeInit, OrderInit
<1>2. TypeOK /\ OrderInv /\ [Next]_vars => (TypeOK /\ OrderInv)'
  BY TypeStep, OrderStep
<1>3. OrderInv => StreamInOrder
  BY DEF OrderInv
<1> QED BY <1>1, <1>2, <1>3, PTL DEF Spec

-----------------------------------------------------------------------------
(* What is shown of a run                                                  *)

Ended == {"fail", "returned", "crashed"}

\* A run is marked as over only when no step follows any more.
EndedInv == status \in Final => pc \in Ended

\* What has been read is a beginning of the steps, and all of them if the row was final.
Beginning(rows) ==
    /\ rows \in Seq(StepType) /\ Len(rows) <= Len(steps)
    /\ \A i \in 1 .. Len(rows) : rows[i] = steps[i]

ViewInv ==
    /\ EndedInv
    /\ view.pc \in {"idle", "steps", "shown"} /\ Beginning(view.steps)
    /\ view.pc \in {"steps", "shown"} /\ view.status \in Final => pc \in Ended
    /\ view.pc = "shown" /\ view.status \in Final => view.steps = steps

LEMMA ViewInitially == ViewInit => ViewInv
<1> SUFFICES ASSUME ViewInit PROVE ViewInv
  OBVIOUS
<1>1. view.pc = "idle" /\ view.steps = << >>
  BY DEF ViewInit, View
<1>2. << >> \in Seq(StepType) /\ Len(<< >>) = 0
  OBVIOUS
<1>3. Len(steps) = 0 /\ status = "none"
  BY DEF ViewInit, Init
<1> QED BY <1>1, <1>2, <1>3 DEF ViewInv, EndedInv, Beginning, Final

\* Steps of the run: rows are appended, and none after the end.
LEMMA RunGoesOn ==
    ASSUME TypeOK, EndedInv, [Next]_vars
    PROVE  /\ EndedInv'
           /\ pc \in Ended => pc' \in Ended /\ steps' = steps
           /\ steps' = steps \/ \E s \in StepType : steps' = Append(steps, s)
<1>1. CASE StartCall \/ FinishCall
  <2>1. /\ pc \in {"call", "record"} /\ pc' \in {"started", "recorded", "fail"} /\ UNCHANGED status
        /\ steps' = steps \/ \E s \in StepType : steps' = Append(steps, s)
    <3>1. \A t \in {"tool.started", "tool.completed"} : Step(ordinal + 1, t) \in StepType
      BY DEF TypeOK, Step, StepType
    <3> QED BY <1>1, <3>1, AddTyped DEF StartCall, FinishCall, Goto
  <2> QED BY <2>1 DEF EndedInv, Ended
<1>2. CASE CreateRun
  BY <1>2 DEF CreateRun, Goto, EndedInv, Ended, Final
<1>3. CASE CompleteRun \/ FailRun
  BY <1>3 DEF CompleteRun, FailRun, Goto, EndedInv, Ended
<1>4. CASE SetUp \/ ModelFails \/ ModelAnswers \/ ModelCallsTools \/ Search \/ SearchFails
  BY <1>4 DEF SetUp, ModelFails, ModelAnswers, ModelCallsTools, Search, SearchFails, Goto, EndedInv, Ended
<1>5. CASE EmitStarted \/ EmitCompleted \/ EmitAnswer
  BY <1>5 DEF EmitStarted, EmitCompleted, EmitAnswer, Announce, Goto, EndedInv, Ended
<1>6. CASE ClientLeaves \/ DeadlinePasses \/ Crash
  BY <1>6 DEF ClientLeaves, DeadlinePasses, Crash, Goto, EndedInv, Ended
<1>7. CASE UNCHANGED vars
  BY <1>7 DEF vars, EndedInv
<1> QED BY <1>1, <1>2, <1>3, <1>4, <1>5, <1>6, <1>7 DEF Next, RunStep

LEMMA BeginningStays ==
    ASSUME TypeOK, NEW rows, Beginning(rows),
           steps' = steps \/ \E s \in StepType : steps' = Append(steps, s)
    PROVE  /\ Len(rows) <= Len(steps')
           /\ \A i \in 1 .. Len(rows) : rows[i] = steps'[i]
<1>1. steps \in Seq(StepType) /\ Len(rows) \in Nat
  BY DEF TypeOK, StepType, Beginning
<1>2. ASSUME NEW s \in StepType, steps' = Append(steps, s)
      PROVE  Len(steps') = Len(steps) + 1 /\ \A i \in 1 .. Len(steps) : steps'[i] = steps[i]
  BY <1>1, <1>2
<1>3. Len(steps) \in Nat
  BY <1>1
<1> QED BY <1>1, <1>2, <1>3 DEF Beginning

LEMMA ViewStep == TypeOK /\ ViewInv /\ [ViewNext]_viewVars => ViewInv'
<1> SUFFICES ASSUME TypeOK, ViewInv, [ViewNext]_viewVars PROVE ViewInv'
  OBVIOUS
<1>1. CASE Next /\ UNCHANGED view
  <2>1. /\ EndedInv'
        /\ pc \in Ended => pc' \in Ended /\ steps' = steps
        /\ steps' = steps \/ \E s \in StepType : steps' = Append(steps, s)
    BY <1>1, RunGoesOn DEF ViewInv
  <2>2. Beginning(view.steps)'
    BY <1>1, <2>1, BeginningStays DEF ViewInv, Beginning
  <2> QED BY <1>1, <2>1, <2>2 DEF ViewInv, EndedInv
<1>2. CASE GetRun
  <2>1. steps \in Seq(StepType) /\ UNCHANGED <<pc, status, steps>>
    BY <1>2 DEF GetRun, vars, TypeOK, StepType
  <2>2. Len(<< >>) = 0 /\ << >> \in Seq(StepType) /\ Len(steps) \in Nat
    BY <2>1
  <2>3. CASE view.pc # "steps" /\ view' = View("steps", status, << >>)
    BY <2>1, <2>2, <2>3 DEF ViewInv, EndedInv, Beginning, View
  <2>4. CASE view.pc = "steps" /\ view' = View("shown", view.status, steps)
    BY <2>1, <2>2, <2>4 DEF ViewInv, EndedInv, Beginning, View
  <2>5. CASE view.pc = "steps" /\ view' = View("idle", "none", << >>)
    BY <2>1, <2>2, <2>5 DEF ViewInv, EndedInv, Beginning, View
  <2> QED BY <1>2, <2>3, <2>4, <2>5 DEF GetRun
<1>3. CASE UNCHANGED viewVars
  BY <1>3 DEF viewVars, ViewInv, EndedInv, Beginning
<1> QED BY <1>1, <1>2, <1>3 DEF ViewNext

LEMMA ViewShows == TypeOK /\ ViewInv => ShownWhole
<1> SUFFICES ASSUME TypeOK, ViewInv, view.pc = "shown" PROVE ShownWhole
  BY DEF ShownWhole
<1>1. /\ steps \in Seq(StepType) /\ view.steps \in Seq(StepType) /\ Len(view.steps) <= Len(steps)
      /\ \A i \in 1 .. Len(view.steps) : view.steps[i] = steps[i]
  BY DEF TypeOK, StepType, ViewInv, Beginning
<1>2. view.steps = SubSeq(steps, 1, Len(view.steps))
  <2> DEFINE n == Len(view.steps)
             front == SubSeq(steps, 1, n)
  <2>1. n \in Nat /\ n <= Len(steps) /\ Len(steps) \in Nat
    BY <1>1
  <2>2. front \in Seq(StepType) /\ Len(front) = n /\ \A i \in 1 .. n : front[i] = steps[i]
    BY <1>1, <2>1
  <2> HIDE DEF front
  <2>3. view.steps = front
    BY <1>1, <2>1, <2>2
  <2> QED BY <2>3 DEF front
<1> QED BY <1>2 DEF ShownWhole, ViewInv

\* A run that is shown as over is shown with all its steps, although the row and the steps
\* are read by two statements while the run goes on.
THEOREM ShownAsAWhole == ViewSpec => []ShownWhole
<1>1. ViewInit => TypeOK /\ ViewInv
  BY TypeInit, ViewInitially DEF ViewInit
<1>2. TypeOK /\ ViewInv /\ [ViewNext]_viewVars => (TypeOK /\ ViewInv)'
  <2>1. [ViewNext]_viewVars => [Next]_vars
    BY DEF ViewNext, GetRun, vars, viewVars
  <2> QED BY <2>1, TypeStep, ViewStep
<1> QED BY <1>1, <1>2, ViewShows, PTL DEF ViewSpec

=============================================================================
