------------------------------ MODULE AgentRun ------------------------------
(***************************************************************************)
(* One agent run: Runtime.Run (agents/runtime.go), the rows it writes      *)
(* (agents/postgres.go) and the events it streams to the client            *)
(* (handlers/agents/runs.go), against a model that may answer anything, a  *)
(* client that may leave, a deadline that may pass, statements that may    *)
(* fail and a process that may crash.                                      *)
(*                                                                         *)
(* One action is one statement or one remote call with the local           *)
(* computation and the events up to the next one.  What the model writes,  *)
(* what is found and how a tool is called is abstracted to what Run tells  *)
(* apart: a call is for an attached base, for a base that is not attached, *)
(* has arguments that are no JSON, or is for a tool that does not exist.   *)
(***************************************************************************)
EXTENDS Integers, Sequences, FiniteSets

CONSTANTS
    ConfiguredSteps,    \* values of Limits.MaxSteps a run may be configured with
    MaxBatch,           \* bound on the tool calls of one response
    MaxFaults           \* bound on the statements that fail or lose their acknowledgement

ASSUME StepsAssumption == ConfiguredSteps \subseteq Int
ASSUME BoundAssumption == MaxBatch \in Nat \ {0} /\ MaxFaults \in Nat

VARIABLES
    pc,         \* the next step of Run
    limit,      \* Limits.MaxSteps, after the default is filled in by SetUp
    client,     \* whether the HTTP client is still there
    expired,    \* whether the deadline of the run has passed
    calls,      \* tool calls of the last response that are left to execute
    toolSteps,  \* calls taken up so far
    ordinal,    \* number of the last step row
    evidence,   \* searches whose results have been collected, by the ordinal they began with
    status,     \* the status column of the run, "none" before it is inserted
    steps,      \* its rows in agent_run_steps, in the order of insertion
    stream,     \* the events the client received
    result,     \* what Run returned
    faults      \* statements that went wrong so far

run  == <<calls, toolSteps, ordinal, evidence>>
vars == <<pc, limit, client, expired, calls, toolSteps, ordinal, evidence,
          status, steps, stream, result, faults>>

-----------------------------------------------------------------------------

RunSteps == {"create", "setup", "generate", "call", "started", "search", "record",
             "recorded", "answer", "complete", "fail", "returned", "crashed"}
CallKinds == {"attached", "foreign", "malformed", "unavailable"}
Batches   == UNION {[1 .. n -> CallKinds] : n \in 1 .. MaxBatch}

Step(n, type)      == [ordinal |-> n, type |-> type]
Event(type)        == [type |-> type, step |-> 0, evidence |-> {}]
ToolEvent(n, type) == [type |-> type, step |-> n, evidence |-> {}]
CompletedEvent     == [type |-> "run.completed", step |-> 0, evidence |-> evidence]

\* The context of the run is done: the client has left or the deadline has passed.
ContextDone == client = "gone" \/ expired

\* A statement succeeds, fails, or takes effect without its caller knowing.  One
\* that uses the context of the run is not sent when that is done.
Outcomes        == {"ok"} \cup (IF faults < MaxFaults THEN {"error", "lost"} ELSE {})
ContextOutcomes == IF ContextDone THEN {"cancelled"} ELSE Outcomes
Applied(o)      == o \in {"ok", "lost"}
Counted(o)      == faults' = IF o \in {"error", "lost"} THEN faults + 1 ELSE faults

\* Writing an event reaches a client that is there.  For one that has left it is
\* swallowed by a buffer, or fails.
Emit(e)   == stream' = IF client = "there" THEN Append(stream, e) ELSE stream
EmitFails == client = "gone" /\ UNCHANGED stream

Goto(step) == pc' = step

Init ==
    /\ pc = "create"
    /\ limit \in ConfiguredSteps
    /\ client = "there"
    /\ expired = FALSE
    /\ calls = << >> /\ toolSteps = 0 /\ ordinal = 0 /\ evidence = {}
    /\ status = "none" /\ steps = << >> /\ stream = << >>
    /\ result = "none"
    /\ faults = 0

-----------------------------------------------------------------------------
(* The environment                                                         *)

Over == pc \in {"returned", "crashed"}

\* The client closes the stream: the context of the request is cancelled.
ClientLeaves ==
    /\ ~Over
    /\ client = "there"
    /\ client' = "gone"
    /\ UNCHANGED <<pc, limit, expired, run, status, steps, stream, result, faults>>

\* Limits.TimeoutSeconds have passed since SetUp.
DeadlinePasses ==
    /\ ~Over /\ pc \notin {"create", "setup"}
    /\ ~expired
    /\ expired' = TRUE
    /\ UNCHANGED <<pc, limit, client, run, status, steps, stream, result, faults>>

\* The process ends.  Nothing looks at runs left 'running' when it starts again.
Crash ==
    /\ ~Over
    /\ Goto("crashed")
    /\ UNCHANGED <<limit, client, expired, run, status, steps, stream, result, faults>>

-----------------------------------------------------------------------------
(* Runtime.Run                                                             *)

\* CreateRun; without its acknowledgement Run returns and says nothing.
CreateRun ==
    /\ pc = "create"
    /\ \E o \in ContextOutcomes :
          /\ Counted(o)
          /\ status' = IF Applied(o) THEN "running" ELSE status
          /\ \/ o = "ok" /\ Goto("setup") /\ Emit(Event("run.started")) /\ UNCHANGED result
             \/ o # "ok" /\ Goto("returned") /\ result' = "error" /\ UNCHANGED stream
    /\ UNCHANGED <<limit, client, expired, run, steps>>

\* The limits are checked, the credential is loaded and the model made.
SetUp ==
    /\ pc = "setup"
    /\ limit' = IF limit <= 0 THEN 6 ELSE limit
    /\ \/ limit' <= 10 /\ Goto("generate")
       \/ Goto("fail")
    /\ UNCHANGED <<client, expired, run, status, steps, stream, result, faults>>

\* Mutant: a failed generation is tried again, without end.
ModelRetries ==
    /\ pc = "generate"
    /\ UNCHANGED vars

\* GenerateContent fails, or the response has no choice or no text.
ModelFails ==
    /\ pc = "generate"
    /\ Goto("fail")
    /\ UNCHANGED <<limit, client, expired, run, status, steps, stream, result, faults>>

ModelAnswers ==
    /\ pc = "generate"
    /\ ~ContextDone
    /\ Goto("answer")
    /\ UNCHANGED <<limit, client, expired, run, status, steps, stream, result, faults>>

\* Mutant: only the next call is counted.
NextOverBudget(batch) == toolSteps + 1 > limit

\* The batch would go over the limit of the run.
OverBudget(batch) == toolSteps + Len(batch) > limit

\* The model calls tools: all of them fit into the limit, or none is executed.
ModelCallsTools ==
    /\ pc = "generate"
    /\ ~ContextDone
    /\ \E batch \in Batches :
          \/ OverBudget(batch) /\ Goto("fail") /\ UNCHANGED calls
          \/ ~OverBudget(batch) /\ Goto("call") /\ calls' = batch
    /\ UNCHANGED <<limit, client, expired, toolSteps, ordinal, evidence, status, steps, stream,
                   result, faults>>

\* Mutant: a row that could not be written is not noticed.
AddRunStepIgnored(type, next) ==
    /\ ordinal' = ordinal + 1
    /\ \E o \in ContextOutcomes :
          /\ Counted(o)
          /\ steps' = IF Applied(o) THEN Append(steps, Step(ordinal', type)) ELSE steps
    /\ Goto(next)

\* AddRunStep, with the next ordinal; then step next.
AddRunStep(type, next) ==
    /\ ordinal' = ordinal + 1
    /\ \E o \in ContextOutcomes :
          /\ Counted(o)
          /\ steps' = IF Applied(o) THEN Append(steps, Step(ordinal', type)) ELSE steps
          /\ Goto(IF o = "ok" THEN next ELSE "fail")

\* The next call is taken up and recorded, unless its arguments cannot be encoded.
StartCall ==
    /\ pc = "call"
    /\ toolSteps' = toolSteps + 1
    /\ \/ /\ Head(calls) = "unavailable"
          /\ Goto("fail")
          /\ UNCHANGED <<ordinal, steps, faults>>
       \/ /\ Head(calls) = "malformed"
          /\ ordinal' = ordinal + 1
          /\ Goto("fail")
          /\ UNCHANGED <<steps, faults>>
       \/ /\ Head(calls) \in {"attached", "foreign"}
          /\ AddRunStep("tool.started", "started")
    /\ UNCHANGED <<limit, client, expired, calls, evidence, status, stream, result>>

\* executeKnowledgeSearch, for an attached base.
Search ==
    /\ pc = "search"
    /\ Head(calls) = "attached"
    /\ ~ContextDone
    /\ evidence' = evidence \cup {ordinal}
    /\ Goto("record")
    /\ UNCHANGED <<limit, client, expired, calls, toolSteps, ordinal, status, steps, stream,
                   result, faults>>

\* The base is not attached, or the search fails.
SearchFails ==
    /\ pc = "search"
    /\ Goto("fail")
    /\ UNCHANGED <<limit, client, expired, run, status, steps, stream, result, faults>>

\* The result is recorded.
FinishCall ==
    /\ pc = "record"
    /\ calls' = Tail(calls)
    /\ AddRunStep("tool.completed", "recorded")
    /\ UNCHANGED <<limit, client, expired, toolSteps, evidence, status, stream, result>>

\* After "started", "recorded" and "answer" the client is told, and the run goes on
\* if that did not fail: with the search, with the next call or the model, or with
\* the end.
Announce(step, event, next) ==
    /\ pc = step
    /\ \/ Emit(event) /\ Goto(next)
       \/ EmitFails /\ Goto("fail")
    /\ UNCHANGED <<limit, client, expired, run, status, steps, result, faults>>

\* Mutants: the start of a call is not announced; the batch has no end.
EmitStartedSkipped ==
    /\ pc = "started"
    /\ Goto("search")
    /\ UNCHANGED <<limit, client, expired, run, status, steps, stream, result, faults>>
EmitCompletedNoEnd == Announce("recorded", ToolEvent(ordinal, "tool.completed"), "call")

EmitStarted   == Announce("started", ToolEvent(ordinal, "tool.started"), "search")
EmitCompleted == Announce("recorded", ToolEvent(ordinal, "tool.completed"),
                          IF calls = << >> THEN "generate" ELSE "call")
EmitAnswer    == Announce("answer", Event("assistant.delta"), "complete")

\* Mutant: the run is announced as completed whatever became of the row.
CompleteUnacknowledged ==
    /\ pc = "complete"
    /\ \E o \in Outcomes :
          /\ Counted(o)
          /\ status' = IF Applied(o) THEN "completed" ELSE status
    /\ Goto("returned") /\ result' = "ok" /\ Emit(CompletedEvent)
    /\ UNCHANGED <<limit, client, expired, run, steps>>

\* CompleteRun, outside the context of the run.
CompleteRun ==
    /\ pc = "complete"
    /\ \E o \in Outcomes :
          /\ Counted(o)
          /\ status' = IF Applied(o) THEN "completed" ELSE status
          /\ \/ o = "ok" /\ Goto("returned") /\ result' = "ok" /\ Emit(CompletedEvent)
             \/ o # "ok" /\ Goto("fail") /\ UNCHANGED <<result, stream>>
    /\ UNCHANGED <<limit, client, expired, run, steps>>

\* FailRun, outside the context of the run; its error is ignored.
FailRun ==
    /\ pc = "fail"
    /\ \E o \in Outcomes :
          /\ Counted(o)
          /\ status' = IF Applied(o) THEN "failed" ELSE status
    /\ Goto("returned") /\ result' = "error" /\ Emit(Event("run.failed"))
    /\ UNCHANGED <<limit, client, expired, run, steps>>

RunStep ==
    \/ CreateRun \/ SetUp
    \/ ModelFails \/ ModelAnswers \/ ModelCallsTools
    \/ StartCall \/ EmitStarted \/ Search \/ SearchFails \/ FinishCall \/ EmitCompleted
    \/ EmitAnswer \/ CompleteRun \/ FailRun

Next == RunStep \/ ClientLeaves \/ DeadlinePasses \/ Crash

Spec == Init /\ [][Next]_vars

\* Run goes on: statements and searches return, and a model that does not answer is
\* cut off by the deadline.  Nobody has to leave and nothing has to fail.
FairSpec == Spec /\ WF_vars(RunStep)

-----------------------------------------------------------------------------
(* Properties                                                              *)

TypeOK ==
    /\ pc \in RunSteps
    /\ limit \in ConfiguredSteps \cup {6}
    /\ client \in {"there", "gone"}
    /\ expired \in BOOLEAN
    /\ calls \in Seq(CallKinds)
    /\ toolSteps \in Nat /\ ordinal \in Nat /\ evidence \subseteq Nat
    /\ status \in {"none", "running", "completed", "failed"}
    /\ steps \in Seq([ordinal : Nat, type : {"tool.started", "tool.completed"}])
    /\ stream \in Seq([type : {"run.started", "tool.started", "tool.completed",
                               "assistant.delta", "run.completed", "run.failed"},
                       step : Nat, evidence : SUBSET Nat])
    /\ result \in {"none", "ok", "error"}
    /\ faults \in 0 .. MaxFaults
    /\ pc \in {"call", "started", "search", "record"} => calls # << >>

Recorded == {steps[i] : i \in DOMAIN steps}
Received == {stream[i] : i \in DOMAIN stream}

\* What the client has been told is in the database: a tool event has its row, and
\* "run.completed" comes with the completed run and with the evidence of exactly the
\* searches recorded as completed, whatever fails or is lost afterwards.
StreamBacked ==
    \A e \in Received :
        /\ e.type \in {"tool.started", "tool.completed"} => Step(e.step, e.type) \in Recorded
        /\ e.type = "run.completed" =>
              /\ status = "completed"
              /\ e.evidence = {s.ordinal - 1 : s \in {t \in Recorded : t.type = "tool.completed"}}

\* The events arrive in the order the tests expect (agents/runtime_test.go): the start
\* first, every completed call right after its start, the answer once, before the end,
\* and nothing after "run.completed" or "run.failed".
MayFollow(e, f) ==
    CASE e.type \in {"run.started", "tool.completed"} ->
            f.type \in {"tool.started", "assistant.delta", "run.failed"}
      [] e.type = "tool.started" ->
            f.type = "run.failed" \/ f = ToolEvent(e.step + 1, "tool.completed")
      [] e.type = "assistant.delta" -> f.type \in {"run.completed", "run.failed"}
      [] e.type \in {"run.completed", "run.failed"} -> FALSE

StreamInOrder ==
    /\ stream # << >> => stream[1].type = "run.started"
    /\ \A i \in DOMAIN stream : i > 1 => MayFollow(stream[i - 1], stream[i])

\* The rows of a run are numbered without gaps, starts and completions in turn, and
\* the calls it executes stay within its limit, which is at most 10: "tool calls should
\* be rejected before execution" (agents/runtime_test.go), the whole batch or none.
StepsInBudget ==
    /\ \A i \in DOMAIN steps :
          steps[i] = Step(i, IF i % 2 = 1 THEN "tool.started" ELSE "tool.completed")
    /\ pc \in {"call", "recorded"} => toolSteps + Len(calls) <= limit
    /\ pc \in {"started", "search", "record"} => toolSteps + Len(calls) - 1 <= limit
    /\ Len(steps) > 0 => limit \in 1 .. 10 /\ Len(steps) <= 2 * limit

\* When Run has returned, the run is completed exactly if its caller was told so, and
\* otherwise failed, unless a statement went wrong.  RunSaved and ChatStream append the
\* assistant's turn to the conversation on the strength of this.
SettledWhenReturned ==
    pc = "returned" =>
        /\ result = "ok" => status = "completed"
        /\ result = "error" /\ faults = 0 => status \in {"none", "failed"}

\* A run ends, whatever the model asks for.
Ends == <>Over

=============================================================================
