------------------------------ MODULE RunView ------------------------------
(***************************************************************************)
(* A client that asks for a run (Get of handlers/agents/runs.go) while the *)
(* run goes on, as in AgentRun.  GetRun (agents/postgres.go) reads the row *)
(* of the run and then its steps, in two statements without a transaction. *)
(***************************************************************************)
EXTENDS AgentRun

VARIABLE
    view        \* next step of GetRun, the status and the steps it has read

viewVars == <<pc, limit, client, expired, calls, toolSteps, ordinal, evidence,
              status, steps, stream, result, faults, view>>

-----------------------------------------------------------------------------

View(step, s, rows) == [pc |-> step, status |-> s, steps |-> rows]

ViewInit == Init /\ view = View("idle", "none", << >>)

\* Mutant: the steps are read before the row.
GetRunStepsFirst ==
    /\ status # "none"
    /\ \/ view.pc # "steps" /\ view' = View("steps", "none", steps)
       \/ view.pc = "steps" /\ view' = View("shown", status, view.steps)
    /\ UNCHANGED vars

\* The row, if there is one, and then the steps as they are by then, in the order of
\* their ordinals, unless that fails.
GetRun ==
    /\ status # "none"
    /\ \/ view.pc # "steps" /\ view' = View("steps", status, << >>)
       \/ view.pc = "steps" /\ view' = View("shown", view.status, steps)
       \/ view.pc = "steps" /\ view' = View("idle", "none", << >>)
    /\ UNCHANGED vars

ViewNext ==
    \/ Next /\ UNCHANGED view
    \/ GetRun

\* Nobody has to look.
ViewSpec == ViewInit /\ [][ViewNext]_viewVars /\ WF_vars(RunStep)

-----------------------------------------------------------------------------
(* Properties                                                              *)

Final == {"completed", "failed"}

\* A run that is shown as completed or failed is shown with all its steps, those it will
\* ever have, although row and steps are read at different times; one that is shown as
\* running may be shown with later steps, but with none that is not recorded.
ShownWhole ==
    view.pc = "shown" =>
        /\ view.steps = SubSeq(steps, 1, Len(view.steps))
        /\ view.status \in Final => view.steps = steps

=============================================================================
