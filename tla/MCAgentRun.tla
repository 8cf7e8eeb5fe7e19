----------------------------- MODULE MCAgentRun -----------------------------
(* Constants for model checking RunView and AgentRun. *)
EXTENDS RunView

\* The default, a small limit and one that is refused.
Configured == {0, 2, 11}

=============================================================================
