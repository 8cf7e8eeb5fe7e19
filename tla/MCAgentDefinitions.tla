------------------------ MODULE MCAgentDefinitions ------------------------
(* Constants for model checking AgentDefinitions. *)
EXTENDS AgentDefinitions

CONSTANTS a1, b1, b2, w1, w2, r1, d1

=============================================================================
