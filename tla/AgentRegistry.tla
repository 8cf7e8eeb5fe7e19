---------------------------- MODULE AgentRegistry ----------------------------
(***************************************************************************)
(* What the owner of agents is promised of the definitions kept in the     *)
(* database (agents/postgres.go): each is, as a whole, what one request    *)
(* asked for, but for the knowledge bases that were deleted since, and     *)
(* refers to no base that is not there.                                    *)
(***************************************************************************)
EXTENDS FiniteSets

CONSTANTS
    Agents,
    Bases,
    Writers,        \* requests that define agents
    Former,         \* bases of the agents that are there at the beginning
    None            \* no agent; in place of a writer, one before the specification begins

VARIABLES
    asked,          \* the bases asked for by the writers so far
    registry,       \* of each agent, None or who defined it and the bases it may search
    live            \* the bases that are there

Init ==
    /\ asked = [w \in Writers \cup {None} |-> IF w = None THEN Former ELSE {}]
    /\ live \in SUBSET Bases /\ Former \subseteq live
    /\ registry \in [Agents -> {None, [by |-> None, bases |-> Former]}]

Define(a, w) ==
    \E bases \in SUBSET live :
        /\ asked' = [asked EXCEPT ![w] = bases]
        /\ registry' = [registry EXCEPT ![a] = [by |-> w, bases |-> bases]]
        /\ UNCHANGED live

Remove(a) ==
    /\ registry' = [registry EXCEPT ![a] = None]
    /\ UNCHANGED <<asked, live>>

Drop(b) ==
    /\ live' = live \ {b}
    /\ registry' = [a \in Agents |->
                       IF registry[a] = None THEN None
                       ELSE [registry[a] EXCEPT !.bases = @ \ {b}]]
    /\ UNCHANGED asked

Next ==
    \/ \E a \in Agents : Remove(a) \/ \E w \in Writers : Define(a, w)
    \/ \E b \in Bases : Drop(b)

Spec == Init /\ [][Next]_<<asked, registry, live>>

=============================================================================
