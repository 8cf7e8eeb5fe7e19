------------------------- MODULE DocumentLifecycle -------------------------
(***************************************************************************)
(* What the knowledge service promises the owner of a document, whatever   *)
(* the worker, the requests and the restarts do behind it:                 *)
(*                                                                         *)
(*     absent --> pending --> ready                                        *)
(*                 ^   \                                                   *)
(*                 |    --> failed          pending, ready, failed         *)
(*                 ----------/                        --> removed          *)
(*                                                                         *)
(* "pending" is both of the code's 'queued' and 'processing': its owner    *)
(* cannot tell a document that is being prepared from one that a restarted *)
(* worker put back in the queue.  A ready document is never demoted, a     *)
(* failed one only comes back when its owner asks, a removed one never.    *)
(***************************************************************************)

CONSTANT Documents

VARIABLE stage      \* [Documents -> Stages], what the owner sees

Stages == {"absent", "pending", "ready", "failed", "removed"}

TypeOK == stage \in [Documents -> Stages]

Init == stage = [d \in Documents |-> "absent"]

-----------------------------------------------------------------------------

\* The upload of d is accepted.
Submit(d) ==
    /\ stage[d] = "absent"
    /\ stage' = [stage EXCEPT ![d] = "pending"]

\* The worker finishes d, one way or the other.
Settle(d) ==
    /\ stage[d] = "pending"
    /\ \E result \in {"ready", "failed"} : stage' = [stage EXCEPT ![d] = result]

\* The owner asks for a failed document to be tried again.
Resubmit(d) ==
    /\ stage[d] = "failed"
    /\ stage' = [stage EXCEPT ![d] = "pending"]

\* The owner deletes one document, or a knowledge base with all of its own.
Remove(S) ==
    /\ \A d \in S : stage[d] \in {"pending", "ready", "failed"}
    /\ stage' = [d \in Documents |-> IF d \in S THEN "removed" ELSE stage[d]]

Next ==
    \/ \E d \in Documents : Submit(d) \/ Settle(d) \/ Resubmit(d)
    \/ \E S \in SUBSET Documents : Remove(S)

Spec == Init /\ [][Next]_stage

\* Every accepted document is settled unless it is removed first.
FairSpec == Spec /\ \A d \in Documents : WF_stage(Settle(d))

=============================================================================
