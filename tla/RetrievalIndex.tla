--------------------------- MODULE RetrievalIndex ---------------------------
(***************************************************************************)
(* What Search (rag/postgres.go) may see of a knowledge base: of each      *)
(* document nothing, or every passage of every page, numbered through the  *)
(* document from 1, with vectors of the one length the base is committed   *)
(* to.  Documents appear and disappear as a whole.                         *)
(***************************************************************************)
EXTENDS Naturals, Sequences

CONSTANTS
    Documents,
    Pages,          \* [Documents -> Seq(Nat)]: number of passages of each page
    Lengths         \* lengths an embedding vector may have

VARIABLES
    dimension,      \* 0 until the first document is published
    visible         \* [Documents -> set of rows]

\* How many passages the first p pages of d have.
Counts(d) ==
    LET count[p \in 0 .. Len(Pages[d])] ==
            IF p = 0 THEN 0 ELSE count[p - 1] + Pages[d][p]
    IN  count

\* Those of page p come after those of the pages before it.
Whole(d, n) ==
    UNION {{[page |-> p, index |-> Counts(d)[p - 1] + i, length |-> n] : i \in 1 .. Pages[d][p]}
              : p \in DOMAIN Pages[d]}

Init ==
    /\ dimension = 0
    /\ visible = [d \in Documents |-> {}]

Publish(d, n) ==
    /\ dimension \in {0, n}
    /\ dimension' = n
    /\ visible' = [visible EXCEPT ![d] = Whole(d, n)]

Withdraw(d) ==
    /\ visible' = [visible EXCEPT ![d] = {}]
    /\ UNCHANGED dimension

Next == \E d \in Documents : Withdraw(d) \/ \E n \in Lengths : Publish(d, n)

Spec == Init /\ [][Next]_<<dimension, visible>>

=============================================================================
