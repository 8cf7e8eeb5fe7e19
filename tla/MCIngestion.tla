---------------------------- MODULE MCIngestion ----------------------------
(* Constants for model checking Ingestion with its SourceStore. *)
EXTENDS SourceStore, TLC

CONSTANTS s1, s2, r1, r2, k1, d1, d2, d3

InOneBase == [d \in Documents |-> k1]

\* Two uploads of different bytes; and a third with the bytes of the first.
AllDistinct == d1 :> 1 @@ d2 :> 2
TwoAlike    == d1 :> 1 @@ d2 :> 1 @@ d3 :> 2

\* No property names a slot, or tells the two documents with the same bytes apart.
SlotsAndCopies == Permutations({r1, r2}) \cup Permutations({d1, d2})

=============================================================================
