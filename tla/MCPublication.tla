--------------------------- MODULE MCPublication ---------------------------
(* Constants for model checking Publication with its SemanticSearch. *)
EXTENDS SemanticSearch, TLC

CONSTANTS s1, s2, d1, d2

\* Two pages that make two batches; a page without text and one with a passage.
TwoDocuments == d1 :> <<2, 1>> @@ d2 :> <<0, 1>>

=============================================================================
