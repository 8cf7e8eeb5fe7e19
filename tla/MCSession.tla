----------------------------- MODULE MCSession -----------------------------
(* Constants for model checking Session. *)
EXTENDS Session, TLC

CONSTANTS c1, c2, h1, h2

\* No property names a client or a slot.
Alike == Permutations(Clients) \cup Permutations(Handlers)

=============================================================================
