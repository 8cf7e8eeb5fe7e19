------------------------- MODULE MCCredentialStore -------------------------
(* Constants for model checking CredentialStore. *)
EXTENDS CredentialStore, TLC

CONSTANTS r1, r2, r3, r4, n1, n2

\* Any request may be made, under any name.
Alike == Permutations(Requests) \cup Permutations(Names)

=============================================================================
