-------------------------- MODULE CredentialStore --------------------------
(***************************************************************************)
(* The Hugging Face tokens of one user (handlers/tokens/tokens.go): a JSON *)
(* list in the hf_tokens column of the user's row.  A request to add or to *)
(* remove a token reads the list, decides, and writes the new list over    *)
(* whatever the column holds by then.                                      *)
(*                                                                         *)
(* A stored token is its name and the request that added it, which stands  *)
(* for its encrypted value.                                                *)
(***************************************************************************)
EXTENDS Naturals, Sequences

CONSTANTS
    Names,      \* names a user may give to tokens
    Requests,   \* requests of this user, each made once
    Faults      \* the failures the environment may inject

\* "error": a statement fails and has no effect.  "lost": it takes effect, and its
\* caller sees an error.
ASSUME FaultsAssumption == Faults \subseteq {"error", "lost"}

VARIABLES
    hf_tokens,  \* the column
    request,    \* each request: next step, operation, name, the list it will write
    before,     \* the requests that had returned when it read the column (history)
    wrote       \* the requests whose write took effect (history)

vars == <<hf_tokens, request, before, wrote>>

-----------------------------------------------------------------------------

Token   == [name : Names, value : Requests]
NamesIn(tokens) == {tokens[i].name : i \in DOMAIN tokens}

Outcomes   == {"ok"} \cup Faults
Applied(o) == o # "error"

Returned(r) == request[r].pc \in {"ok", "rejected", "failed"}

Init ==
    /\ hf_tokens = << >>
    /\ request = [r \in Requests |-> [pc |-> "new", op |-> "none", name |-> "none", list |-> << >>]]
    /\ before  = [r \in Requests |-> {}]
    /\ wrote   = {}

\* Mutant: the name is not looked for.
RejectsNothing(op, n, tokens) == FALSE

\* A name that is there cannot be added, one that is not cannot be removed.
Rejects(op, n, tokens) ==
    IF op = "add" THEN n \in NamesIn(tokens) ELSE n \notin NamesIn(tokens)

\* The tokens that have another name than n, in their order: what is left of each prefix.
Filtered(n, tokens) ==
    LET filtered[i \in 0 .. Len(tokens)] ==
            IF i = 0 THEN << >>
            ELSE IF tokens[i].name = n THEN filtered[i - 1]
            ELSE Append(filtered[i - 1], tokens[i])
    IN  filtered

Without(n, tokens) == Filtered(n, tokens)[Len(tokens)]

\* Mutant: only the new token is written.
UpdatedAnew(r, op, n, tokens) ==
    IF op = "add" THEN << [name |-> n, value |-> r] >>
    ELSE Without(n, tokens)

\* The list that is written back.
Updated(r, op, n, tokens) ==
    IF op = "add" THEN Append(tokens, [name |-> n, value |-> r])
    ELSE Without(n, tokens)

\* SELECT hf_tokens, and the decision.
Read(r, op, n) ==
    /\ request[r].pc = "new"
    /\ before' = [before EXCEPT ![r] = {e \in Requests : Returned(e)}]
    /\ \/ /\ Rejects(op, n, hf_tokens)
          /\ request' = [request EXCEPT ![r] =
                            [pc |-> "rejected", op |-> op, name |-> n, list |-> << >>]]
       \/ /\ ~Rejects(op, n, hf_tokens)
          /\ request' = [request EXCEPT ![r] =
                            [pc |-> "write", op |-> op, name |-> n,
                             list |-> Updated(r, op, n, hf_tokens)]]
    /\ UNCHANGED <<hf_tokens, wrote>>

\* The query or the encryption fails; nothing is written.
ReadFails(r, op, n) ==
    /\ request[r].pc = "new"
    /\ "error" \in Faults
    /\ before'  = [before EXCEPT ![r] = {e \in Requests : Returned(e)}]
    /\ request' = [request EXCEPT ![r] =
                      [pc |-> "failed", op |-> op, name |-> n, list |-> << >>]]
    /\ UNCHANGED <<hf_tokens, wrote>>

\* Mutant: the request is written, not the list.
WriteRequest(r) ==
    /\ request[r].pc = "write"
    /\ hf_tokens' = <<request[r]>>
    /\ wrote' = wrote \cup {r}
    /\ request' = [request EXCEPT ![r].pc = "ok"]
    /\ UNCHANGED before

\* UPDATE users SET hf_tokens
Write(r) ==
    /\ request[r].pc = "write"
    /\ \E o \in Outcomes :
          /\ IF Applied(o)
             THEN hf_tokens' = request[r].list /\ wrote' = wrote \cup {r}
             ELSE UNCHANGED <<hf_tokens, wrote>>
          /\ request' = [request EXCEPT ![r].pc = IF o = "ok" THEN "ok" ELSE "failed"]
    /\ UNCHANGED before

AddHFToken(r, n)    == Read(r, "add", n) \/ ReadFails(r, "add", n)
RemoveHFToken(r, n) == Read(r, "remove", n) \/ ReadFails(r, "remove", n)

Next ==
    \E r \in Requests :
        \/ \E n \in Names : AddHFToken(r, n) \/ RemoveHFToken(r, n)
        \/ Write(r)

Spec == Init /\ [][Next]_vars

-----------------------------------------------------------------------------
(* Properties                                                              *)

TypeOK ==
    /\ hf_tokens \in Seq(Token)
    /\ request \in [Requests -> [pc : {"new", "write", "ok", "rejected", "failed"},
                                 op : {"none", "add", "remove"},
                                 name : Names \cup {"none"}, list : Seq(Token)]]
    /\ before \in [Requests -> SUBSET Requests]
    /\ wrote \subseteq Requests

\* However requests overlap, a name stands for one token, so that GetDecryptedToken,
\* which takes the first one it finds, and the agents that refer to it by name all
\* mean the same.
NamesUnique ==
    \A i, j \in DOMAIN hf_tokens : hf_tokens[i].name = hf_tokens[j].name => i = j

\* One of the two had returned before the other read the column.
Apart(r, e) == r \in before[e] \/ e \in before[r]

\* What r did to its token is to be seen in the column.
InEffect(r) ==
    LET present == \E i \in DOMAIN hf_tokens :
                        hf_tokens[i] = [name |-> request[r].name, value |-> r]
    IN  IF request[r].op = "add" THEN present ELSE request[r].name \notin NamesIn(hf_tokens)

\* No later request wrote the same name.
Latest(r) ==
    ~\E e \in wrote \ {r} : r \in before[e] /\ request[e].name = request[r].name

\* A write stays in effect until a later request for the same name, unless it was
\* made, or overwritten, by a request that overlapped with it: requests that are
\* rejected, fail, lose their acknowledgement or are for other names undo nothing.
WritesKept ==
    \A r \in wrote :
        \/ InEffect(r)
        \/ ~Latest(r)
        \/ \E e \in wrote \ {r} : ~Apart(r, e)

\* "HF Token added successfully", "HF Token removed successfully" (handlers/tokens/
\* tokens.go): a token that was added is there, and one that was removed is not,
\* until another request for the same name.
SuccessIsLasting ==
    \A r \in Requests :
        request[r].pc = "ok" =>
            \/ InEffect(r)
            \/ \E e \in wrote \ {r} : request[e].name = request[r].name

=============================================================================
