------------------------ MODULE CredentialStoreProofs ------------------------
(***************************************************************************)
(* Theorems about CredentialStore for any number of requests and names,    *)
(* lists of any length, and every set of faults.                           *)
(***************************************************************************)
EXTENDS CredentialStore, SequenceTheorems, PrefixInduction, TLAPS

-----------------------------------------------------------------------------
(* The two ways a list is changed                                          *)

TokensIn(tokens) == {tokens[i] : i \in DOMAIN tokens}

\* A list has one token of each name.
Unique(tokens) == \A i, j \in DOMAIN tokens : tokens[i].name = tokens[j].name => i = j

LEMMA NamesOfTokens ==
    ASSUME NEW tokens
    PROVE  NamesIn(tokens) = {t.name : t \in TokensIn(tokens)}
BY DEF NamesIn, TokensIn

LEMMA Appended ==
    ASSUME NEW tokens \in Seq(Token), NEW t \in Token
    PROVE  /\ Append(tokens, t) \in Seq(Token)
           /\ TokensIn(Append(tokens, t)) = TokensIn(tokens) \cup {t}
           /\ Unique(tokens) /\ t.name \notin NamesIn(tokens) => Unique(Append(tokens, t))
<1> DEFINE u == Append(tokens, t)
           n == Len(tokens)
<1>1. /\ n \in Nat /\ DOMAIN tokens = 1 .. n
      /\ u \in Seq(Token) /\ DOMAIN u = 1 .. n + 1 /\ u[n + 1] = t
      /\ \A i \in 1 .. n : u[i] = tokens[i]
  BY AppendProperties, LenProperties
<1> HIDE DEF u, n
<1>2. /\ \A i \in 1 .. n + 1 : i \in 1 .. n \/ i = n + 1
      /\ \A i \in 1 .. n : i \in 1 .. n + 1 /\ i # n + 1
      /\ n + 1 \in 1 .. n + 1
  BY <1>1
<1>3. TokensIn(u) = TokensIn(tokens) \cup {t}
  <2>1. ASSUME NEW x \in TokensIn(u) PROVE x \in TokensIn(tokens) \cup {t}
    BY <1>1, <1>2 DEF TokensIn
  <2>2. ASSUME NEW x \in TokensIn(tokens) \cup {t} PROVE x \in TokensIn(u)
    <3>1. CASE x \in TokensIn(tokens)
      <4>1. PICK i \in 1 .. n : x = tokens[i]
        BY <1>1, <3>1 DEF TokensIn
      <4> QED BY <1>1, <1>2, <4>1 DEF TokensIn
    <3>2. CASE x = t
      BY <1>1, <1>2, <3>2 DEF TokensIn
    <3> QED BY <2>2, <3>1, <3>2
  <2> QED BY <2>1, <2>2
<1>4. ASSUME Unique(tokens), t.name \notin NamesIn(tokens) PROVE Unique(u)
  <2>1. \A i \in 1 .. n : tokens[i].name # t.name
    BY <1>1, <1>4 DEF NamesIn
  <2>2. ASSUME NEW i \in 1 .. n + 1, NEW j \in 1 .. n + 1, u[i].name = u[j].name PROVE i = j
    <3>1. CASE i \in 1 .. n /\ j \in 1 .. n
      BY <1>1, <1>4, <2>2, <3>1 DEF Unique
    <3> QED BY <1>1, <1>2, <2>1, <2>2, <3>1
  <2> QED BY <1>1, <2>2 DEF Unique
<1> QED BY <1>1, <1>3, <1>4 DEF u

\* The loop that leaves a name out does what its rounds say.
LEMMA FilteredStep ==
    ASSUME NEW n, NEW tokens \in Seq(Token)
    PROVE  /\ Filtered(n, tokens) \in [0 .. Len(tokens) -> Seq(Token)]
           /\ Filtered(n, tokens)[0] = << >>
           /\ \A i \in 1 .. Len(tokens) :
                 /\ tokens[i].name = n
                       => Filtered(n, tokens)[i] = Filtered(n, tokens)[i - 1]
                 /\ tokens[i].name # n
                       => Filtered(n, tokens)[i] = Append(Filtered(n, tokens)[i - 1], tokens[i])
<1> DEFINE m == Len(tokens)
           S == Seq(Token)
           G(i, x) == IF tokens[i].name = n THEN x ELSE Append(x, tokens[i])
           F == [i \in 1 .. m |-> [x \in S |-> G(i, x)]]
<1>0. m \in Nat /\ << >> \in S /\ \A i \in 1 .. m : tokens[i] \in Token
  BY LenProperties, ElementOfSeq
<1>1. ASSUME NEW i \in 1 .. m, NEW x \in S PROVE G(i, x) \in S
  BY <1>0, Appended
<1> HIDE DEF G, S
<1>2. Rounds(F, m, S)
  BY <1>1 DEF Rounds
<1>3. PICK f \in [0 .. m -> S] : f[0] = << >> /\ \A i \in 1 .. m : f[i] = F[i][f[i - 1]]
  <2> HIDE DEF F, m
  <2>1. \E f : Run(f, << >>, F, m, S)
    BY <1>0, <1>2, PrefixRecursion
  <2> QED BY <2>1 DEF Run
<1>4. \A i \in 1 .. m : i \in 0 .. m /\ i # 0 /\ i - 1 \in 0 .. m
  BY <1>0
<1>5. \A i \in 1 .. m : f[i] = G(i, f[i - 1])
  <2>1. \A i \in 1 .. m : f[i - 1] \in S
    BY <1>4
  <2> QED BY <1>3, <2>1
<1>6. f = [i \in 0 .. m |-> IF i = 0 THEN << >> ELSE G(i, f[i - 1])]
  <2> HIDE DEF m, F
  <2>1. \A i \in 0 .. m : i # 0 => i \in 1 .. m
    BY <1>0
  <2>2. f = [i \in 0 .. m |-> f[i]]
    BY <1>3
  <2> QED BY <1>3, <1>5, <2>1, <2>2
<1>7. f = [i \in 0 .. m |-> IF i = 0 THEN << >> ELSE IF tokens[i].name = n THEN f[i - 1]
                             ELSE Append(f[i - 1], tokens[i])]
  BY <1>6, Zenon DEF G
<1> DEFINE c == Filtered(n, tokens)
<1>8. c = [i \in 0 .. m |-> IF i = 0 THEN << >> ELSE IF tokens[i].name = n THEN c[i - 1]
                             ELSE Append(c[i - 1], tokens[i])]
  BY <1>7, Zenon DEF Filtered
<1> HIDE DEF F, c, m
<1>9. /\ c[0] = << >>
      /\ \A i \in 1 .. m : c[i] = G(i, c[i - 1])
  <2>1. 0 \in 0 .. m
    BY <1>0
  <2>2. c[0] = << >>
    BY <1>8, <2>1
  <2>3. ASSUME NEW i \in 1 .. m PROVE c[i] = G(i, c[i - 1])
    BY <1>4, <1>8 DEF G
  <2> QED BY <2>2, <2>3
<1>10. \A i \in 0 .. m : c[i] \in S
  <2> DEFINE T == {i \in 0 .. m : c[i] \in S}
  <2>1. 0 \in T
    BY <1>0, <1>9
  <2>2. ASSUME NEW i \in 1 .. m, i - 1 \in T PROVE i \in T
    BY <1>1, <1>4, <1>9, <2>2
  <2>3. \A i \in T : c[i] \in S
    OBVIOUS
  <2> HIDE DEF T
  <2>4. \A i \in 0 .. m : i \in T
    BY <1>0, <2>1, <2>2, PrefixInduction
  <2> QED BY <2>3, <2>4
<1>11. c \in [0 .. m -> S]
  BY <1>8, <1>10
<1> QED BY <1>9, <1>11 DEF c, G, S, m

\* What is left of the first i tokens: those of other names, one of each if there was one.
Left(n, tokens, i) ==
    /\ TokensIn(Filtered(n, tokens)[i]) = {t \in {tokens[j] : j \in 1 .. i} : t.name # n}
    /\ Unique(tokens) => Unique(Filtered(n, tokens)[i])

LEMMA FilteredRound ==
    ASSUME NEW n, NEW tokens \in Seq(Token), NEW i \in 1 .. Len(tokens), Left(n, tokens, i - 1)
    PROVE  Left(n, tokens, i)
<1> DEFINE old == Filtered(n, tokens)[i - 1]
           new == Filtered(n, tokens)[i]
           t == tokens[i]
<1>1. /\ Len(tokens) \in Nat /\ DOMAIN tokens = 1 .. Len(tokens) /\ t \in Token
      /\ i - 1 \in 0 .. Len(tokens)
      /\ \A j : j \in 1 .. i <=> j \in 1 .. i - 1 \/ j = i
      /\ \A j \in 1 .. i - 1 : j \in 1 .. Len(tokens) /\ j # i
  BY LenProperties, ElementOfSeq
<1>2. old \in Seq(Token)
  <2>1. Filtered(n, tokens) \in [0 .. Len(tokens) -> Seq(Token)]
    BY FilteredStep, Zenon
  <2> QED BY <1>1, <2>1
<1>3. (t.name = n => new = old) /\ (t.name # n => new = Append(old, t))
  BY FilteredStep, Zenon
<1>4. /\ TokensIn(old) = {x \in {tokens[j] : j \in 1 .. i - 1} : x.name # n}
      /\ Unique(tokens) => Unique(old)
  BY DEF Left
<1>5. {tokens[j] : j \in 1 .. i} = {tokens[j] : j \in 1 .. i - 1} \cup {t}
  BY <1>1
<1> HIDE DEF old, new, t
<1>6. CASE t.name = n
  BY <1>3, <1>4, <1>5, <1>6 DEF Left, new
<1>7. CASE t.name # n
  <2>1. /\ TokensIn(new) = TokensIn(old) \cup {t}
        /\ Unique(old) /\ t.name \notin NamesIn(old) => Unique(new)
    BY <1>1, <1>2, <1>3, <1>7, Appended
  <2>2. Unique(tokens) => t.name \notin NamesIn(old)
    <3>1. \A x \in TokensIn(old) : \E j \in 1 .. i - 1 : x = tokens[j]
      BY <1>4
    <3>2. Unique(tokens) => \A j \in 1 .. i - 1 : tokens[j].name # t.name
      BY <1>1 DEF Unique, t
    <3>3. Unique(tokens) => \A x \in TokensIn(old) : x.name # t.name
      BY <3>1, <3>2
    <3> QED BY <3>3, NamesOfTokens
  <2>3. TokensIn(new) = {x \in {tokens[j] : j \in 1 .. i} : x.name # n}
    BY <1>4, <1>5, <1>7, <2>1
  <2> QED BY <1>4, <2>1, <2>2, <2>3 DEF Left, new
<1> QED BY <1>6, <1>7

\* Removing a name removes its tokens and no other, and doubles none.
LEMMA WithoutName ==
    ASSUME NEW n, NEW tokens \in Seq(Token)
    PROVE  /\ Without(n, tokens) \in Seq(Token)
           /\ TokensIn(Without(n, tokens)) = {t \in TokensIn(tokens) : t.name # n}
           /\ Unique(tokens) => Unique(Without(n, tokens))
<1> DEFINE m == Len(tokens)
           T == {i \in 0 .. m : Left(n, tokens, i)}
<1>1. m \in Nat /\ DOMAIN tokens = 1 .. m
  BY LenProperties
<1>2. 0 \in T
  <2>1. Filtered(n, tokens)[0] = << >>
    BY FilteredStep
  <2>2. TokensIn(<< >>) = {} /\ Unique(<< >>)
    BY DEF TokensIn, Unique
  <2>3. {tokens[j] : j \in 1 .. 0} = {}
    OBVIOUS
  <2>4. Left(n, tokens, 0)
    BY <2>1, <2>2, <2>3 DEF Left
  <2> QED BY <1>1, <2>4
<1>3. ASSUME NEW i \in 1 .. m, i - 1 \in T PROVE i \in T
  BY <1>1, <1>3, FilteredRound
<1>4. \A i \in T : Left(n, tokens, i)
  OBVIOUS
<1>5. m \in 0 .. m
  BY <1>1
<1>6. Left(n, tokens, m)
  <2> HIDE DEF T, m
  <2>1. \A i \in 0 .. m : i \in T
    BY <1>1, <1>2, <1>3, PrefixInduction
  <2> QED BY <1>4, <1>5, <2>1
<1>7. {tokens[j] : j \in 1 .. m} = TokensIn(tokens)
  BY <1>1 DEF TokensIn
<1>8. Filtered(n, tokens)[m] \in Seq(Token)
  <2>1. Filtered(n, tokens) \in [0 .. m -> Seq(Token)]
    BY FilteredStep, Zenon
  <2> QED BY <1>5, <2>1
<1> QED BY <1>6, <1>7, <1>8 DEF Without, Left

\* Of u and the tokens it is made of: the own token of r is there or gone, the others are as
\* before.
Changed(r, op, n, tokens, u) ==
    /\ u \in Seq(Token)
    /\ Unique(tokens) => Unique(u)
    /\ op = "add" => [name |-> n, value |-> r] \in TokensIn(u)
    /\ op # "add" => n \notin NamesIn(u)
    /\ \A t : t.name # n => (t \in TokensIn(u) <=> t \in TokensIn(tokens))
    /\ \A m : m # n => (m \in NamesIn(u) <=> m \in NamesIn(tokens))

\* The list that a request will write.
LEMMA UpdatedList ==
    ASSUME NEW tokens \in Seq(Token), NEW r \in Requests, NEW op \in {"add", "remove"},
           NEW n \in Names, ~Rejects(op, n, tokens)
    PROVE  Changed(r, op, n, tokens, Updated(r, op, n, tokens))
<1> DEFINE u == Updated(r, op, n, tokens)
           t == [name |-> n, value |-> r]
<1>1. NamesIn(u) = {x.name : x \in TokensIn(u)} /\ NamesIn(tokens) = {x.name : x \in TokensIn(tokens)}
  BY NamesOfTokens
<1>2. CASE op = "add"
  <2>1. t \in Token /\ t.name = n /\ n \notin NamesIn(tokens) /\ u = Append(tokens, t)
    BY <1>2 DEF Token, Rejects, Updated
  <2> HIDE DEF t, u
  <2>2. /\ u \in Seq(Token) /\ TokensIn(u) = TokensIn(tokens) \cup {t}
        /\ Unique(tokens) => Unique(u)
    BY <2>1, Appended
  <2>3. t \in TokensIn(u)
    BY <2>2
  <2>4. \A x : x.name # n => (x \in TokensIn(u) <=> x \in TokensIn(tokens))
    BY <2>1, <2>2
  <2>5. \A m : m # n => (m \in NamesIn(u) <=> m \in NamesIn(tokens))
    BY <1>1, <2>1, <2>2
  <2> QED BY <1>2, <2>2, <2>3, <2>4, <2>5 DEF t, u, Changed
<1>3. CASE op # "add"
  <2>1. u = Without(n, tokens)
    BY <1>3 DEF Updated
  <2> HIDE DEF u
  <2>2. /\ u \in Seq(Token) /\ TokensIn(u) = {x \in TokensIn(tokens) : x.name # n}
        /\ Unique(tokens) => Unique(u)
    BY <2>1, WithoutName
  <2>3. n \notin NamesIn(u)
    BY <1>1, <2>2
  <2>4. \A x : x.name # n => (x \in TokensIn(u) <=> x \in TokensIn(tokens))
    BY <2>2
  <2>5. \A m : m # n => (m \in NamesIn(u) <=> m \in NamesIn(tokens))
    BY <1>1, <2>2
  <2> QED BY <1>3, <2>2, <2>3, <2>4, <2>5 DEF u, Changed
<1> QED BY <1>2, <1>3

-----------------------------------------------------------------------------
(* Types                                                                   *)

RequestType == [pc : {"new", "write", "ok", "rejected", "failed"}, op : {"none", "add", "remove"},
                name : Names \cup {"none"}, list : Seq(Token)]

\* The request of r becomes w.
Becomes(r, w) == request' = [request EXCEPT ![r] = w]

\* A request that reads gets another record: it is rejected, has failed, or will write.
LEMMA ReadForm ==
    ASSUME TypeOK, NEW r \in Requests, NEW op \in {"add", "remove"}, NEW n \in Names,
           Read(r, op, n) \/ ReadFails(r, op, n)
    PROVE  /\ request[r].pc = "new"
           /\ before' = [before EXCEPT ![r] = {e \in Requests : Returned(e)}]
           /\ hf_tokens' = hf_tokens /\ wrote' = wrote
           /\ \E w \in RequestType :
                 /\ Becomes(r, w)
                 /\ w.op = op /\ w.name = n
                 /\ \/ w.pc \in {"rejected", "failed"}
                    \/ w.pc = "write" /\ ~Rejects(op, n, hf_tokens)
                       /\ w.list = Updated(r, op, n, hf_tokens)
<1>1. << >> \in Seq(Token) /\ hf_tokens \in Seq(Token)
  BY DEF TypeOK
<1> DEFINE Record(pc, l) == [pc |-> pc, op |-> op, name |-> n, list |-> l]
<1>2. \A pc \in {"write", "rejected", "failed"} : \A l \in Seq(Token) :
         /\ Record(pc, l) \in RequestType
         /\ Record(pc, l).pc = pc /\ Record(pc, l).op = op /\ Record(pc, l).name = n
         /\ Record(pc, l).list = l
  BY DEF RequestType
<1>3. CASE ReadFails(r, op, n)
  <2>1. Becomes(r, Record("failed", << >>))
    BY <1>3 DEF ReadFails, Becomes
  <2>2. /\ Record("failed", << >>) \in RequestType /\ Record("failed", << >>).pc = "failed"
        /\ Record("failed", << >>).op = op /\ Record("failed", << >>).name = n
    BY <1>1, <1>2
  <2> HIDE DEF Record
  <2> QED BY <1>3, <2>1, <2>2 DEF ReadFails
<1>4. CASE Read(r, op, n)
  <2>1. CASE /\ Rejects(op, n, hf_tokens)
             /\ request' = [request EXCEPT ![r] = Record("rejected", << >>)]
    <3>1. Becomes(r, Record("rejected", << >>))
      BY <2>1 DEF Becomes
    <3>2. /\ Record("rejected", << >>) \in RequestType
          /\ Record("rejected", << >>).pc = "rejected"
          /\ Record("rejected", << >>).op = op /\ Record("rejected", << >>).name = n
      BY <1>1, <1>2
    <3> HIDE DEF Record
    <3> QED BY <1>4, <3>1, <3>2 DEF Read
  <2>2. CASE /\ ~Rejects(op, n, hf_tokens)
             /\ request' = [request EXCEPT ![r] = Record("write", Updated(r, op, n, hf_tokens))]
    <3>1. Becomes(r, Record("write", Updated(r, op, n, hf_tokens)))
      BY <2>2 DEF Becomes
    <3>2. Updated(r, op, n, hf_tokens) \in Seq(Token)
      <4>1. Changed(r, op, n, hf_tokens, Updated(r, op, n, hf_tokens))
        BY <1>1, <2>2, UpdatedList
      <4> QED BY <4>1 DEF Changed
    <3>3. \E l \in Seq(Token) :
             l = Updated(r, op, n, hf_tokens) /\ Becomes(r, Record("write", l))
      BY <3>1, <3>2
    <3>4. PICK l \in Seq(Token) :
             l = Updated(r, op, n, hf_tokens) /\ Becomes(r, Record("write", l))
      BY <3>3
    <3>5. /\ Record("write", l) \in RequestType /\ Record("write", l).pc = "write"
          /\ Record("write", l).op = op /\ Record("write", l).name = n
          /\ Record("write", l).list = l
      BY <1>2
    <3> HIDE DEF Record
    <3> QED BY <1>4, <2>2, <3>4, <3>5 DEF Read
  <2> QED BY <1>4, <2>1, <2>2 DEF Read
<1> QED BY <1>3, <1>4

\* A request that writes returns, whether it had an effect or not.
LEMMA WriteForm ==
    ASSUME TypeOK, NEW r \in Requests, Write(r)
    PROVE  /\ request[r].pc = "write" /\ before' = before
           /\ \/ hf_tokens' = request[r].list /\ wrote' = wrote \cup {r}
              \/ hf_tokens' = hf_tokens /\ wrote' = wrote
           /\ \E w \in RequestType :
                 /\ Becomes(r, w)
                 /\ w.pc \in {"ok", "failed"}
                 /\ w.op = request[r].op /\ w.name = request[r].name
<1>1. request \in [Requests -> RequestType]
  BY DEF TypeOK, RequestType
<1>2. PICK pc \in {"ok", "failed"} : request' = [request EXCEPT ![r].pc = pc]
  BY DEF Write
<1> DEFINE w == [request[r] EXCEPT !.pc = pc]
<1>3. /\ w \in RequestType /\ Becomes(r, w)
      /\ w.pc = pc /\ w.op = request[r].op /\ w.name = request[r].name
  BY <1>1, <1>2 DEF RequestType, Becomes
<1> HIDE DEF w
<1> QED BY <1>3 DEF Write

LEMMA TypesStart == Init => TypeOK
<1> SUFFICES ASSUME Init PROVE TypeOK
  OBVIOUS
<1>1. << >> \in Seq(Token)
  OBVIOUS
<1> QED BY <1>1 DEF Init, TypeOK

LEMMA TypesStep == TypeOK /\ [Next]_vars => TypeOK'
<1> SUFFICES ASSUME TypeOK, [Next]_vars PROVE TypeOK'
  OBVIOUS
<1>1. request \in [Requests -> RequestType]
  BY DEF TypeOK, RequestType
<1>2. ASSUME NEW r \in Requests, NEW w \in RequestType, Becomes(r, w)
      PROVE  request' \in [Requests -> RequestType]
  BY <1>1, <1>2 DEF Becomes
<1>3. ASSUME NEW r \in Requests, NEW op \in {"add", "remove"}, NEW n \in Names,
             Read(r, op, n) \/ ReadFails(r, op, n)
      PROVE  TypeOK'
  <2>1. /\ before' = [before EXCEPT ![r] = {e \in Requests : Returned(e)}]
        /\ hf_tokens' = hf_tokens /\ wrote' = wrote
        /\ \E w \in RequestType : Becomes(r, w)
    BY <1>3, ReadForm
  <2>2. before' \in [Requests -> SUBSET Requests]
    BY <2>1 DEF TypeOK
  <2> QED BY <1>2, <2>1, <2>2 DEF TypeOK, RequestType
<1>4. ASSUME NEW r \in Requests, Write(r) PROVE TypeOK'
  <2>1. /\ before' = before /\ \E w \in RequestType : Becomes(r, w)
        /\ \/ hf_tokens' = request[r].list /\ wrote' = wrote \cup {r}
           \/ hf_tokens' = hf_tokens /\ wrote' = wrote
    BY <1>4, WriteForm
  <2>2. request[r].list \in Seq(Token)
    BY <1>1 DEF RequestType
  <2> QED BY <1>2, <2>1, <2>2 DEF TypeOK, RequestType
<1>5. CASE UNCHANGED vars
  BY <1>5 DEF vars, TypeOK
<1> QED BY <1>3, <1>4, <1>5 DEF Next, AddHFToken, RemoveHFToken

\* Types: however requests overlap and fail, the column holds a list of tokens, each added by
\* one of the requests.
THEOREM CredentialsTyped == Spec => []TypeOK
<1>1. TypeOK /\ [Next]_vars => TypeOK'
  BY TypesStep
<1> QED BY TypesStart, <1>1, PTL DEF Spec

-----------------------------------------------------------------------------
(* What a list shows of the requests that made it                          *)

\* What r did to its token is to be seen in the list.
Shows(r, tokens) ==
    IF request[r].op = "add" THEN [name |-> request[r].name, value |-> r] \in TokensIn(tokens)
    ELSE request[r].name \notin NamesIn(tokens)

\* A later request for the same name, or one that overlapped, has written.
Excused(r) == ~Latest(r) \/ \E e \in wrote \ {r} : ~Apart(r, e)

\* Who had returned when a request read has returned; who has written has made up its mind.
Settled ==
    /\ \A e \in Requests : \A r \in before[e] : Returned(r)
    /\ \A r \in wrote : request[r].pc \in {"ok", "failed"}

\* The list of a request that is about to write has the names once, its own change, and those
\* of the writers that had returned before it read.
Pending(e) ==
    /\ Unique(request[e].list)
    /\ Shows(e, request[e].list)
    /\ \A r \in wrote \cap before[e] :
          request[r].name # request[e].name => Shows(r, request[e].list) \/ Excused(r)

Inv ==
    /\ TypeOK
    /\ Settled
    /\ Unique(hf_tokens)
    /\ \A r \in wrote : Shows(r, hf_tokens) \/ Excused(r)
    /\ \A e \in Requests : request[e].pc = "write" => Pending(e)

\* What excuses a write excuses it for ever.
LEMMA ExcusedStays ==
    ASSUME NEW r \in wrote, Excused(r), wrote \subseteq wrote',
           \A e \in wrote : before'[e] = before[e] /\ request'[e].name = request[e].name
    PROVE  Excused(r)'
BY DEF Excused, Latest, Apart

LEMMA CredentialsStart == Init => Inv
<1> SUFFICES ASSUME Init PROVE Inv
  OBVIOUS
<1>1. Unique(hf_tokens)
  BY DEF Init, Unique
<1>2. \A r \in Requests : before[r] = {} /\ request[r].pc = "new"
  BY DEF Init
<1>3. wrote = {}
  BY DEF Init
<1> QED BY <1>1, <1>2, <1>3, TypesStart DEF Inv, Settled

\* A request that reads finds all in effect that had returned, and keeps it in its list.
LEMMA ReadKeeps ==
    ASSUME Inv, TypeOK', NEW r \in Requests, NEW op \in {"add", "remove"}, NEW n \in Names,
           Read(r, op, n) \/ ReadFails(r, op, n)
    PROVE  Inv'
<1>1. /\ request[r].pc = "new"
      /\ before' = [before EXCEPT ![r] = {e \in Requests : Returned(e)}]
      /\ hf_tokens' = hf_tokens /\ wrote' = wrote
  BY ReadForm DEF Inv
<1>2. PICK w \in RequestType :
         /\ Becomes(r, w)
         /\ w.op = op /\ w.name = n
         /\ \/ w.pc \in {"rejected", "failed"}
            \/ w.pc = "write" /\ ~Rejects(op, n, hf_tokens)
               /\ w.list = Updated(r, op, n, hf_tokens)
  BY ReadForm DEF Inv
<1>3. /\ request \in [Requests -> RequestType] /\ before \in [Requests -> SUBSET Requests]
      /\ wrote \subseteq Requests /\ hf_tokens \in Seq(Token)
  BY DEF Inv, TypeOK, RequestType
<1>4. /\ request'[r] = w /\ before'[r] = {e \in Requests : Returned(e)}
      /\ \A e \in Requests \ {r} : request'[e] = request[e] /\ before'[e] = before[e]
  BY <1>1, <1>2, <1>3 DEF Becomes
<1>5. ~Returned(r) /\ r \notin wrote
  BY <1>1 DEF Inv, Settled, Returned
<1>6. \A e \in Requests : Returned(e) => Returned(e)'
  BY <1>4, <1>5 DEF Returned
<1>7. Settled'
  <2>1. \A e \in Requests : \A f \in before'[e] : Returned(f)
    BY <1>3, <1>4 DEF Inv, Settled
  <2>2. \A e \in Requests : \A f \in before'[e] : f \in Requests
    BY <1>3, <1>4
  <2>3. \A e \in wrote' : request'[e].pc \in {"ok", "failed"}
    BY <1>1, <1>3, <1>4, <1>5 DEF Inv, Settled
  <2> QED BY <1>6, <2>1, <2>2, <2>3 DEF Settled
<1>8. \A e \in wrote : e \in Requests \ {r} /\ before'[e] = before[e] /\ request'[e] = request[e]
  BY <1>3, <1>4, <1>5
<1>9. \A e \in wrote : Excused(e) => Excused(e)'
  BY <1>1, <1>8, ExcusedStays
<1>10. \A e \in wrote' : Shows(e, hf_tokens)' \/ Excused(e)'
  <2>1. \A e \in wrote : Shows(e, hf_tokens) \/ Excused(e)
    BY DEF Inv
  <2>2. ASSUME NEW e \in wrote PROVE Shows(e, hf_tokens)' <=> Shows(e, hf_tokens)
    BY <1>1, <1>8 DEF Shows, TokensIn, NamesIn
  <2> QED BY <1>1, <1>9, <2>1, <2>2
<1>11. ASSUME NEW e \in Requests, request'[e].pc = "write" PROVE Pending(e)'
  <2>1. CASE e # r
    <3>1. Pending(e) /\ request'[e] = request[e] /\ before'[e] = before[e]
      BY <1>4, <1>11, <2>1 DEF Inv
    <3>2. Shows(e, request[e].list)' <=> Shows(e, request[e].list)
      BY <3>1 DEF Shows, TokensIn, NamesIn
    <3>3. ASSUME NEW f \in wrote
          PROVE  Shows(f, request[e].list)' <=> Shows(f, request[e].list)
      BY <1>8, <3>1 DEF Shows, TokensIn, NamesIn
    <3>4. Unique(request[e].list)'
      BY <3>1 DEF Pending, Unique
    <3>5. \A f \in wrote' \cap before'[e] :
             request'[f].name # request'[e].name => Shows(f, request[e].list)' \/ Excused(f)'
      BY <1>1, <1>8, <1>9, <3>1, <3>3 DEF Pending
    <3> QED BY <3>1, <3>2, <3>4, <3>5 DEF Pending
  <2>2. CASE e = r
    <3> DEFINE l == Updated(r, op, n, hf_tokens)
    <3>1. w.pc = "write" /\ ~Rejects(op, n, hf_tokens) /\ w.list = l
      BY <1>2, <1>4, <1>11, <2>2
    <3>2. Changed(r, op, n, hf_tokens, l)
      BY <1>3, <3>1, UpdatedList
    <3> HIDE DEF l
    <3>3. request'[r].list = l /\ request'[r].op = op /\ request'[r].name = n
      BY <1>2, <1>4, <3>1
    <3>4. Unique(request[r].list)'
      BY <3>2, <3>3 DEF Inv, Changed, Unique
    <3>5. Shows(r, request[r].list)'
      BY <3>2, <3>3 DEF Changed, Shows, TokensIn, NamesIn
    <3>6. ASSUME NEW f \in wrote, request[f].name # n, Shows(f, hf_tokens)
          PROVE  Shows(f, request[r].list)'
      <4>1. Shows(f, l)
        BY <3>2, <3>6 DEF Changed, Shows
      <4> QED BY <1>8, <3>3, <4>1 DEF Shows, TokensIn, NamesIn
    <3>7. \A f \in wrote' \cap before'[r] :
             request'[f].name # request'[r].name => Shows(f, request[r].list)' \/ Excused(f)'
      BY <1>1, <1>8, <1>9, <3>3, <3>6 DEF Inv
    <3> QED BY <2>2, <3>4, <3>5, <3>7 DEF Pending
  <2> QED BY <2>1, <2>2
<1>12. Unique(hf_tokens)'
  BY <1>1 DEF Inv, Unique
<1> QED BY <1>7, <1>10, <1>11, <1>12 DEF Inv

\* A request that writes shows itself, and shows or excuses every other that has written: that
\* one had returned before it read, or overlapped with it.
LEMMA WriteKeeps ==
    ASSUME Inv, TypeOK', NEW r \in Requests, Write(r)
    PROVE  Inv'
<1>1. /\ request[r].pc = "write" /\ before' = before
      /\ \/ hf_tokens' = request[r].list /\ wrote' = wrote \cup {r}
         \/ hf_tokens' = hf_tokens /\ wrote' = wrote
  BY WriteForm DEF Inv
<1>2. PICK w \in RequestType :
         /\ Becomes(r, w)
         /\ w.pc \in {"ok", "failed"}
         /\ w.op = request[r].op /\ w.name = request[r].name
  BY WriteForm DEF Inv
<1>3. /\ request \in [Requests -> RequestType] /\ before \in [Requests -> SUBSET Requests]
      /\ wrote \subseteq Requests
  BY DEF Inv, TypeOK, RequestType
<1>4. request'[r] = w /\ \A e \in Requests \ {r} : request'[e] = request[e]
  BY <1>2, <1>3 DEF Becomes
<1>5. ~Returned(r) /\ r \notin wrote
  BY <1>1 DEF Inv, Settled, Returned
<1>6. \A e \in Requests : r \notin before[e]
  BY <1>5 DEF Inv, Settled
<1>7. \A e \in Requests : request'[e].op = request[e].op /\ request'[e].name = request[e].name
  BY <1>2, <1>4
<1>8. \A e \in wrote : Excused(e) => Excused(e)'
  <2>1. wrote \subseteq wrote' /\ \A e \in wrote : before'[e] = before[e] /\ request'[e].name = request[e].name
    BY <1>1, <1>3, <1>7
  <2> QED BY <2>1, ExcusedStays
<1>9. Settled'
  <2>1. \A e \in Requests : Returned(e) => Returned(e)'
    BY <1>4, <1>5 DEF Returned
  <2>2. \A e \in Requests : \A f \in before'[e] : f \in Requests /\ Returned(f)
    BY <1>1, <1>3 DEF Inv, Settled
  <2>3. \A e \in wrote' : request'[e].pc \in {"ok", "failed"}
    BY <1>1, <1>2, <1>3, <1>4, <1>5 DEF Inv, Settled
  <2> QED BY <2>1, <2>2, <2>3 DEF Settled
<1>10. Pending(r)
  BY <1>1 DEF Inv
<1>11. Unique(hf_tokens)'
  BY <1>1, <1>10 DEF Inv, Pending, Unique
<1>12. ASSUME NEW e \in wrote' PROVE Shows(e, hf_tokens)' \/ Excused(e)'
  <2>1. CASE hf_tokens' = hf_tokens /\ wrote' = wrote
    <3>1. e \in wrote /\ e \in Requests
      BY <1>3, <2>1
    <3>2. Shows(e, hf_tokens) \/ Excused(e)
      BY <3>1 DEF Inv
    <3>3. Shows(e, hf_tokens)' <=> Shows(e, hf_tokens)
      BY <1>7, <2>1, <3>1 DEF Shows, TokensIn, NamesIn
    <3> QED BY <1>8, <3>1, <3>2, <3>3
  <2>2. CASE hf_tokens' = request[r].list /\ wrote' = wrote \cup {r}
    <3>1. ASSUME NEW f \in Requests
          PROVE  Shows(f, hf_tokens)' <=> Shows(f, request[r].list)
      BY <1>7, <2>2 DEF Shows, TokensIn, NamesIn
    <3>2. CASE e = r
      BY <1>10, <3>1, <3>2 DEF Pending
    <3>3. CASE e # r
      <4>1. e \in wrote /\ e \in Requests /\ r \in wrote' \ {e}
        BY <1>3, <2>2, <3>3
      <4>2. CASE e \in before[r] /\ request[e].name = request[r].name
        <5>1. ~Latest(e)'
          BY <1>1, <1>7, <4>1, <4>2 DEF Latest
        <5> QED BY <5>1 DEF Excused
      <4>3. CASE e \in before[r] /\ request[e].name # request[r].name
        <5>1. Shows(e, request[r].list) \/ Excused(e)
          BY <1>10, <4>1, <4>3 DEF Pending
        <5> QED BY <1>8, <3>1, <4>1, <5>1
      <4>4. CASE e \notin before[r]
        <5>1. ~Apart(e, r)'
          BY <1>1, <1>6, <4>1, <4>4 DEF Apart
        <5> QED BY <4>1, <5>1 DEF Excused
      <4> QED BY <4>2, <4>3, <4>4
    <3> QED BY <3>2, <3>3
  <2> QED BY <1>1, <2>1, <2>2
<1>13. ASSUME NEW e \in Requests, request'[e].pc = "write" PROVE Pending(e)'
  <2>1. e # r /\ request'[e] = request[e] /\ before'[e] = before[e] /\ Pending(e)
    BY <1>1, <1>2, <1>4, <1>13 DEF Inv
  <2>2. Unique(request[e].list)'
    BY <2>1 DEF Pending, Unique
  <2>3. ASSUME NEW f \in Requests
        PROVE  Shows(f, request[e].list)' <=> Shows(f, request[e].list)
    BY <1>7, <2>1 DEF Shows, TokensIn, NamesIn
  <2>4. \A f \in wrote' \cap before'[e] : f \in wrote \cap before[e] /\ f \in Requests
    BY <1>1, <1>3, <1>6
  <2>5. \A f \in wrote' \cap before'[e] :
           request'[f].name # request'[e].name => Shows(f, request[e].list)' \/ Excused(f)'
    BY <1>7, <1>8, <2>1, <2>3, <2>4 DEF Pending
  <2> QED BY <2>1, <2>2, <2>3, <2>5 DEF Pending
<1> QED BY <1>9, <1>11, <1>12, <1>13 DEF Inv

LEMMA CredentialsStep == Inv /\ [Next]_vars => Inv'
<1> SUFFICES ASSUME Inv, [Next]_vars PROVE Inv'
  OBVIOUS
<1>1. TypeOK'
  BY TypesStep DEF Inv
<1>2. CASE Next
  <2>1. PICK r \in Requests : (\E n \in Names : AddHFToken(r, n) \/ RemoveHFToken(r, n)) \/ Write(r)
    BY <1>2 DEF Next
  <2>2. CASE Write(r)
    BY <1>1, <2>2, WriteKeeps
  <2>3. CASE \E n \in Names : AddHFToken(r, n) \/ RemoveHFToken(r, n)
    BY <1>1, <2>3, ReadKeeps DEF AddHFToken, RemoveHFToken
  <2> QED BY <2>1, <2>2, <2>3
<1>3. CASE UNCHANGED vars
  <2>1. /\ hf_tokens' = hf_tokens /\ request' = request /\ before' = before /\ wrote' = wrote
    BY <1>3 DEF vars
  <2>2. \A r : Excused(r)' <=> Excused(r)
    BY <2>1 DEF Excused, Latest, Apart
  <2>3. \A e : Pending(e)' <=> Pending(e)
    <3>1. \A e : Shows(e, request[e].list)' <=> Shows(e, request[e].list)
      BY <2>1 DEF Shows, TokensIn, NamesIn
    <3>2. \A e, r : Shows(r, request[e].list)' <=> Shows(r, request[e].list)
      BY <2>1 DEF Shows, TokensIn, NamesIn
    <3>3. \A e : Unique(request[e].list)' <=> Unique(request[e].list)
      BY <2>1 DEF Unique
    <3> QED BY <2>1, <2>2, <3>1, <3>2, <3>3 DEF Pending
  <2>4. Settled' /\ Unique(hf_tokens)'
    BY <2>1 DEF Inv, Settled, Returned, Unique
  <2>5. \A r \in wrote' : Shows(r, hf_tokens)' \/ Excused(r)'
    <3>1. \A r : Shows(r, hf_tokens)' <=> Shows(r, hf_tokens)
      BY <2>1 DEF Shows, TokensIn, NamesIn
    <3> QED BY <2>1, <2>2, <3>1 DEF Inv
  <2> QED BY <1>1, <2>1, <2>3, <2>4, <2>5 DEF Inv
<1> QED BY <1>2, <1>3

LEMMA CredentialsInvariant == Spec => []Inv
<1>1. Inv /\ [Next]_vars => Inv'
  BY CredentialsStep
<1> QED BY CredentialsStart, <1>1, PTL DEF Spec

\* A name stands for one token, however many requests overlap: each writes a list with unique
\* names, made of one such list, over whatever the column holds.
THEOREM CredentialNamesUnique == Spec => []NamesUnique
<1>1. Inv => NamesUnique
  BY DEF Inv, Unique, NamesUnique
<1> QED BY CredentialsInvariant, <1>1, PTL

\* What was written stays in effect until a later request for the same name, if no request
\* that overlapped with it has written: one that is rejected, fails, or is for another name,
\* undoes nothing, whichever acknowledgements are lost.
THEOREM CredentialWritesKept == Spec => []WritesKept
<1>1. Inv => WritesKept
  <2> SUFFICES ASSUME Inv, NEW r \in wrote PROVE InEffect(r) \/ Excused(r)
    BY DEF WritesKept, Excused
  <2>1. Shows(r, hf_tokens) \/ Excused(r)
    BY DEF Inv
  <2>2. Shows(r, hf_tokens) => InEffect(r)
    BY DEF Shows, InEffect, TokensIn
  <2> QED BY <2>1, <2>2
<1> QED BY CredentialsInvariant, <1>1, PTL

=============================================================================
