-------------------------- MODULE PrefixInduction --------------------------
(***************************************************************************)
(* Induction and recursion over 0 .. n, with sets and functions where the  *)
(* theorems of NaturalsInduction have operators as parameters: a property  *)
(* is the set of the numbers that have it, a step of a recursion is a      *)
(* function.  The proofs about the loops of Publication and                *)
(* CredentialStore rest on the two theorems.                               *)
(***************************************************************************)
EXTENDS Integers, WellFoundedInduction, TLAPS

\* A set of natural numbers that is not empty has a smallest element.
LEMMA SmallestElement ==
    ASSUME NEW T \in SUBSET Nat, T # {}
    PROVE  \E m \in T : \A k \in T : m <= k
<1> DEFINE R == OpToRel(<, Nat)
<1>1. IsWellFoundedOn(R, Nat)
  BY NatLessThanWellFounded
<1>2. \A k, m \in Nat : k < m => <<k, m>> \in R
  BY DEF OpToRel
<1> HIDE DEF R
<1>3. PICK m \in T : \A k \in T : ~(<<k, m>> \in R)
  BY <1>1, WFMin
<1>4. ASSUME NEW k \in T PROVE m <= k
  <2>1. m \in Nat /\ k \in Nat
    OBVIOUS
  <2>2. ~(k < m)
    BY <1>2, <1>3, <2>1, Zenon
  <2> QED BY <2>1, <2>2
<1> QED BY <1>4

\* What holds before a loop, and after a round if it held before that, holds after each of
\* its n rounds.
THEOREM PrefixInduction ==
    ASSUME NEW n \in Nat, NEW T, 0 \in T, \A i \in 1 .. n : i - 1 \in T => i \in T
    PROVE  \A i \in 0 .. n : i \in T
<1> DEFINE Missing == {i \in 0 .. n : i \notin T}
<1>1. /\ Missing \in SUBSET Nat
      /\ \A i \in 0 .. n : i \in Missing <=> i \notin T
      /\ Missing \subseteq 0 .. n
  OBVIOUS
<1> HIDE DEF Missing
<1>2. ASSUME Missing # {} PROVE FALSE
  <2>1. PICK m \in Missing : \A k \in Missing : m <= k
    BY <1>1, <1>2, SmallestElement
  <2>2. m \in 0 .. n /\ m \notin T
    BY <1>1
  <2>3. m # 0
    BY <2>2
  <2>4. m \in 1 .. n /\ m - 1 \in 0 .. n /\ ~(m <= m - 1)
    BY <2>2, <2>3
  <2>5. m - 1 \in T
    BY <1>1, <2>1, <2>4
  <2> QED BY <2>2, <2>4, <2>5
<1> QED BY <1>1, <1>2

\* A loop of n rounds, each of which makes a value of the one before it; and f, the values
\* of such a loop from e on.
Rounds(F, n, S) == \A i \in 1 .. n, x \in S : F[i][x] \in S

Run(f, e, F, n, S) ==
    /\ f \in [0 .. n -> S]
    /\ f[0] = e
    /\ \A i \in 1 .. n : f[i] = F[i][f[i - 1]]

\* Every loop runs.
THEOREM PrefixRecursion ==
    ASSUME NEW n \in Nat, NEW S, NEW e \in S, NEW F, Rounds(F, n, S)
    PROVE  \E f : Run(f, e, F, n, S)
<1> USE DEF Rounds, Run
<1> DEFINE Good(m) == \E f \in [0 .. m -> S] :
                         f[0] = e /\ \A i \in 1 .. m : f[i] = F[i][f[i - 1]]
           T == {m \in 0 .. n : Good(m)}
<1>1. Good(0)
  <2> DEFINE f == [i \in 0 .. 0 |-> e]
  <2>1. f \in [0 .. 0 -> S] /\ f[0] = e /\ \A i \in 1 .. 0 : f[i] = F[i][f[i - 1]]
    OBVIOUS
  <2> QED BY <2>1
<1>2. ASSUME NEW m \in 1 .. n, Good(m - 1) PROVE Good(m)
  <2>1. PICK f \in [0 .. m - 1 -> S] :
           f[0] = e /\ \A i \in 1 .. m - 1 : f[i] = F[i][f[i - 1]]
    BY <1>2
  <2> DEFINE g == [i \in 0 .. m |-> IF i = m THEN F[m][f[m - 1]] ELSE f[i]]
  <2>2. g \in [0 .. m -> S] /\ g[0] = e
    BY <2>1
  <2>3. ASSUME NEW i \in 1 .. m PROVE g[i] = F[i][g[i - 1]]
    <3>1. g[i - 1] = f[i - 1]
      OBVIOUS
    <3>2. CASE i = m
      BY <3>1, <3>2
    <3>3. CASE i # m
      BY <2>1, <3>1, <3>3
    <3> QED BY <3>2, <3>3
  <2> HIDE DEF g
  <2> QED BY <2>2, <2>3
<1> HIDE DEF Good
<1>3. 0 \in T /\ \A m \in 1 .. n : m - 1 \in T => m \in T
  BY <1>1, <1>2
<1>4. \A m \in T : Good(m)
  OBVIOUS
<1> HIDE DEF T
<1>5. \A m \in 0 .. n : m \in T
  BY <1>3, PrefixInduction
<1>6. Good(n)
  BY <1>4, <1>5
<1> QED BY <1>6 DEF Good

=============================================================================
