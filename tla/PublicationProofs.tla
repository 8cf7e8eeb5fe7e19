-------------------------- MODULE PublicationProofs --------------------------
(***************************************************************************)
(* Theorems about Publication and SemanticSearch for every set of workers  *)
(* and documents, every division of these into pages and passages, every   *)
(* batch size and all lengths of vectors: what the splitting loop makes,   *)
(* the lock of the base, that the saving transaction implements            *)
(* RetrievalIndex, and what a search may meet.                             *)
(***************************************************************************)
EXTENDS SemanticSearch, SequenceTheorems, FiniteSetTheorems, PrefixInduction, TLAPS

-----------------------------------------------------------------------------
(* Splitting                                                               *)

LEMMA PagesType ==
    ASSUME NEW d \in Documents
    PROVE  /\ Pages[d] \in Seq(Nat)
           /\ Len(Pages[d]) \in Nat
           /\ DOMAIN Pages[d] = 1 .. Len(Pages[d])
           /\ \A p \in 1 .. Len(Pages[d]) : Pages[d][p] \in Nat
<1>1. Pages[d] \in Seq(Nat)
  BY PagesAssumption
<1> QED BY <1>1, LenProperties, ElementOfSeq

\* The sums of RetrievalIndex are what their recursion says.
LEMMA CountsStep ==
    ASSUME NEW d \in Documents
    PROVE  /\ Index!Counts(d) \in [0 .. Len(Pages[d]) -> Nat]
           /\ Index!Counts(d)[0] = 0
           /\ \A p \in 1 .. Len(Pages[d]) :
                 Index!Counts(d)[p] = Index!Counts(d)[p - 1] + Pages[d][p]
<1> DEFINE n == Len(Pages[d])
           F == [p \in 1 .. n |-> [x \in Nat |-> x + Pages[d][p]]]
<1>0. n \in Nat /\ 0 \in Nat /\ \A p \in 1 .. n : Pages[d][p] \in Nat
  BY PagesType
<1>1. Rounds(F, n, Nat)
  <2>1. ASSUME NEW p \in 1 .. n, NEW x \in Nat PROVE F[p][x] \in Nat
    <3>1. F[p][x] = x + Pages[d][p]
      OBVIOUS
    <3> HIDE DEF F
    <3> QED BY <1>0, <3>1
  <2> HIDE DEF F
  <2> QED BY <2>1 DEF Rounds
<1>2. PICK f \in [0 .. n -> Nat] : f[0] = 0 /\ \A p \in 1 .. n : f[p] = F[p][f[p - 1]]
  <2> HIDE DEF F, n
  <2>1. \E f : Run(f, 0, F, n, Nat)
    BY <1>0, <1>1, PrefixRecursion
  <2> QED BY <2>1 DEF Run
<1>3. ASSUME NEW p \in 1 .. n PROVE f[p] = f[p - 1] + Pages[d][p]
  <2>1. p - 1 \in 0 .. n
    BY <1>0
  <2>2. f[p - 1] \in Nat
    BY <2>1
  <2> QED BY <1>2, <2>2
<1>4. f = [p \in 0 .. n |-> IF p = 0 THEN 0 ELSE f[p - 1] + Pages[d][p]]
  BY <1>0, <1>2, <1>3
<1>5. Index!Counts(d) = [p \in 0 .. n |-> IF p = 0 THEN 0
                                          ELSE Index!Counts(d)[p - 1] + Pages[d][p]]
  BY <1>4 DEF Index!Counts
<1> HIDE DEF F
<1> DEFINE c == Index!Counts(d)
<1> HIDE DEF c
<1>6. c[0] = 0 /\ \A p \in 1 .. n : c[p] = c[p - 1] + Pages[d][p]
  <2>1. c = [p \in 0 .. n |-> IF p = 0 THEN 0 ELSE c[p - 1] + Pages[d][p]]
    BY <1>5 DEF c
  <2> HIDE DEF n
  <2> QED BY <1>0, <2>1
<1>7. \A p \in 0 .. n : c[p] \in Nat
  <2> DEFINE T == {p \in 0 .. n : c[p] \in Nat}
  <2>1. 0 \in T
    BY <1>0, <1>6
  <2>2. ASSUME NEW p \in 1 .. n, p - 1 \in T PROVE p \in T
    <3>1. c[p - 1] \in Nat /\ p \in 0 .. n
      BY <1>0, <2>2
    <3>2. c[p] \in Nat
      BY <1>0, <1>6, <3>1
    <3> QED BY <3>1, <3>2
  <2>3. \A p \in T : c[p] \in Nat
    OBVIOUS
  <2> HIDE DEF T
  <2>4. \A p \in 0 .. n : p \in T
    BY <1>0, <2>1, <2>2, PrefixInduction
  <2> QED BY <2>3, <2>4
<1>8. c \in [0 .. n -> Nat]
  BY <1>5, <1>7 DEF c
<1> QED BY <1>6, <1>8 DEF c

\* What the splitter makes of page p, when there are k passages before it.
PageSplit(d, p, k) == [i \in 1 .. Pages[d][p] |-> [page |-> p, index |-> k + i]]

LEMMA PageSplitType ==
    ASSUME NEW d \in Documents, NEW p \in 1 .. Len(Pages[d]), NEW k \in Nat
    PROVE  /\ PageSplit(d, p, k) \in Seq(Passage)
           /\ Len(PageSplit(d, p, k)) = Pages[d][p]
           /\ \A i \in 1 .. Pages[d][p] : PageSplit(d, p, k)[i] = [page |-> p, index |-> k + i]
<1>1. Pages[d][p] \in Nat /\ p \in Nat \ {0}
  BY PagesType
<1>2. PageSplit(d, p, k) \in [1 .. Pages[d][p] -> Passage]
  BY <1>1 DEF PageSplit, Passage
<1>3. PageSplit(d, p, k) \in Seq(Passage)
  BY <1>1, <1>2, SeqDef
<1> QED BY <1>1, <1>3 DEF PageSplit

\* The splitting loop does what its rounds say.
LEMMA PassagesStep ==
    ASSUME NEW d \in Documents
    PROVE  /\ Passages(d) \in [0 .. Len(Pages[d]) -> Seq(Passage)]
           /\ Passages(d)[0] = << >>
           /\ \A p \in 1 .. Len(Pages[d]) :
                 Passages(d)[p] = Passages(d)[p - 1] \o PageSplit(d, p, Len(Passages(d)[p - 1]))
<1> DEFINE n == Len(Pages[d])
           S == Seq(Passage)
           F == [p \in 1 .. n |-> [x \in S |-> x \o PageSplit(d, p, Len(x))]]
<1>0. n \in Nat /\ << >> \in S
  BY PagesType
<1>1. ASSUME NEW p \in 1 .. n, NEW x \in S PROVE x \o PageSplit(d, p, Len(x)) \in S
  <2>1. Len(x) \in Nat
    OBVIOUS
  <2>2. PageSplit(d, p, Len(x)) \in S
    BY <2>1, PageSplitType
  <2> QED BY <2>2, ConcatProperties
<1>2. Rounds(F, n, S)
  BY <1>1 DEF Rounds
<1>3. PICK f \in [0 .. n -> S] : f[0] = << >> /\ \A p \in 1 .. n : f[p] = F[p][f[p - 1]]
  <2> HIDE DEF F, S, n
  <2>1. \E f : Run(f, << >>, F, n, S)
    BY <1>0, <1>2, PrefixRecursion
  <2> QED BY <2>1 DEF Run
<1>4. \A p \in 1 .. n : f[p - 1] \in S
  BY <1>0
<1>5. \A p \in 1 .. n : f[p] = f[p - 1] \o PageSplit(d, p, Len(f[p - 1]))
  <2> HIDE DEF S
  <2> QED BY <1>3, <1>4
<1>6. f = [p \in 0 .. n |-> IF p = 0 THEN << >> ELSE f[p - 1] \o PageSplit(d, p, Len(f[p - 1]))]
  <2> HIDE DEF S, n, F
  <2>1. \A p \in 0 .. n : p # 0 => p \in 1 .. n
    BY <1>0
  <2>2. f = [p \in 0 .. n |-> f[p]]
    BY <1>3
  <2> QED BY <1>3, <1>5, <2>1, <2>2
<1>7. Passages(d) = [p \in 0 .. n |-> IF p = 0 THEN << >>
                        ELSE Passages(d)[p - 1] \o PageSplit(d, p, Len(Passages(d)[p - 1]))]
  BY <1>6 DEF Passages, PageSplit
<1> HIDE DEF F
<1> DEFINE c == Passages(d)
<1> HIDE DEF c
<1>8. /\ c[0] = << >>
      /\ \A p \in 1 .. n : c[p] = c[p - 1] \o PageSplit(d, p, Len(c[p - 1]))
  <2>1. c = [p \in 0 .. n |-> IF p = 0 THEN << >>
                               ELSE c[p - 1] \o PageSplit(d, p, Len(c[p - 1]))]
    BY <1>7 DEF c
  <2>2. 0 \in 0 .. n /\ \A p \in 1 .. n : p \in 0 .. n /\ p # 0
    BY <1>0
  <2> HIDE DEF n
  <2> QED BY <2>1, <2>2
<1>9. \A p \in 0 .. n : c[p] \in S
  <2> DEFINE T == {p \in 0 .. n : c[p] \in S}
  <2>1. 0 \in T
    <3>1. 0 \in 0 .. n /\ c[0] \in S
      BY <1>0, <1>8
    <3> QED BY <3>1
  <2>2. ASSUME NEW p \in 1 .. n, p - 1 \in T PROVE p \in T
    <3>1. c[p - 1] \in S
      BY <2>2
    <3>2. c[p] \in S
      BY <1>1, <1>8, <3>1
    <3> QED BY <3>2
  <2>3. \A p \in T : c[p] \in S
    OBVIOUS
  <2> HIDE DEF T, S
  <2>4. \A p \in 0 .. n : p \in T
    BY <1>0, <2>1, <2>2, PrefixInduction
  <2> QED BY <2>3, <2>4
<1>10. c \in [0 .. n -> S]
  BY <1>7, <1>9 DEF c
<1> QED BY <1>8, <1>10 DEF c

\* After p pages the passages are numbered from 1 on, and they are those that RetrievalIndex
\* wants of the first p pages.
Complete(d, p) ==
    /\ Len(Passages(d)[p]) = Index!Counts(d)[p]
    /\ \A i \in 1 .. Len(Passages(d)[p]) :
          /\ Passages(d)[p][i].index = i
          /\ \E q \in 1 .. p : \E j \in 1 .. Pages[d][q] :
                Passages(d)[p][i] = [page |-> q, index |-> Index!Counts(d)[q - 1] + j]
    /\ \A q \in 1 .. p : \A j \in 1 .. Pages[d][q] :
          \E i \in 1 .. Len(Passages(d)[p]) :
             Passages(d)[p][i] = [page |-> q, index |-> Index!Counts(d)[q - 1] + j]

LEMMA CompleteRound ==
    ASSUME NEW d \in Documents, NEW p \in 1 .. Len(Pages[d]), Complete(d, p - 1)
    PROVE  Complete(d, p)
<1> DEFINE old == Passages(d)[p - 1]
           new == Passages(d)[p]
           k == Len(old)
           c == Index!Counts(d)
           m == Pages[d][p]
           s == PageSplit(d, p, k)
<1>1. /\ p \in Nat \ {0} /\ m \in Nat /\ p - 1 \in 0 .. Len(Pages[d])
      /\ \A q \in 1 .. p : q \in 1 .. p - 1 \/ q = p
      /\ \A q \in 1 .. p - 1 : q \in 1 .. p
      /\ p \in 1 .. p
  BY PagesType
<1>2. old \in Seq(Passage) /\ k \in Nat /\ new = old \o s
  <2>1. old \in Seq(Passage)
    BY <1>1, PassagesStep
  <2>2. new = old \o s
    BY PassagesStep, Zenon
  <2>3. k \in Nat
    BY <2>1, LenProperties
  <2> QED BY <2>1, <2>2, <2>3
<1>3. /\ s \in Seq(Passage) /\ Len(s) = m
      /\ \A i \in 1 .. m : s[i] = [page |-> p, index |-> k + i]
  BY <1>2, PageSplitType
<1>4. c[p] = c[p - 1] + m
  BY CountsStep
<1>5. /\ k = c[p - 1]
      /\ \A i \in 1 .. k :
            /\ old[i].index = i
            /\ \E q \in 1 .. p - 1 : \E j \in 1 .. Pages[d][q] :
                  old[i] = [page |-> q, index |-> c[q - 1] + j]
      /\ \A q \in 1 .. p - 1 : \A j \in 1 .. Pages[d][q] :
            \E i \in 1 .. k : old[i] = [page |-> q, index |-> c[q - 1] + j]
  BY DEF Complete
<1> HIDE DEF old, c, s, k
<1>6. /\ Len(new) = k + m
      /\ \A i \in 1 .. k + m : new[i] = IF i <= k THEN old[i] ELSE s[i - k]
  <2>1. Len(old) = k
    BY DEF k
  <2> HIDE DEF m, new
  <2> QED BY <1>2, <1>3, <2>1, ConcatProperties
<1> HIDE DEF new, m
<1>7. Len(new) = c[p]
  BY <1>4, <1>5, <1>6
<1>8. ASSUME NEW i \in 1 .. k + m
      PROVE  /\ new[i].index = i
             /\ \E q \in 1 .. p : \E j \in 1 .. Pages[d][q] :
                   new[i] = [page |-> q, index |-> c[q - 1] + j]
  <2>1. CASE i <= k
    <3>1. i \in 1 .. k
      BY <1>1, <1>2, <2>1
    <3>2. new[i] = old[i]
      BY <1>6, <2>1
    <3> QED BY <1>1, <1>5, <3>1, <3>2
  <2>2. CASE ~(i <= k)
    <3>1. i - k \in 1 .. m /\ k + (i - k) = i
      BY <1>1, <1>2, <2>2
    <3>2. new[i] = [page |-> p, index |-> k + (i - k)]
      BY <1>3, <1>6, <2>2, <3>1
    <3>3. new[i] = [page |-> p, index |-> c[p - 1] + (i - k)]
      BY <1>5, <3>2
    <3> QED BY <1>1, <3>1, <3>2, <3>3 DEF m
  <2> QED BY <2>1, <2>2
<1>9. ASSUME NEW q \in 1 .. p, NEW j \in 1 .. Pages[d][q]
      PROVE  \E i \in 1 .. k + m : new[i] = [page |-> q, index |-> c[q - 1] + j]
  <2>1. CASE q \in 1 .. p - 1
    <3>1. PICK i \in 1 .. k : old[i] = [page |-> q, index |-> c[q - 1] + j]
      BY <1>5, <2>1
    <3>2. i \in 1 .. k + m /\ i <= k
      BY <1>1, <1>2
    <3> QED BY <1>6, <3>1, <3>2
  <2>2. CASE q = p
    <3>1. j \in 1 .. m
      BY <2>2 DEF m
    <3>2. k + j \in 1 .. k + m /\ ~(k + j <= k) /\ (k + j) - k = j
      BY <1>1, <1>2, <3>1
    <3>3. new[k + j] = s[j]
      BY <1>6, <3>2
    <3> QED BY <1>3, <1>5, <2>2, <3>1, <3>2, <3>3
  <2> QED BY <1>1, <2>1, <2>2
<1>10. \A i \in 1 .. Len(new) :
          /\ new[i].index = i
          /\ \E q \in 1 .. p : \E j \in 1 .. Pages[d][q] :
                new[i] = [page |-> q, index |-> c[q - 1] + j]
  BY <1>6, <1>8, Zenon
<1>11. \A q \in 1 .. p : \A j \in 1 .. Pages[d][q] :
          \E i \in 1 .. Len(new) : new[i] = [page |-> q, index |-> c[q - 1] + j]
  BY <1>6, <1>9, Zenon
<1> QED BY <1>7, <1>10, <1>11, Zenon DEF Complete, new, c

\* What Split makes of a document, whatever its pages: its passages have the numbers 1, 2, ...
\* in their order, and with vectors of length n their rows are the whole that RetrievalIndex
\* lets be published.
THEOREM SplitWhole ==
    ASSUME NEW d \in Documents, NEW n
    PROVE  /\ Split(d) \in Seq(Passage)
           /\ \A i \in 1 .. Len(Split(d)) : Split(d)[i].index = i
           /\ {Row(Split(d)[i], n) : i \in 1 .. Len(Split(d))} = Index!Whole(d, n)
<1> DEFINE N == Len(Pages[d])
           T == {p \in 0 .. N : Complete(d, p)}
<1>1. N \in Nat
  BY PagesType
<1>2. 0 \in T
  <2>1. Passages(d)[0] = << >> /\ Len(<< >>) = 0 /\ Index!Counts(d)[0] = 0
    BY PassagesStep, CountsStep
  <2>2. Complete(d, 0)
    BY <2>1 DEF Complete
  <2> QED BY <1>1, <2>2
<1>3. ASSUME NEW p \in 1 .. N, p - 1 \in T PROVE p \in T
  BY <1>1, <1>3, CompleteRound
<1>4. \A p \in T : Complete(d, p)
  OBVIOUS
<1>5. N \in T
  <2> HIDE DEF T, N
  <2>1. \A p \in 0 .. N : p \in T
    BY <1>1, <1>2, <1>3, PrefixInduction
  <2> QED BY <1>1, <2>1
<1>6. Complete(d, N)
  BY <1>4, <1>5
<1>7. Split(d) = Passages(d)[N] /\ Split(d) \in Seq(Passage)
  <2>1. N \in 0 .. N
    BY <1>1
  <2>2. Passages(d)[N] \in Seq(Passage)
    BY <2>1, PassagesStep
  <2> QED BY <2>2 DEF Split
<1> DEFINE s == Passages(d)[N]
           c == Index!Counts(d)
<1>8. /\ \A i \in 1 .. Len(s) :
            /\ s[i].index = i
            /\ \E q \in 1 .. N : \E j \in 1 .. Pages[d][q] :
                  s[i] = [page |-> q, index |-> c[q - 1] + j]
      /\ \A q \in 1 .. N : \A j \in 1 .. Pages[d][q] :
            \E i \in 1 .. Len(s) : s[i] = [page |-> q, index |-> c[q - 1] + j]
  BY <1>6, Zenon DEF Complete
<1>9. DOMAIN Pages[d] = 1 .. N
  BY PagesType
<1>10. Index!Whole(d, n) =
         UNION {{[page |-> q, index |-> c[q - 1] + j, length |-> n] : j \in 1 .. Pages[d][q]}
                   : q \in 1 .. N}
  BY <1>9 DEF Index!Whole
<1> HIDE DEF s, c, N
<1>11. ASSUME NEW i \in 1 .. Len(s)
       PROVE  Row(s[i], n) \in Index!Whole(d, n)
  <2>1. PICK q \in 1 .. N : \E j \in 1 .. Pages[d][q] :
           s[i] = [page |-> q, index |-> c[q - 1] + j]
    BY <1>8
  <2>2. PICK j \in 1 .. Pages[d][q] : s[i] = [page |-> q, index |-> c[q - 1] + j]
    BY <2>1
  <2>3. Row(s[i], n) = [page |-> q, index |-> c[q - 1] + j, length |-> n]
    BY <2>2 DEF Row
  <2> QED BY <1>10, <2>3
<1>12. ASSUME NEW x \in Index!Whole(d, n)
       PROVE  \E i \in 1 .. Len(s) : x = Row(s[i], n)
  <2>0. PICK q \in 1 .. N :
           x \in {[page |-> q, index |-> c[q - 1] + j, length |-> n] : j \in 1 .. Pages[d][q]}
    BY <1>10
  <2>1. PICK j \in 1 .. Pages[d][q] : x = [page |-> q, index |-> c[q - 1] + j, length |-> n]
    BY <2>0
  <2>2. PICK i \in 1 .. Len(s) : s[i] = [page |-> q, index |-> c[q - 1] + j]
    BY <1>8
  <2>3. x = Row(s[i], n)
    BY <2>1, <2>2 DEF Row
  <2> QED BY <2>3
<1>13. {Row(s[i], n) : i \in 1 .. Len(s)} = Index!Whole(d, n)
  BY <1>11, <1>12
<1> QED BY <1>7, <1>8, <1>13 DEF s

-----------------------------------------------------------------------------
(* What a worker has prepared                                              *)

RowType == [page : Nat \ {0}, index : Nat \ {0}, length : Lengths]

WorkerType == [pc : WorkerSteps, doc : Documents \cup {None}, passages : Seq(Passage),
               vectors : Seq(Lengths), rows : SUBSET RowType]

\* The rows of the first k passages.
FirstRows(w, k) == {Row(w.passages[i], w.vectors[i]) : i \in 1 .. k}

Working   == {"embed", "begin"} \cup Saving
Inserting == {"insert", "commit"}

\* A worker that embeds or saves has all passages of its document, vectors of one length, one
\* for each passage when it saves, and has inserted a prefix of the rows, at the commit all.
Prep(w) ==
    /\ w.pc # "idle" => w.doc \in Documents
    /\ w.pc = "extract" => w.vectors = << >>
    /\ w.pc \in Working => /\ w.passages = Split(w.doc) /\ w.passages # << >>
                           /\ Len(w.vectors) <= Len(w.passages)
    /\ w.pc \in Working \ {"embed"} => Len(w.vectors) = Len(w.passages)
    /\ \A i \in 1 .. Len(w.vectors) : w.vectors[i] = w.vectors[1]
    /\ w.pc \notin Inserting => w.rows = {}
    /\ w.pc \in Inserting => \E k \in 0 .. Len(w.passages) :
                                /\ w.rows = FirstRows(w, k)
                                /\ w.pc = "commit" => k = Len(w.passages)

Preps == \A s \in Workers : Prep(worker[s])

\* Inserting one row after the other makes one more row each time: no two have one number.
LEMMA FirstRowsGrow ==
    ASSUME NEW w \in WorkerType, w.doc \in Documents, w.passages = Split(w.doc),
           Len(w.vectors) = Len(w.passages), NEW k \in 0 .. Len(w.passages)
    PROVE  /\ IsFiniteSet(FirstRows(w, k)) /\ Cardinality(FirstRows(w, k)) = k
           /\ FirstRows(w, k) \subseteq RowType
           /\ k # Len(w.passages) =>
                 FirstRows(w, k + 1)
                    = FirstRows(w, k) \cup {Row(w.passages[k + 1], w.vectors[k + 1])}
<1> DEFINE n == Len(w.passages)
           R(i) == Row(w.passages[i], w.vectors[i])
<1>0. w.passages \in Seq(Passage) /\ w.vectors \in Seq(Lengths) /\ n \in Nat
  BY LenProperties DEF WorkerType
<1>1. ASSUME NEW i \in 1 .. n PROVE R(i) \in RowType /\ R(i).index = i
  <2>1. w.passages[i] \in Passage /\ w.passages[i].index = i
    BY <1>0, ElementOfSeq, SplitWhole
  <2>2. w.vectors[i] \in Lengths
    BY <1>0, ElementOfSeq
  <2> QED BY <2>1, <2>2 DEF Row, RowType, Passage
<1>2. ASSUME NEW j \in 1 .. n
      PROVE  FirstRows(w, j) = FirstRows(w, j - 1) \cup {R(j)}
  <2>1. \A i : i \in 1 .. j <=> i \in 1 .. j - 1 \/ i = j
    BY <1>0
  <2> HIDE DEF R
  <2>2. \A m : FirstRows(w, m) = {R(i) : i \in 1 .. m}
    BY DEF FirstRows, R
  <2> QED BY <2>1, <2>2
<1> HIDE DEF R
<1>3. ASSUME NEW j \in 0 .. n PROVE \A x \in FirstRows(w, j) : x \in RowType /\ x.index \in 1 .. j
  <2>1. \A x \in FirstRows(w, j) : \E i \in 1 .. j : x = R(i)
    BY DEF FirstRows, R
  <2>2. \A i \in 1 .. j : i \in 1 .. n
    BY <1>0
  <2> QED BY <1>1, <2>1, <2>2
<1> DEFINE T == {j \in 0 .. n : IsFiniteSet(FirstRows(w, j)) /\ Cardinality(FirstRows(w, j)) = j}
<1>4. 0 \in T
  <2>1. FirstRows(w, 0) = {}
    BY DEF FirstRows
  <2>2. IsFiniteSet(FirstRows(w, 0)) /\ Cardinality(FirstRows(w, 0)) = 0
    BY <2>1, FS_EmptySet
  <2> QED BY <1>0, <2>2
<1>5. ASSUME NEW j \in 1 .. n, j - 1 \in T PROVE j \in T
  <2>1. IsFiniteSet(FirstRows(w, j - 1)) /\ Cardinality(FirstRows(w, j - 1)) = j - 1
        /\ j - 1 \in 0 .. n /\ j \in 0 .. n /\ (j - 1) + 1 = j /\ j \notin 1 .. j - 1
    BY <1>0, <1>5
  <2>2. R(j) \notin FirstRows(w, j - 1)
    BY <1>1, <1>3, <2>1
  <2>3. /\ IsFiniteSet(FirstRows(w, j - 1) \cup {R(j)})
        /\ Cardinality(FirstRows(w, j - 1) \cup {R(j)}) = Cardinality(FirstRows(w, j - 1)) + 1
    BY <2>1, <2>2, FS_AddElement
  <2>4. IsFiniteSet(FirstRows(w, j)) /\ Cardinality(FirstRows(w, j)) = j
    BY <1>0, <1>2, <2>1, <2>3
  <2> QED BY <2>1, <2>4
<1>6. \A j \in T : IsFiniteSet(FirstRows(w, j)) /\ Cardinality(FirstRows(w, j)) = j
  OBVIOUS
<1>7. k \in T
  <2> HIDE DEF T
  <2>1. \A j \in 0 .. n : j \in T
    BY <1>0, <1>4, <1>5, PrefixInduction
  <2> QED BY <2>1
<1>8. FirstRows(w, k) \subseteq RowType
  BY <1>3
<1>9. k # n => FirstRows(w, k + 1) = FirstRows(w, k) \cup {R(k + 1)}
  <2>1. k # n => k + 1 \in 1 .. n /\ (k + 1) - 1 = k
    BY <1>0
  <2> QED BY <1>2, <2>1
<1> QED BY <1>6, <1>7, <1>8, <1>9 DEF R

\* What a step makes of its worker: another record of the kind.
Becomes(s, w) == w \in WorkerType /\ Prep(w) /\ worker' = [worker EXCEPT ![s] = w]

\* A worker that is idle, starts or fails has prepared nothing that counts.
LEMMA FreshForm ==
    ASSUME NEW pc \in {"idle", "extract", "fail"}, NEW d \in Documents \cup {None},
           pc # "idle" => d \in Documents
    PROVE  Worker(pc, d) \in WorkerType /\ Prep(Worker(pc, d))
<1>1. << >> \in Seq(Passage) /\ << >> \in Seq(Lengths) /\ Len(<< >>) = 0
  OBVIOUS
<1> DEFINE w == Worker(pc, d)
<1>2. /\ w.pc = pc /\ w.doc = d /\ w.passages = << >> /\ w.vectors = << >> /\ w.rows = {}
      /\ w \in WorkerType
  BY <1>1 DEF Worker, WorkerType, WorkerSteps
<1> HIDE DEF w
<1>3. Len(w.vectors) = 0
  BY <1>1, <1>2
<1>4. Prep(w)
  BY <1>2, <1>3 DEF Prep, Working, Inserting, Saving
<1> QED BY <1>2, <1>4 DEF w

LEMMA WorkersTyped == TypeOK => worker \in [Workers -> WorkerType]
BY DEF TypeOK, WorkerType, RowType

\* Going on to another step, with what the worker has.
LEMMA GotoForm ==
    ASSUME TypeOK, NEW s \in Workers, NEW pc \in WorkerSteps, Goto(s, pc),
           Prep([worker[s] EXCEPT !.pc = pc])
    PROVE  \E w : Becomes(s, w) /\ w = [worker[s] EXCEPT !.pc = pc]
<1> DEFINE w == [worker[s] EXCEPT !.pc = pc]
<1>1. worker \in [Workers -> WorkerType]
  BY WorkersTyped
<1>2. w \in WorkerType
  BY <1>1 DEF WorkerType
<1>3. worker' = [worker EXCEPT ![s] = w]
  BY <1>1 DEF Goto
<1> QED BY <1>2, <1>3 DEF Becomes

\* A worker that fails, saving or not, is left with its document.
LEMMA FailsForm ==
    ASSUME TypeOK, NEW s \in Workers, Prep(worker[s]), worker[s].pc # "idle", Fails(s)
    PROVE  \E w : Becomes(s, w) /\ w.pc = "fail"
<1> DEFINE w == Worker("fail", worker[s].doc)
<1>1. worker \in [Workers -> WorkerType] /\ worker[s].doc \in Documents
  BY WorkersTyped DEF Prep
<1>2. worker' = [worker EXCEPT ![s] = w]
  BY <1>1 DEF Fails
<1>3. w \in WorkerType /\ Prep(w) /\ w.pc = "fail"
  BY <1>1, FreshForm DEF Worker
<1> HIDE DEF w
<1> QED BY <1>2, <1>3 DEF Becomes

\* Extraction gives all passages of the document.
LEMMA ExtractForm ==
    ASSUME TypeOK, NEW s \in Workers, Prep(worker[s]), Extract(s)
    PROVE  \E w : Becomes(s, w) /\ w.pc \in {"embed", "fail"}
<1> DEFINE old == worker[s]
           w == [old EXCEPT !.pc = "embed", !.passages = Split(old.doc)]
<1>1. worker \in [Workers -> WorkerType] /\ old \in WorkerType
  BY WorkersTyped
<1>2. old.pc = "extract" /\ old.doc \in Documents /\ old.rows = {} /\ old.vectors = << >>
  BY DEF Extract, Prep, Inserting
<1>3. CASE /\ Split(old.doc) # << >>
           /\ worker' = [worker EXCEPT ![s].pc = "embed", ![s].passages = Split(old.doc)]
  <2>1. Split(old.doc) \in Seq(Passage)
    BY <1>2, SplitWhole
  <2>2. worker' = [worker EXCEPT ![s] = w]
    BY <1>1, <1>3 DEF WorkerType
  <2>3. /\ w \in WorkerType
        /\ w.pc = "embed" /\ w.doc = old.doc /\ w.passages = Split(old.doc)
        /\ w.vectors = << >> /\ w.rows = {}
    BY <1>1, <1>2, <2>1 DEF WorkerType, WorkerSteps
  <2>4. Len(w.vectors) = 0 /\ Len(w.passages) \in Nat
    BY <2>1, <2>3
  <2> HIDE DEF w
  <2>5. Prep(w)
    BY <1>2, <1>3, <2>3, <2>4 DEF Prep, Working, Inserting, Saving
  <2> QED BY <2>2, <2>3, <2>5 DEF Becomes
<1>4. CASE Fails(s)
  BY <1>2, <1>4, FailsForm
<1> QED BY <1>3, <1>4 DEF Extract

\* A batch that is accepted has vectors of the length of those before it.
LEMMA BatchAccepted ==
    ASSUME NEW v \in Seq(Lengths), NEW n \in Nat, NEW batch \in Embeddings(n), Accepted(v, batch),
           \A i \in 1 .. Len(v) : v[i] = v[1]
    PROVE  /\ v \o batch \in Seq(Lengths)
           /\ Len(v \o batch) = Len(v) + n
           /\ \A i \in 1 .. Len(v) + n : (v \o batch)[i] = (v \o batch)[1]
<1>1. DOMAIN batch = 1 .. n
  BY DEF Embeddings
<1>2. \A i \in 1 .. n : batch[i] \in Lengths /\ batch[i] = (v \o batch)[1]
  BY <1>1 DEF Accepted, Embeddings
<1>3. batch \in [1 .. n -> Lengths]
  BY <1>2 DEF Embeddings
<1>4. batch \in Seq(Lengths) /\ Len(batch) = n
  BY <1>3, SeqDef, LenProperties
<1> DEFINE u == v \o batch
<1>5. /\ u \in Seq(Lengths) /\ Len(u) = Len(v) + n /\ Len(v) \in Nat
      /\ \A i \in 1 .. Len(v) + n : u[i] = IF i <= Len(v) THEN v[i] ELSE batch[i - Len(v)]
  BY <1>4, ConcatProperties, LenProperties
<1>6. \A i \in 1 .. n : batch[i] = u[1]
  BY <1>2
<1> HIDE DEF u
<1>7. ASSUME NEW i \in 1 .. Len(v) + n PROVE u[i] = u[1]
  <2>1. CASE i <= Len(v)
    <3>1. i \in 1 .. Len(v) /\ 1 \in 1 .. Len(v) + n /\ 1 <= Len(v)
      BY <1>5, <2>1
    <3> QED BY <1>5, <2>1, <3>1
  <2>2. CASE ~(i <= Len(v))
    <3>1. i - Len(v) \in 1 .. n
      BY <1>5, <2>2
    <3> QED BY <1>5, <1>6, <2>2, <3>1
  <2> QED BY <2>1, <2>2
<1> QED BY <1>5, <1>7 DEF u

LEMMA EmbedForm ==
    ASSUME TypeOK, NEW s \in Workers, Prep(worker[s]), EmbedBatch(s)
    PROVE  \E w : Becomes(s, w) /\ w.pc \in {"embed", "fail"}
<1> DEFINE old == worker[s]
           left == Len(old.passages) - Len(old.vectors)
           size == IF left < BatchSize THEN left ELSE BatchSize
<1>1. worker \in [Workers -> WorkerType] /\ old \in WorkerType
  BY WorkersTyped
<1>2. /\ old.pc = "embed" /\ left > 0
      /\ \/ \E batch \in Embeddings(size) :
               /\ Accepted(old.vectors, batch)
               /\ worker' = [worker EXCEPT ![s].vectors = @ \o batch]
         \/ Fails(s)
  BY DEF EmbedBatch
<1>3. /\ old.doc \in Documents /\ old.passages = Split(old.doc) /\ old.passages # << >>
      /\ old.rows = {}
      /\ \A i \in 1 .. Len(old.vectors) : old.vectors[i] = old.vectors[1]
  BY <1>2 DEF Prep, Working, Inserting
<1>4. /\ old.vectors \in Seq(Lengths) /\ old.passages \in Seq(Passage)
      /\ Len(old.vectors) \in Nat /\ Len(old.passages) \in Nat
  BY <1>1, LenProperties DEF WorkerType
<1>5. size \in Nat /\ Len(old.vectors) + size <= Len(old.passages)
  <2> DEFINE a == Len(old.passages)
             b == Len(old.vectors)
  <2>1. a \in Nat /\ b \in Nat /\ BatchSize \in Nat /\ a - b > 0
    BY <1>2, <1>4, BatchAssumption
  <2> HIDE DEF a, b
  <2>2. LET z == IF a - b < BatchSize THEN a - b ELSE BatchSize IN z \in Nat /\ b + z <= a
    BY <2>1
  <2> QED BY <2>2 DEF a, b
<1>6. ASSUME NEW batch \in Embeddings(size), Accepted(old.vectors, batch),
             worker' = [worker EXCEPT ![s].vectors = @ \o batch]
      PROVE  \E w : Becomes(s, w) /\ w.pc = "embed"
  <2> DEFINE u == old.vectors \o batch
             w == [old EXCEPT !.vectors = u]
  <2> HIDE DEF size
  <2>1. /\ u \in Seq(Lengths) /\ Len(u) = Len(old.vectors) + size
        /\ \A i \in 1 .. Len(u) : u[i] = u[1]
    BY <1>3, <1>4, <1>5, <1>6, BatchAccepted
  <2>2. worker' = [worker EXCEPT ![s] = w]
    BY <1>1, <1>6 DEF WorkerType
  <2> HIDE DEF u
  <2>3. /\ w \in WorkerType
        /\ w.pc = "embed" /\ w.doc = old.doc /\ w.passages = old.passages
        /\ w.vectors = u /\ w.rows = {}
    BY <1>1, <1>2, <1>3, <2>1 DEF WorkerType
  <2> HIDE DEF w
  <2>4. Prep(w)
    BY <1>3, <1>5, <2>1, <2>3 DEF Prep, Working, Inserting, Saving
  <2> QED BY <2>2, <2>3, <2>4 DEF Becomes
<1>7. CASE Fails(s)
  BY <1>2, <1>7, FailsForm
<1> QED BY <1>2, <1>6, <1>7

-----------------------------------------------------------------------------
(* What the steps do to a worker and to the lock                           *)

\* The worker goes on without the lock or keeps it, with its vectors.
KeepsLock(s, w) ==
    /\ w.pc \in Saving <=> worker[s].pc \in Saving
    /\ w.pc \in Saving => w.vectors = worker[s].vectors
    /\ UNCHANGED <<dimension, chunks, lock>>

TakesLock(s, w) ==
    /\ w.pc = "clear" /\ lock = None /\ lock' = s
    /\ dimension \in {0, w.vectors[1]}
    /\ UNCHANGED <<dimension, chunks>>

DropsLock(s, w) ==
    /\ w.pc \notin Saving /\ lock' = IF lock = s THEN None ELSE lock
    /\ UNCHANGED <<dimension, chunks>>

Publishes(s, w) ==
    /\ worker[s].pc = "commit" /\ w.pc \notin Saving /\ Publish(s)

Effect(s, w) == KeepsLock(s, w) \/ TakesLock(s, w) \/ DropsLock(s, w) \/ Publishes(s, w)

\* One of the workers moves, or a document is deleted.
Moves(s) == \E w : Becomes(s, w) /\ Effect(s, w)

\* With the vectors of a document in hand there is a first one.
LEMMA FirstVector ==
    ASSUME NEW w \in WorkerType, Prep(w), w.pc \in Working \ {"embed"}
    PROVE  /\ w.vectors[1] \in Lengths
           /\ \A i \in 1 .. Len(w.passages) : w.vectors[i] = w.vectors[1]
<1>1. /\ w.passages \in Seq(Passage) /\ w.vectors \in Seq(Lengths) /\ w.passages # << >>
      /\ Len(w.vectors) = Len(w.passages)
      /\ \A i \in 1 .. Len(w.vectors) : w.vectors[i] = w.vectors[1]
  BY DEF WorkerType, Prep
<1>2. Len(w.vectors) \in Nat /\ Len(w.vectors) # 0
  BY <1>1, EmptySeq
<1>3. 1 \in 1 .. Len(w.vectors)
  BY <1>2
<1> QED BY <1>1, <1>3, ElementOfSeq

\* Going on to another step: what Prep says of the new record, from the old one.
LEMMA GoOn ==
    ASSUME NEW w \in WorkerType, Prep(w), NEW pc \in WorkerSteps,
           \/ w.pc = "embed" /\ pc = "begin" /\ Len(w.vectors) = Len(w.passages)
           \/ w.pc = "begin" /\ pc = "clear"
           \/ w.pc = "clear" /\ pc = "insert"
           \/ w.pc = "insert" /\ pc = "commit" /\ w.rows = FirstRows(w, Len(w.passages))
    PROVE  Prep([w EXCEPT !.pc = pc])
<1> DEFINE v == [w EXCEPT !.pc = pc]
<1>1. /\ v.pc = pc /\ v.doc = w.doc /\ v.passages = w.passages /\ v.vectors = w.vectors
      /\ v.rows = w.rows
  BY DEF WorkerType
<1>2. \A k : FirstRows(v, k) = FirstRows(w, k)
  BY <1>1 DEF FirstRows
<1>3. w.passages \in Seq(Passage) /\ Len(w.passages) \in Nat
  BY LenProperties DEF WorkerType
<1> DEFINE n == Len(w.passages)
<1>4. n \in 0 .. n /\ 0 \in 0 .. n
  BY <1>3
<1>5. /\ w.pc \in Working /\ pc \in Working \ {"embed"} /\ Len(w.vectors) = n
      /\ w.doc \in Documents /\ w.passages = Split(w.doc) /\ w.passages # << >>
      /\ \A i \in 1 .. Len(w.vectors) : w.vectors[i] = w.vectors[1]
      /\ pc # "extract" /\ pc # "idle"
  BY DEF Prep, Working, Saving
<1>6. pc \notin Inserting => v.rows = {}
  BY <1>1 DEF Prep, Inserting
<1>7. pc \in Inserting => \E k \in 0 .. n : v.rows = FirstRows(v, k) /\ (pc = "commit" => k = n)
  <2>1. CASE pc = "insert"
    <3>1. w.rows = {}
      BY <2>1 DEF Prep, Inserting
    <3>2. FirstRows(v, 0) = {}
      BY DEF FirstRows
    <3> QED BY <1>1, <1>4, <2>1, <3>1, <3>2
  <2>2. CASE pc = "commit"
    <3>1. v.rows = FirstRows(v, n)
      BY <1>1, <1>2, <2>2
    <3> QED BY <1>4, <3>1
  <2> QED BY <2>1, <2>2 DEF Inserting
<1> HIDE DEF v
<1>8. n <= n
  BY <1>3
<1> HIDE DEF n
<1>9. Prep(v)
  BY <1>1, <1>5, <1>6, <1>7, <1>8 DEF Prep, n
<1> QED BY <1>9 DEF v

LEMMA ExtractMoves ==
    ASSUME TypeOK, NEW s \in Workers, Prep(worker[s]), Extract(s) PROVE Moves(s)
<1>1. PICK w : Becomes(s, w) /\ w.pc \in {"embed", "fail"}
  BY ExtractForm
<1>2. KeepsLock(s, w)
  BY <1>1 DEF KeepsLock, Extract, Saving
<1> QED BY <1>1, <1>2 DEF Moves, Effect

LEMMA EmbedMoves ==
    ASSUME TypeOK, NEW s \in Workers, Prep(worker[s]), EmbedBatch(s) PROVE Moves(s)
<1>1. PICK w : Becomes(s, w) /\ w.pc \in {"embed", "fail"}
  BY EmbedForm
<1>2. worker[s].pc = "embed" /\ UNCHANGED <<dimension, chunks, lock>>
  BY DEF EmbedBatch
<1>3. KeepsLock(s, w)
  BY <1>1, <1>2 DEF KeepsLock, Saving
<1> QED BY <1>1, <1>3 DEF Moves, Effect

\* A transaction that fails.
LEMMA RollbackMoves ==
    ASSUME TypeOK, NEW s \in Workers, Prep(worker[s]), worker[s].pc # "idle", Rollback(s)
    PROVE  Moves(s)
<1>1. PICK w : Becomes(s, w) /\ w.pc = "fail"
  BY FailsForm DEF Rollback
<1>2. DropsLock(s, w)
  BY <1>1 DEF DropsLock, Rollback, Saving
<1> QED BY <1>1, <1>2 DEF Moves, Effect

\* A worker goes on without touching the base.
LEMMA GotoMoves ==
    ASSUME TypeOK, NEW s \in Workers, NEW pc \in WorkerSteps, Goto(s, pc),
           Prep([worker[s] EXCEPT !.pc = pc]), pc \in Saving <=> worker[s].pc \in Saving,
           UNCHANGED <<dimension, chunks, lock>>
    PROVE  Moves(s)
<1>1. PICK w : Becomes(s, w) /\ w = [worker[s] EXCEPT !.pc = pc]
  BY GotoForm
<1>2. worker[s] \in WorkerType
  BY WorkersTyped
<1>3. w.pc = pc /\ w.vectors = worker[s].vectors
  BY <1>1, <1>2 DEF WorkerType
<1>4. KeepsLock(s, w)
  BY <1>3 DEF KeepsLock
<1> QED BY <1>1, <1>4 DEF Moves, Effect

LEMMA PreparedMoves ==
    ASSUME TypeOK, NEW s \in Workers, Prep(worker[s]), Prepared(s) PROVE Moves(s)
<1>1. /\ worker[s].pc = "embed" /\ Len(worker[s].vectors) = Len(worker[s].passages)
      /\ Goto(s, "begin") /\ UNCHANGED <<dimension, chunks, lock>>
  BY DEF Prepared
<1>2. worker[s] \in WorkerType /\ "begin" \in WorkerSteps
  BY WorkersTyped DEF WorkerSteps
<1>3. Prep([worker[s] EXCEPT !.pc = "begin"])
  BY <1>1, <1>2, GoOn
<1> QED BY <1>1, <1>2, <1>3, GotoMoves DEF Saving

LEMMA LockMoves ==
    ASSUME TypeOK, NEW s \in Workers, Prep(worker[s]), LockBase(s) PROVE Moves(s)
<1>1. worker[s] \in WorkerType /\ worker[s].pc = "begin" /\ lock = None
      /\ "clear" \in WorkerSteps
  BY WorkersTyped DEF LockBase, WorkerSteps
<1>2. CASE /\ dimension \in {0, worker[s].vectors[1]} /\ lock' = s /\ Goto(s, "clear")
           /\ UNCHANGED <<dimension, chunks>>
  <2>1. Prep([worker[s] EXCEPT !.pc = "clear"])
    BY <1>1, GoOn
  <2>2. PICK w : Becomes(s, w) /\ w = [worker[s] EXCEPT !.pc = "clear"]
    BY <1>1, <1>2, <2>1, GotoForm
  <2>3. w.pc = "clear" /\ w.vectors = worker[s].vectors
    BY <1>1, <2>2 DEF WorkerType
  <2>4. TakesLock(s, w)
    BY <1>1, <1>2, <2>3 DEF TakesLock
  <2> QED BY <2>2, <2>4 DEF Moves, Effect
<1>3. CASE Rollback(s)
  BY <1>1, <1>3, RollbackMoves
<1> QED BY <1>2, <1>3 DEF LockBase

LEMMA ClearMoves ==
    ASSUME TypeOK, NEW s \in Workers, Prep(worker[s]), ClearChunks(s) PROVE Moves(s)
<1>1. worker[s] \in WorkerType /\ worker[s].pc = "clear" /\ "insert" \in WorkerSteps
  BY WorkersTyped DEF ClearChunks, WorkerSteps
<1>2. CASE Goto(s, "insert") /\ UNCHANGED <<dimension, chunks, status, lock, deleting, takes>>
  <2>1. Prep([worker[s] EXCEPT !.pc = "insert"])
    BY <1>1, GoOn
  <2> QED BY <1>1, <1>2, <2>1, GotoMoves DEF Saving
<1>3. CASE Rollback(s)
  BY <1>1, <1>3, RollbackMoves
<1> QED BY <1>2, <1>3 DEF ClearChunks

\* Of a worker that inserts: the rows it has inserted are those of as many passages.
LEMMA InsertedSoFar ==
    ASSUME TypeOK, NEW s \in Workers, Prep(worker[s]), worker[s].pc \in Inserting
    PROVE  /\ Cardinality(worker[s].rows) \in 0 .. Len(worker[s].passages)
           /\ worker[s].rows = FirstRows(worker[s], Cardinality(worker[s].rows))
<1> DEFINE w == worker[s]
<1>1. w \in WorkerType
  BY WorkersTyped
<1>2. /\ w.doc \in Documents /\ w.passages = Split(w.doc) /\ Len(w.vectors) = Len(w.passages)
  BY DEF Prep, Inserting, Working, Saving
<1>3. PICK k \in 0 .. Len(w.passages) : w.rows = FirstRows(w, k)
  BY DEF Prep
<1>4. Cardinality(FirstRows(w, k)) = k
  BY <1>1, <1>2, FirstRowsGrow
<1> QED BY <1>3, <1>4

LEMMA InsertMoves ==
    ASSUME TypeOK, NEW s \in Workers, Prep(worker[s]), InsertChunk(s) PROVE Moves(s)
<1> DEFINE old == worker[s]
           n == Len(old.passages)
           k == Cardinality(old.rows)
           row == Row(old.passages[k + 1], old.vectors[k + 1])
<1>1. old \in WorkerType /\ old.pc = "insert" /\ worker \in [Workers -> WorkerType]
  BY WorkersTyped DEF InsertChunk
<1>2. CASE /\ k + 1 <= n
           /\ worker' = [worker EXCEPT ![s].rows = @ \cup {row}]
           /\ UNCHANGED <<dimension, chunks, status, lock, deleting, takes>>
  <2> DEFINE w == [old EXCEPT !.rows = @ \cup {row}]
  <2>1. old.rows = FirstRows(old, k) /\ k \in 0 .. n
    BY <1>1, InsertedSoFar DEF Inserting
  <2>2. /\ old.doc \in Documents /\ old.passages = Split(old.doc) /\ old.passages # << >>
        /\ Len(old.vectors) = n /\ Len(old.vectors) <= n
        /\ \A i \in 1 .. Len(old.vectors) : old.vectors[i] = old.vectors[1]
    BY <1>1 DEF Prep, Working, Saving
  <2>3. n \in Nat
    BY <1>1, LenProperties DEF WorkerType
  <2>4. k # n /\ k + 1 \in 0 .. n
    BY <1>2, <2>1, <2>3
  <2>5. FirstRows(old, k + 1) = old.rows \cup {row}
    BY <1>1, <2>1, <2>2, <2>4, FirstRowsGrow
  <2>6. FirstRows(old, k + 1) \subseteq RowType
    BY <1>1, <2>2, <2>4, FirstRowsGrow
  <2> HIDE DEF row, k
  <2>7. worker' = [worker EXCEPT ![s] = w]
    BY <1>1, <1>2 DEF WorkerType
  <2>8. /\ w \in WorkerType
        /\ w.pc = "insert" /\ w.doc = old.doc /\ w.passages = old.passages
        /\ w.vectors = old.vectors /\ w.rows = old.rows \cup {row}
    BY <1>1, <2>5, <2>6 DEF WorkerType
  <2> HIDE DEF w
  <2>9. FirstRows(w, k + 1) = FirstRows(old, k + 1)
    BY <2>8 DEF FirstRows
  <2>10. \E j \in 0 .. Len(w.passages) :
            w.rows = FirstRows(w, j) /\ (w.pc = "commit" => j = Len(w.passages))
    BY <2>4, <2>5, <2>8, <2>9
  <2>11. Prep(w)
    BY <2>2, <2>8, <2>10 DEF Prep, Working, Inserting, Saving
  <2>12. KeepsLock(s, w)
    BY <1>1, <1>2, <2>8 DEF KeepsLock, Saving
  <2> QED BY <2>7, <2>8, <2>11, <2>12 DEF Moves, Effect, Becomes
<1>3. CASE Rollback(s)
  BY <1>1, <1>3, RollbackMoves
<1> QED BY <1>2, <1>3 DEF InsertChunk

LEMMA MarkMoves ==
    ASSUME TypeOK, NEW s \in Workers, Prep(worker[s]), MarkReady(s) PROVE Moves(s)
<1>1. /\ worker[s] \in WorkerType /\ worker[s].pc = "insert" /\ "commit" \in WorkerSteps
      /\ Cardinality(worker[s].rows) = Len(worker[s].passages)
  BY WorkersTyped DEF MarkReady, WorkerSteps
<1>2. CASE Goto(s, "commit") /\ UNCHANGED <<dimension, chunks, status, lock, deleting, takes>>
  <2>1. worker[s].rows = FirstRows(worker[s], Len(worker[s].passages))
    BY <1>1, InsertedSoFar DEF Inserting
  <2>2. Prep([worker[s] EXCEPT !.pc = "commit"])
    BY <1>1, <2>1, GoOn
  <2> QED BY <1>1, <1>2, <2>2, GotoMoves DEF Saving
<1>3. CASE Rollback(s)
  BY <1>1, <1>3, RollbackMoves
<1> QED BY <1>2, <1>3 DEF MarkReady

\* After the commit, acknowledged or not, the worker has nothing in its hands.
LEMMA CommitMoves ==
    ASSUME TypeOK, NEW s \in Workers, Prep(worker[s]), Commit(s) PROVE Moves(s)
<1>1. /\ worker[s] \in WorkerType /\ worker[s].pc = "commit" /\ worker[s].doc \in Documents
      /\ worker \in [Workers -> WorkerType]
  BY WorkersTyped DEF Commit, Prep
<1>2. ASSUME Publish(s), NEW w \in WorkerType, Prep(w), w.pc \notin Saving,
             worker' = [worker EXCEPT ![s] = w]
      PROVE  Moves(s)
  BY <1>1, <1>2 DEF Moves, Effect, Publishes, Becomes
<1>3. CASE Publish(s) /\ worker' = [worker EXCEPT ![s] = Idle]
  <2>1. Idle \in WorkerType /\ Prep(Idle) /\ Idle.pc \notin Saving
    BY FreshForm DEF Idle, Worker, Saving
  <2> QED BY <1>2, <1>3, <2>1
<1>4. CASE Publish(s) /\ Fails(s)
  <2> DEFINE w == Worker("fail", worker[s].doc)
  <2>1. w \in WorkerType /\ Prep(w) /\ w.pc \notin Saving
    BY <1>1, FreshForm DEF Worker, Saving
  <2>2. worker' = [worker EXCEPT ![s] = w]
    BY <1>1, <1>4 DEF Fails
  <2> HIDE DEF w
  <2> QED BY <1>2, <1>4, <2>1, <2>2
<1>5. CASE Rollback(s)
  BY <1>1, <1>5, RollbackMoves
<1> QED BY <1>3, <1>4, <1>5 DEF Commit

LEMMA FailMoves ==
    ASSUME TypeOK, NEW s \in Workers, FailDocument(s) PROVE Moves(s)
<1>1. Idle \in WorkerType /\ Prep(Idle) /\ Idle.pc = "idle"
  BY FreshForm DEF Idle, Worker
<1>2. Becomes(s, Idle)
  BY <1>1 DEF Becomes, FailDocument
<1>3. KeepsLock(s, Idle)
  BY <1>1 DEF KeepsLock, FailDocument, Saving
<1> QED BY <1>2, <1>3 DEF Moves, Effect

LEMMA CrashMoves ==
    ASSUME TypeOK, NEW s \in Workers, Crash(s) PROVE Moves(s)
<1>1. Idle \in WorkerType /\ Prep(Idle) /\ Idle.pc = "idle"
  BY FreshForm DEF Idle, Worker
<1>2. Becomes(s, Idle)
  BY <1>1 DEF Becomes, Crash
<1>3. DropsLock(s, Idle)
  BY <1>1 DEF DropsLock, Crash, Saving
<1> QED BY <1>2, <1>3 DEF Moves, Effect

LEMMA TakeMoves ==
    ASSUME TypeOK, NEW s \in Workers, NEW d \in Documents, Take(s, d) PROVE Moves(s)
<1> DEFINE w == Worker("extract", d)
<1>1. w \in WorkerType /\ Prep(w)
  BY FreshForm
<1>2. w.pc = "extract"
  BY DEF Worker
<1> HIDE DEF w
<1>3. Becomes(s, w)
  BY <1>1 DEF Becomes, Take, w
<1>4. KeepsLock(s, w)
  BY <1>2 DEF KeepsLock, Take, Saving
<1> QED BY <1>3, <1>4 DEF Moves, Effect

LEMMA WorkerMoves ==
    ASSUME TypeOK, Preps, NEW s \in Workers,
           WorkerStep(s) \/ Crash(s) \/ \E d \in Documents : Take(s, d)
    PROVE  Moves(s)
<1>1. Prep(worker[s])
  BY DEF Preps
<1> QED BY <1>1, ExtractMoves, EmbedMoves, PreparedMoves, LockMoves, ClearMoves, InsertMoves,
           MarkMoves, CommitMoves, FailMoves, CrashMoves, TakeMoves DEF WorkerStep

-----------------------------------------------------------------------------
(* Types, the lock of the base and the lengths of its vectors              *)

\* A worker that saves found the dimension to be its own, or NULL, and since it has the lock
\* nobody else sets it.
SavingFits == \A s \in Workers : worker[s].pc \in Saving => dimension \in {0, worker[s].vectors[1]}

\* The rows of a base have the length it is committed to.
ChunksFit == \A d \in Documents : \A row \in chunks[d] : row.length = dimension

Inv == TypeOK /\ Preps /\ SavingFits /\ ChunksFit

LEMMA PublicationStarts == Init => Inv
<1> SUFFICES ASSUME Init PROVE Inv
  OBVIOUS
<1>1. Idle \in WorkerType /\ Prep(Idle) /\ Idle.pc = "idle"
  BY FreshForm DEF Idle, Worker
<1>2. \A s \in Workers : worker[s] = Idle
  BY DEF Init
<1>3. worker \in [Workers -> WorkerType]
  BY <1>1 DEF Init
<1>4. \A s \in Workers : lock # s
  BY NoneAssumption DEF Init
<1>5. TypeOK
  <2>1. takes \in 0 .. MaxTakes
    BY BoundAssumption DEF Init
  <2>2. chunks \in [Documents -> SUBSET RowType]
    BY DEF Init
  <2>3. \A s \in Workers : worker[s].pc \in Saving <=> lock = s
    BY <1>1, <1>2, <1>4 DEF Saving
  <2>4. /\ dimension \in Lengths \cup {0} /\ lock \in Workers \cup {None}
        /\ status \in [Documents -> {"processing", "ready", "failed", "deleted"}]
    BY DEF Init
  <2>5. deleting \subseteq Documents
    BY DEF Init
  <2> QED BY <1>3, <2>1, <2>2, <2>3, <2>4, <2>5 DEF TypeOK, WorkerType, RowType
<1>6. Preps
  BY <1>1, <1>2 DEF Preps
<1>7. SavingFits
  BY <1>1, <1>2 DEF SavingFits, Saving
<1>8. ChunksFit
  BY DEF ChunksFit, Init
<1> QED BY <1>5, <1>6, <1>7, <1>8 DEF Inv

\* A deletion of d begins, succeeds or fails.
DeletionStep(d) == StartDeletion(d) \/ DeletionEnds(d)

\* Statuses, takes and deletions, whatever step is made.
LEMMA StatusesTyped ==
    ASSUME Inv, Next
    PROVE  /\ status' \in [Documents -> {"processing", "ready", "failed", "deleted"}]
           /\ takes' \in 0 .. MaxTakes
           /\ deleting' \subseteq Documents
<1> DEFINE Statuses == [Documents -> {"processing", "ready", "failed", "deleted"}]
<1>1. status \in Statuses /\ takes \in 0 .. MaxTakes /\ deleting \subseteq Documents
  BY DEF Inv, TypeOK
<1>2. ASSUME NEW s \in Workers, WorkerStep(s) \/ Crash(s)
      PROVE  takes' = takes /\ deleting' = deleting /\ status' \in Statuses
  BY <1>1, <1>2 DEF WorkerStep, Extract, EmbedBatch, Prepared, LockBase, ClearChunks, InsertChunk,
     MarkReady, Commit, FailDocument, Crash, Rollback, Publish
<1>3. ASSUME NEW s \in Workers, NEW d \in Documents, Take(s, d)
      PROVE  status' \in Statuses /\ takes' \in 0 .. MaxTakes /\ deleting' = deleting
  <2>1. /\ takes < MaxTakes /\ takes' = takes + 1 /\ deleting' = deleting
        /\ status' = [status EXCEPT ![d] = "processing"]
    BY <1>3 DEF Take
  <2>2. takes' \in 0 .. MaxTakes
    BY <1>1, <2>1, BoundAssumption
  <2> QED BY <1>1, <2>1, <2>2
<1>4. ASSUME NEW d \in Documents, DeletionStep(d)
      PROVE  takes' = takes /\ deleting' \subseteq Documents /\ status' \in Statuses
  BY <1>1, <1>4 DEF DeletionStep, DeletionEnds, StartDeletion, DeleteDocument, AbortDeletion
<1> HIDE DEF Statuses
<1>5. status' \in Statuses /\ takes' \in 0 .. MaxTakes /\ deleting' \subseteq Documents
  BY <1>1, <1>2, <1>3, <1>4 DEF Next, DeletionStep
<1> QED BY <1>5 DEF Statuses

\* A deletion of d takes its chunks away, or none, and touches neither base nor workers.
LEMMA DeletionForm ==
    ASSUME TypeOK, NEW d \in Documents, DeletionStep(d)
    PROVE  /\ UNCHANGED <<dimension, lock, worker, takes>>
           /\ chunks' \in [Documents -> SUBSET RowType]
           /\ \A e \in Documents : chunks'[e] \subseteq chunks[e]
           /\ \/ DeleteDocument(d)
              \/ UNCHANGED <<chunks, status>>
<1>1. chunks \in [Documents -> SUBSET RowType]
  BY DEF TypeOK, RowType
<1>2. CASE DeleteDocument(d)
  BY <1>1, <1>2 DEF DeleteDocument
<1>3. CASE StartDeletion(d) \/ AbortDeletion(d)
  BY <1>1, <1>3 DEF StartDeletion, AbortDeletion
<1> QED BY <1>2, <1>3 DEF DeletionStep, DeletionEnds

\* A commit writes the rows of all passages, in the length of the first vector.
LEMMA CommittedRows ==
    ASSUME TypeOK, NEW s \in Workers, Prep(worker[s]), worker[s].pc = "commit"
    PROVE  /\ worker[s].doc \in Documents
           /\ worker[s].vectors[1] \in Lengths
           /\ worker[s].rows = Index!Whole(worker[s].doc, worker[s].vectors[1])
           /\ worker[s].rows \subseteq RowType
           /\ \A row \in worker[s].rows : row.length = worker[s].vectors[1]
<1> DEFINE w == worker[s]
           n == w.vectors[1]
<1>1. w \in WorkerType
  BY WorkersTyped
<1>2. /\ w.doc \in Documents /\ w.passages = Split(w.doc) /\ w.pc \in Working \ {"embed"}
      /\ w.pc \in Inserting
  BY DEF Prep, Working, Saving, Inserting
<1>3. n \in Lengths /\ \A i \in 1 .. Len(w.passages) : w.vectors[i] = n
  BY <1>1, <1>2, FirstVector
<1>4. w.rows = FirstRows(w, Len(w.passages))
  BY <1>2 DEF Prep
<1> HIDE DEF n
<1>5. w.rows = {Row(w.passages[i], n) : i \in 1 .. Len(w.passages)}
  BY <1>3, <1>4 DEF FirstRows
<1>6. w.rows = Index!Whole(w.doc, n)
  BY <1>2, <1>5, SplitWhole
<1>7. w.rows \subseteq RowType
  BY <1>1 DEF WorkerType
<1>8. \A row \in w.rows : row.length = n
  BY <1>5 DEF Row
<1> QED BY <1>2, <1>3, <1>6, <1>7, <1>8 DEF n

LEMMA MovesKeepTypes ==
    ASSUME Inv, Next, NEW s \in Workers, Moves(s)
    PROVE  TypeOK'
<1>1. PICK w : Becomes(s, w) /\ Effect(s, w)
  BY DEF Moves
<1>2. /\ worker \in [Workers -> WorkerType] /\ w \in WorkerType
      /\ worker' = [worker EXCEPT ![s] = w]
  BY <1>1, WorkersTyped DEF Becomes, Inv
<1>3. worker' \in [Workers -> WorkerType]
  BY <1>2
<1>4. worker'[s] = w /\ \A t \in Workers \ {s} : worker'[t] = worker[t]
  BY <1>2
<1>5. TypeOK /\ Prep(worker[s])
  BY DEF Inv, Preps
<1>6. dimension' \in Lengths \cup {0} /\ chunks' \in [Documents -> SUBSET RowType]
  <2>1. dimension \in Lengths \cup {0} /\ chunks \in [Documents -> SUBSET RowType]
    BY <1>5 DEF TypeOK, RowType
  <2>2. CASE Publishes(s, w)
    BY <1>5, <2>1, <2>2, CommittedRows DEF Publishes, Publish
  <2>3. CASE ~Publishes(s, w)
    BY <1>1, <2>1, <2>3 DEF Effect, KeepsLock, TakesLock, DropsLock
  <2> QED BY <2>2, <2>3
<1>7. lock' \in Workers \cup {None} /\ \A t \in Workers : worker'[t].pc \in Saving <=> lock' = t
  <2>1. /\ lock \in Workers \cup {None}
        /\ \A t \in Workers : worker[t].pc \in Saving <=> lock = t
        /\ None \notin Workers
    BY <1>5, NoneAssumption DEF TypeOK
  <2>2. CASE KeepsLock(s, w)
    BY <1>4, <2>1, <2>2 DEF KeepsLock
  <2>3. CASE TakesLock(s, w)
    BY <1>4, <2>1, <2>3 DEF TakesLock, Saving
  <2>4. CASE DropsLock(s, w)
    BY <1>4, <2>1, <2>4 DEF DropsLock
  <2>5. CASE Publishes(s, w)
    <3>1. lock = s /\ lock' = None /\ w.pc \notin Saving
      BY <2>1, <2>5 DEF Publishes, Publish, Saving
    <3> QED BY <1>4, <2>1, <3>1
  <2> QED BY <1>1, <2>2, <2>3, <2>4, <2>5 DEF Effect
<1>8. /\ status' \in [Documents -> {"processing", "ready", "failed", "deleted"}]
      /\ takes' \in 0 .. MaxTakes
      /\ deleting' \subseteq Documents
  BY StatusesTyped
<1> QED BY <1>3, <1>6, <1>7, <1>8 DEF TypeOK, WorkerType, RowType

LEMMA MovesKeepLengths ==
    ASSUME Inv, NEW s \in Workers, Moves(s)
    PROVE  Preps' /\ SavingFits' /\ ChunksFit'
<1>1. PICK w : Becomes(s, w) /\ Effect(s, w)
  BY DEF Moves
<1>2. /\ worker \in [Workers -> WorkerType] /\ w \in WorkerType /\ Prep(w)
      /\ worker' = [worker EXCEPT ![s] = w]
  BY <1>1, WorkersTyped DEF Becomes, Inv
<1>3. worker'[s] = w /\ \A t \in Workers \ {s} : worker'[t] = worker[t]
  BY <1>2
<1>4. TypeOK /\ Prep(worker[s])
  BY DEF Inv, Preps
<1>5. Preps'
  <2>1. \A t \in Workers : Prep(worker'[t])
    BY <1>2, <1>3 DEF Inv, Preps
  <2> QED BY <2>1 DEF Preps
<1>6. /\ \A t \in Workers : worker[t].pc \in Saving <=> lock = t
      /\ \A t \in Workers : worker[t].pc \in Saving => dimension \in {0, worker[t].vectors[1]}
      /\ \A d \in Documents : \A row \in chunks[d] : row.length = dimension
      /\ chunks \in [Documents -> SUBSET RowType]
  BY <1>4 DEF TypeOK, RowType, Inv, SavingFits, ChunksFit
<1>7. CASE KeepsLock(s, w)
  <2>1. \A t \in Workers : worker'[t].pc \in Saving => dimension' \in {0, worker'[t].vectors[1]}
    BY <1>3, <1>6, <1>7 DEF KeepsLock
  <2>2. ChunksFit'
    BY <1>6, <1>7 DEF KeepsLock, ChunksFit
  <2> QED BY <1>5, <2>1, <2>2 DEF SavingFits
<1>8. CASE TakesLock(s, w)
  <2>1. \A t \in Workers : worker'[t].pc \in Saving => dimension' \in {0, worker'[t].vectors[1]}
    BY <1>3, <1>6, <1>8 DEF TakesLock
  <2>2. ChunksFit'
    BY <1>6, <1>8 DEF TakesLock, ChunksFit
  <2> QED BY <1>5, <2>1, <2>2 DEF SavingFits
<1>9. CASE DropsLock(s, w)
  <2>1. \A t \in Workers : worker'[t].pc \in Saving => dimension' \in {0, worker'[t].vectors[1]}
    BY <1>3, <1>6, <1>9 DEF DropsLock
  <2>2. ChunksFit'
    BY <1>6, <1>9 DEF DropsLock, ChunksFit
  <2> QED BY <1>5, <2>1, <2>2 DEF SavingFits
<1>10. CASE Publishes(s, w)
  <2> DEFINE n == worker[s].vectors[1]
             d == worker[s].doc
  <2>1. /\ worker[s].pc = "commit" /\ worker[s].pc \in Saving /\ w.pc \notin Saving
        /\ dimension' = n /\ chunks' = [chunks EXCEPT ![d] = worker[s].rows]
    BY <1>10 DEF Publishes, Publish, Saving
  <2>2. /\ n \in Lengths /\ d \in Documents /\ \A row \in worker[s].rows : row.length = n
    BY <1>4, <2>1, CommittedRows
  <2>3. \A t \in Workers : worker'[t].pc \notin Saving
    BY <1>3, <1>6, <2>1
  <2>4. dimension \in {0, n}
    BY <1>6, <2>1
  <2>5. ASSUME NEW e \in Documents, NEW row \in chunks[e] PROVE row.length = n
    <3>1. row.length = dimension /\ row.length \in Lengths
      BY <1>6 DEF RowType
    <3>2. dimension # 0
      BY <3>1, LengthsAssumption
    <3> QED BY <2>4, <3>1, <3>2
  <2>6. \A e \in Documents : \A row \in chunks'[e] : row.length = n
    BY <1>6, <2>1, <2>2, <2>5
  <2> QED BY <1>5, <2>1, <2>3, <2>6 DEF SavingFits, ChunksFit
<1> QED BY <1>1, <1>7, <1>8, <1>9, <1>10 DEF Effect

LEMMA PublicationStep == Inv /\ [Next]_vars => Inv'
<1> SUFFICES ASSUME Inv, [Next]_vars PROVE Inv'
  OBVIOUS
<1>1. CASE Next
  <2>1. CASE \E s \in Workers : WorkerStep(s) \/ Crash(s) \/ \E d \in Documents : Take(s, d)
    <3>1. PICK s \in Workers : Moves(s)
      BY <2>1, WorkerMoves DEF Inv
    <3> QED BY <1>1, <3>1, MovesKeepTypes, MovesKeepLengths DEF Inv
  <2>2. CASE \E d \in Documents : DeletionStep(d)
    <3>1. PICK d \in Documents : DeletionStep(d)
      BY <2>2
    <3>2. /\ UNCHANGED <<dimension, lock, worker, takes>>
          /\ chunks' \in [Documents -> SUBSET RowType]
          /\ \A e \in Documents : chunks'[e] \subseteq chunks[e]
      BY <3>1, DeletionForm DEF Inv
    <3>3. /\ status' \in [Documents -> {"processing", "ready", "failed", "deleted"}]
          /\ deleting' \subseteq Documents
      BY <1>1, StatusesTyped
    <3>4. TypeOK'
      BY <3>2, <3>3 DEF Inv, TypeOK, RowType
    <3>5. Preps' /\ SavingFits'
      BY <3>2 DEF Inv, Preps, SavingFits
    <3>6. ChunksFit'
      BY <3>2 DEF Inv, ChunksFit
    <3> QED BY <3>4, <3>5, <3>6 DEF Inv
  <2> QED BY <1>1, <2>1, <2>2 DEF Next, DeletionStep
<1>2. CASE UNCHANGED vars
  BY <1>2 DEF vars, Inv, TypeOK, Preps, SavingFits, ChunksFit
<1> QED BY <1>1, <1>2

LEMMA PublicationInvariant == Spec => []Inv
<1>1. Inv /\ [Next]_vars => Inv'
  BY PublicationStep
<1> QED BY PublicationStarts, <1>1, PTL DEF Spec

\* Types; and the row of a base is locked by the one worker that saves in it, and by no other:
\* a transaction that ends, by commit, error or the end of its process, leaves no lock.
THEOREM LockHeldBySaver == Spec => []TypeOK
<1>1. Inv => TypeOK
  BY DEF Inv
<1> QED BY PublicationInvariant, <1>1, PTL

-----------------------------------------------------------------------------
(* Publication implements RetrievalIndex                                   *)

\* What is visible of each document, from its status and its rows.
LEMMA VisibleChange ==
    ASSUME Inv, NEW d \in Documents,
           \A e \in Documents \ {d} : status'[e] = status[e] /\ chunks'[e] = chunks[e]
    PROVE  Visible' = [Visible EXCEPT ![d] = IF status'[d] = "ready" THEN chunks'[d] ELSE {}]
BY DEF Visible

LEMMA VisibleSame ==
    ASSUME \A d \in Documents : status'[d] = status[d] /\ chunks'[d] = chunks[d]
    PROVE  Visible' = Visible
BY DEF Visible

LEMMA CommitPublishes ==
    ASSUME Inv, NEW s \in Workers, worker[s].pc = "commit", Publish(s)
    PROVE  Index!Next
<1> DEFINE d == worker[s].doc
           n == worker[s].vectors[1]
<1>1. TypeOK /\ Prep(worker[s]) /\ worker[s].pc \in Saving
  BY DEF Inv, Preps, Saving
<1>2. d \in Documents /\ n \in Lengths /\ worker[s].rows = Index!Whole(d, n)
  BY <1>1, CommittedRows
<1>3. dimension \in {0, n}
  BY <1>1 DEF Inv, SavingFits
<1>4. /\ chunks \in [Documents -> SUBSET RowType]
      /\ status \in [Documents -> {"processing", "ready", "failed", "deleted"}]
  BY <1>1 DEF TypeOK, RowType
<1>5. /\ dimension' = n /\ chunks'[d] = Index!Whole(d, n) /\ status'[d] = "ready"
      /\ \A e \in Documents \ {d} : status'[e] = status[e] /\ chunks'[e] = chunks[e]
  BY <1>2, <1>4 DEF Publish
<1> HIDE DEF d, n
<1>6. Visible' = [Visible EXCEPT ![d] = Index!Whole(d, n)]
  <2>1. Visible' = [Visible EXCEPT ![d] = IF status'[d] = "ready" THEN chunks'[d] ELSE {}]
    BY <1>2, <1>5, VisibleChange
  <2> QED BY <1>5, <2>1
<1>7. Index!Publish(d, n)
  BY <1>3, <1>5, <1>6 DEF Index!Publish
<1> QED BY <1>2, <1>7 DEF Index!Next

\* A document that is taken up, fails or is deleted disappears, if it was there.
LEMMA Disappears ==
    ASSUME Inv, NEW d \in Documents, dimension' = dimension,
           \A e \in Documents \ {d} : status'[e] = status[e] /\ chunks'[e] = chunks[e],
           status'[d] # "ready"
    PROVE  Index!Next
<1>1. Visible' = [Visible EXCEPT ![d] = {}]
  BY VisibleChange
<1>2. Index!Withdraw(d)
  BY <1>1 DEF Index!Withdraw
<1> QED BY <1>2 DEF Index!Next

LEMMA StepImplementsIndex ==
    ASSUME Inv, [Next]_vars
    PROVE  [Index!Next]_<<dimension, Visible>>
<1> DEFINE Same == dimension' = dimension /\ chunks' = chunks /\ status' = status
<1>1. TypeOK /\ \A s \in Workers : Prep(worker[s])
  BY DEF Inv, Preps
<1>2. status \in [Documents -> {"processing", "ready", "failed", "deleted"}]
  BY <1>1 DEF TypeOK
<1>3. ASSUME Same PROVE [Index!Next]_<<dimension, Visible>>
  BY <1>3, VisibleSame
<1>4. ASSUME NEW s \in Workers,
             \/ Extract(s) \/ EmbedBatch(s) \/ Prepared(s) \/ LockBase(s) \/ ClearChunks(s)
             \/ InsertChunk(s) \/ MarkReady(s) \/ Crash(s) \/ Rollback(s)
      PROVE  Same
  BY <1>4 DEF Extract, EmbedBatch, Prepared, LockBase, ClearChunks, InsertChunk, MarkReady, Crash,
              Rollback
<1>5. ASSUME NEW s \in Workers, Commit(s) PROVE [Index!Next]_<<dimension, Visible>>
  <2>1. worker[s].pc = "commit" /\ (Publish(s) \/ Rollback(s))
    BY <1>5 DEF Commit
  <2> QED BY <1>3, <1>4, <2>1, CommitPublishes
<1>6. ASSUME NEW s \in Workers, FailDocument(s) PROVE [Index!Next]_<<dimension, Visible>>
  <2> DEFINE d == worker[s].doc
  <2>1. d \in Documents
    BY <1>1, <1>6 DEF FailDocument, Prep
  <2>2. CASE status[d] = "deleted"
    BY <1>3, <1>6, <2>2 DEF FailDocument
  <2>3. CASE status[d] # "deleted"
    <3>1. /\ dimension' = dimension /\ chunks' = chunks
          /\ status' = [status EXCEPT ![d] = "failed"]
      BY <1>6, <2>3 DEF FailDocument
    <3>2. /\ status'[d] # "ready"
          /\ \A e \in Documents \ {d} : status'[e] = status[e] /\ chunks'[e] = chunks[e]
      BY <1>2, <2>1, <3>1
    <3> QED BY <2>1, <3>1, <3>2, Disappears
  <2> QED BY <2>2, <2>3
<1>7. ASSUME NEW s \in Workers, NEW d \in Documents, Take(s, d)
      PROVE  [Index!Next]_<<dimension, Visible>>
  <2>1. /\ dimension' = dimension /\ chunks' = chunks
        /\ status' = [status EXCEPT ![d] = "processing"]
    BY <1>7 DEF Take
  <2>2. /\ status'[d] # "ready"
        /\ \A e \in Documents \ {d} : status'[e] = status[e] /\ chunks'[e] = chunks[e]
    BY <1>2, <2>1
  <2> QED BY <2>1, <2>2, Disappears
<1>8. ASSUME NEW d \in Documents, DeletionStep(d) PROVE [Index!Next]_<<dimension, Visible>>
  <2>1. CASE UNCHANGED <<chunks, status>>
    BY <1>1, <1>3, <1>8, <2>1, DeletionForm
  <2>2. CASE DeleteDocument(d)
    <3>1. /\ dimension' = dimension /\ chunks' = [chunks EXCEPT ![d] = {}]
          /\ status' = [status EXCEPT ![d] = "deleted"]
      BY <2>2 DEF DeleteDocument
    <3>2. DOMAIN chunks = Documents
      BY <1>1 DEF TypeOK
    <3>3. /\ status'[d] # "ready"
          /\ \A e \in Documents \ {d} : status'[e] = status[e] /\ chunks'[e] = chunks[e]
      BY <1>2, <3>1, <3>2
    <3> QED BY <3>1, <3>3, Disappears
  <2> QED BY <1>1, <1>8, <2>1, <2>2, DeletionForm
<1>9. CASE UNCHANGED vars
  BY <1>3, <1>9 DEF vars
<1> HIDE DEF Same
<1> QED BY <1>3, <1>4, <1>5, <1>6, <1>7, <1>8, <1>9 DEF Next, WorkerStep, DeletionStep

\* Search sees of each document nothing or all its passages, numbered from 1 on through its
\* pages, with vectors of the one length of the base: every step of the workers, whichever
\* batch, statement, commit or process fails, and of those who delete documents, publishes
\* or withdraws whole documents, or changes nothing that can be seen.
THEOREM PublicationImplementsIndex == Spec => ImplementsIndex
<1>1. Init => Index!Init
  BY DEF Init, Index!Init, Visible
<1>2. Inv /\ [Next]_vars => [Index!Next]_<<dimension, Visible>>
  BY StepImplementsIndex
<1> QED BY PublicationInvariant, <1>1, <1>2, PTL DEF Spec, ImplementsIndex, Index!Spec

\* Of each document the index shows nothing or the whole, in the length of the base.
SeenWhole ==
    \A d \in Documents : /\ Visible[d] = {} \/ Visible[d] = Index!Whole(d, dimension)
                         /\ dimension = 0 => Visible[d] = {}

LEMMA SeenWholeStep == SeenWhole /\ [Index!Next]_<<dimension, Visible>> => SeenWhole'
<1> SUFFICES ASSUME SeenWhole, [Index!Next]_<<dimension, Visible>> PROVE SeenWhole'
  OBVIOUS
<1>1. DOMAIN Visible = Documents
  BY DEF Visible
<1>2. ASSUME NEW d \in Documents, Index!Withdraw(d) PROVE SeenWhole'
  <2>1. dimension' = dimension /\ Visible' = [Visible EXCEPT ![d] = {}]
    BY <1>2 DEF Index!Withdraw
  <2>2. \A e \in Documents : Visible'[e] = {} \/ Visible'[e] = Visible[e]
    BY <1>1, <2>1
  <2>3. \A e \in Documents : Index!Whole(e, dimension)' = Index!Whole(e, dimension)
    BY <2>1 DEF Index!Whole, Index!Counts
  <2> QED BY <2>1, <2>2, <2>3 DEF SeenWhole
<1>3. ASSUME NEW d \in Documents, NEW n \in Lengths, Index!Publish(d, n) PROVE SeenWhole'
  <2>1. /\ dimension \in {0, n} /\ dimension' = n /\ n # 0
        /\ Visible' = [Visible EXCEPT ![d] = Index!Whole(d, n)]
    BY <1>3, LengthsAssumption DEF Index!Publish
  <2>2. ASSUME NEW e \in Documents
        PROVE  Visible'[e] = {} \/ Visible'[e] = Index!Whole(e, n)
    BY <1>1, <2>1 DEF SeenWhole
  <2>3. \A e \in Documents : Index!Whole(e, dimension)' = Index!Whole(e, n)
    BY <2>1 DEF Index!Whole, Index!Counts
  <2> QED BY <2>1, <2>2, <2>3 DEF SeenWhole
<1>4. CASE UNCHANGED <<dimension, Visible>>
  <2>1. \A e \in Documents : Index!Whole(e, dimension)' = Index!Whole(e, dimension)
    BY <1>4 DEF Index!Whole, Index!Counts
  <2> QED BY <1>4, <2>1 DEF SeenWhole
<1> QED BY <1>2, <1>3, <1>4 DEF Index!Next

\* What RetrievalIndex comes to: whenever Search looks, it finds of a document no passage or
\* each of them, in the one length of the base.
THEOREM DocumentsSeenWhole == Spec => []SeenWhole
<1>1. Index!Init => SeenWhole
  <2> SUFFICES ASSUME Index!Init PROVE SeenWhole
    OBVIOUS
  <2>1. Visible = [d \in Documents |-> {}]
    BY DEF Index!Init
  <2> HIDE DEF Visible
  <2> QED BY <2>1 DEF SeenWhole
<1>2. SeenWhole /\ [Index!Next]_<<dimension, Visible>> => SeenWhole'
  BY SeenWholeStep
<1> QED BY PublicationImplementsIndex, <1>1, <1>2, PTL DEF ImplementsIndex, Index!Spec

-----------------------------------------------------------------------------
(* Searches                                                                *)

\* A search is a detour of its own: the workers take their steps as if there were none.
LEMMA SearchKeepsSpec == SearchSpec => Spec
<1>1. SearchInit => Init
  BY DEF SearchInit
<1>2. [SearchNext]_searchVars => [Next]_vars
  BY DEF SearchNext, SearchStep, StartSearch, QueryChunks, searchVars, vars
<1> QED BY <1>1, <1>2, PTL DEF SearchSpec, Spec

\* A search that read a dimension goes by it: the base still has it.
SearchFits ==
    /\ search \in [pc : {"idle", "query", "mismatch"}, dimension : Lengths \cup {0},
                   length : Lengths \cup {0}]
    /\ search.pc = "mismatch" => search.dimension = 0
    /\ search.pc = "query" /\ search.dimension # 0
          => dimension = search.dimension /\ search.length = search.dimension

\* The dimension of a base, once it has one, is there to stay.
LEMMA DimensionStays ==
    ASSUME Inv, [Next]_vars, dimension # 0
    PROVE  dimension' = dimension
<1>1. CASE \E s \in Workers : WorkerStep(s) \/ Crash(s) \/ \E d \in Documents : Take(s, d)
  <2>1. PICK s \in Workers : Moves(s)
    BY <1>1, WorkerMoves DEF Inv
  <2>2. PICK w : Effect(s, w)
    BY <2>1 DEF Moves
  <2>3. CASE Publishes(s, w)
    <3>1. worker[s].pc \in Saving /\ dimension' = worker[s].vectors[1]
      BY <2>3 DEF Publishes, Publish, Saving
    <3> QED BY <3>1 DEF Inv, SavingFits
  <2>4. CASE ~Publishes(s, w)
    BY <2>2, <2>4 DEF Effect, KeepsLock, TakesLock, DropsLock
  <2> QED BY <2>3, <2>4
<1>2. CASE \E d \in Documents : DeletionStep(d)
  BY <1>2, DeletionForm DEF Inv
<1>3. CASE UNCHANGED vars
  BY <1>3 DEF vars
<1> QED BY <1>1, <1>2, <1>3 DEF Next, DeletionStep

LEMMA SearchInvariantStep == Inv /\ SearchFits /\ [SearchNext]_searchVars => SearchFits'
<1> SUFFICES ASSUME Inv, SearchFits, [SearchNext]_searchVars PROVE SearchFits'
  OBVIOUS
<1>1. CASE Next /\ UNCHANGED search
  <2>1. dimension # 0 => dimension' = dimension
    BY <1>1, DimensionStays
  <2>2. search.dimension # 0 /\ search.pc = "query" => dimension # 0
    BY DEF SearchFits
  <2> QED BY <1>1, <2>1, <2>2 DEF SearchFits
<1>2. dimension \in Lengths \cup {0}
  BY DEF Inv, TypeOK
<1>3. CASE StartSearch
  <2>1. PICK n \in Lengths : Comparable(n) /\ search' = Search("query", dimension, n)
    BY <1>3 DEF StartSearch
  <2>2. dimension' = dimension /\ n # 0 /\ dimension \in {0, n}
    BY <1>3, <2>1, LengthsAssumption DEF StartSearch, vars, Comparable
  <2> QED BY <1>2, <2>1, <2>2 DEF Search, SearchFits
<1>4. CASE QueryChunks
  <2>1. search.pc = "query" /\ dimension' = dimension
    BY <1>4 DEF QueryChunks, vars
  <2>2. CASE SearchOver
    BY <2>2 DEF SearchOver, Search, SearchFits
  <2>3. CASE /\ \E row \in Found : row.length # search.length
             /\ search' = [search EXCEPT !.pc = "mismatch"]
    <3>1. PICK row \in Found : row.length # search.length
      BY <2>3
    <3>2. PICK d \in Documents : row \in Visible[d]
      BY DEF Found
    <3>3. row \in chunks[d]
      BY <3>2 DEF Visible
    <3>4. row.length = dimension
      BY <3>3 DEF Inv, ChunksFit
    <3>5. search.dimension = 0
      BY <2>1, <3>1, <3>4 DEF SearchFits
    <3> QED BY <2>3, <3>5 DEF SearchFits
  <2> QED BY <1>4, <2>2, <2>3 DEF QueryChunks
<1>5. CASE UNCHANGED searchVars
  BY <1>5 DEF searchVars, SearchFits
<1> QED BY <1>1, <1>3, <1>4, <1>5 DEF SearchNext, SearchStep

\* The database finds vectors it cannot compare only for a search that read the base before
\* its first document fixed the dimension, however many documents are published, retried
\* and deleted between the two reads of any other search.
THEOREM LaterSearchesMatch == SearchSpec => []MismatchOnlyAtFirst
<1>1. SearchInit => SearchFits
  BY DEF SearchInit, Search, SearchFits
<1>2. Inv /\ SearchFits /\ [SearchNext]_searchVars => SearchFits'
  BY SearchInvariantStep
<1>3. SearchFits => MismatchOnlyAtFirst
  BY DEF SearchFits, MismatchOnlyAtFirst
<1> QED BY SearchKeepsSpec, PublicationInvariant, <1>1, <1>2, <1>3, PTL DEF SearchSpec

=============================================================================
