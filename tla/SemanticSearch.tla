--------------------------- MODULE SemanticSearch ---------------------------
(***************************************************************************)
(* A search in a base (rag/search.go, Search of rag/postgres.go) while     *)
(* workers publish documents in it, as in Publication.  The search reads   *)
(* the dimension of the base, has its query embedded, compares the two,    *)
(* and lets the database compare the query with the chunks there are then. *)
(*                                                                         *)
(* Of a query the length of its vector is kept.  Ranks and scores are left *)
(* out, and how many of the passages found are returned.                   *)
(***************************************************************************)
EXTENDS Publication

VARIABLE
    search          \* next step, the dimension read with the base, the length of the query

searchVars == <<dimension, chunks, status, lock, deleting, worker, takes, search>>

-----------------------------------------------------------------------------

Search(pc, n, m) == [pc |-> pc, dimension |-> n, length |-> m]

SearchInit == Init /\ search = Search("idle", 0, 0)

SearchOver == search' = Search("idle", 0, 0)

\* Mutant: the query is not compared with the base.
ComparableAlways(n) == TRUE

\* A base without a dimension takes a query of any length.
Comparable(n) == dimension \in {0, n}

\* GetKnowledgeBase, the dimension of which may still be NULL; then the query is embedded,
\* which takes its time, and its length is compared with the dimension as it was read.
StartSearch ==
    /\ search.pc # "query"
    /\ \E n \in Lengths : Comparable(n) /\ search' = Search("query", dimension, n)
    /\ UNCHANGED vars

Found == UNION {Visible[d] : d \in Documents}

\* One statement compares the query with the chunks of the documents that are ready;
\* pgvector does not compare vectors of different lengths, but fails.
QueryChunks ==
    /\ search.pc = "query"
    /\ \/ (\A row \in Found : row.length = search.length) /\ SearchOver
       \/ /\ \E row \in Found : row.length # search.length
          /\ search' = [search EXCEPT !.pc = "mismatch"]
       \/ SearchOver
    /\ UNCHANGED vars

SearchStep == StartSearch \/ QueryChunks

SearchNext ==
    \/ Next /\ UNCHANGED search
    \/ SearchStep

SearchSpec == SearchInit /\ [][SearchNext]_searchVars

\* Nobody has to search; the rest is fair as in Publication.
SearchFairSpec == SearchSpec /\ Fairness

-----------------------------------------------------------------------------
(* Properties                                                              *)

\* "query embedding dimension does not match knowledge base" (rag/search.go) is said
\* before the database is asked.  The database itself finds a mismatch only for a search
\* that read the base before its first document fixed the dimension: later ones are
\* not overtaken, whoever publishes, retries or deletes between their two reads.
MismatchOnlyAtFirst == search.pc = "mismatch" => search.dimension = 0

=============================================================================
