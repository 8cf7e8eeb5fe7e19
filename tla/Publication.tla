---------------------------- MODULE Publication ----------------------------
(***************************************************************************)
(* From a claimed document to its rows in knowledge_chunks: extraction     *)
(* (rag/loaders.go), chunking (rag/chunker.go), embedding in batches       *)
(* (rag/prepare.go, rag/huggingface.go) and the transaction of             *)
(* SavePreparedDocument (rag/postgres.go), statement by statement.         *)
(*                                                                         *)
(* Ingestion has Prepare and SavePreparedDocument as one action each; this *)
(* module is about what happens inside, for the documents of one base and  *)
(* the workers of several processes, which may prepare the same document.  *)
(* Dropping the base is left to Ingestion.  Of a passage the page and the  *)
(* number are kept, of a vector its length.                                *)
(***************************************************************************)
EXTENDS Naturals, Sequences, FiniteSets

CONSTANTS
    Workers,        \* worker goroutines, one per process
    Documents,      \* documents of the base
    Pages,          \* [Documents -> Seq(Nat)]: passages the splitter makes of each page
    Lengths,        \* lengths an embedding vector may have
    BatchSize,      \* passages sent to the embedding provider at once
    None,           \* no worker, no document
    MaxTakes        \* bound on the times a worker takes up a document

ASSUME BatchAssumption   == BatchSize \in Nat \ {0}
ASSUME LengthsAssumption == Lengths \subseteq Nat \ {0}
ASSUME PagesAssumption   == Pages \in [Documents -> Seq(Nat)]
ASSUME BoundAssumption   == MaxTakes \in Nat
ASSUME NoneAssumption    == None \notin Workers \cup Documents

VARIABLES
    dimension,      \* embedding_dimension of the base, 0 for NULL
    chunks,         \* the committed rows of knowledge_chunks, by document
    status,         \* the status column of each document, or "deleted"
    lock,           \* the worker whose transaction has updated the row of the base
    deleting,       \* the documents whose rows a deletion has locked that is not over
    worker,         \* each worker: step, document, passages, lengths of their vectors, rows inserted
    takes           \* documents taken up so far

vars == <<dimension, chunks, status, lock, deleting, worker, takes>>

-----------------------------------------------------------------------------

WorkerSteps == {"idle", "extract", "embed", "begin", "clear", "insert", "commit", "fail"}
Saving      == {"clear", "insert", "commit"}

Worker(pc, d) == [pc |-> pc, doc |-> d, passages |-> << >>, vectors |-> << >>, rows |-> {}]
Idle          == Worker("idle", None)

Goto(s, pc) == worker' = [worker EXCEPT ![s].pc = pc]

\* The worker is left with nothing but the document it has to fail.
Fails(s) == worker' = [worker EXCEPT ![s] = Worker("fail", @.doc)]

Row(passage, n) == [page |-> passage.page, index |-> passage.index, length |-> n]

Init ==
    /\ dimension = 0
    /\ chunks = [d \in Documents |-> {}]
    /\ status = [d \in Documents |-> "processing"]
    /\ lock = None
    /\ deleting = {}
    /\ worker = [s \in Workers |-> Idle]
    /\ takes = 0

-----------------------------------------------------------------------------
(* Preparation                                                             *)

\* A transaction has updated or deleted the row of d: other updates of it wait.
Locked(d) ==
    \/ \E s \in Workers : worker[s].pc = "commit" /\ worker[s].doc = d
    \/ d \in deleting

\* A worker gets d: it was claimed for the first time, retried, or recovered by
\* another process while a worker was still busy with it.
Take(s, d) ==
    /\ worker[s].pc = "idle"
    /\ status[d] \in {"processing", "failed"} /\ ~Locked(d)
    /\ takes < MaxTakes
    /\ takes' = takes + 1
    /\ worker' = [worker EXCEPT ![s] = Worker("extract", d)]
    /\ status' = [status EXCEPT ![d] = "processing"]
    /\ UNCHANGED <<dimension, chunks, lock, deleting>>

\* The pages that have text are split one by one, the passages numbered through: what
\* there is after each page.
Passages(d) ==
    LET upTo[p \in 0 .. Len(Pages[d])] ==
            IF p = 0 THEN << >>
            ELSE upTo[p - 1] \o [i \in 1 .. Pages[d][p] |->
                                    [page |-> p, index |-> Len(upTo[p - 1]) + i]]
    IN  upTo

Split(d) == Passages(d)[Len(Pages[d])]

\* Loading and splitting succeed and give at least one passage, or the document fails.
Extract(s) ==
    /\ worker[s].pc = "extract"
    /\ \/ /\ Split(worker[s].doc) # << >>
          /\ worker' = [worker EXCEPT ![s].pc = "embed", ![s].passages = Split(worker[s].doc)]
       \/ Fails(s)
    /\ UNCHANGED <<dimension, chunks, status, lock, deleting, takes>>

\* Mutant: the lengths are compared within the batch only.
AcceptedAlone(vectors, batch) ==
    \A i \in DOMAIN batch : batch[i] # 0 /\ batch[i] = batch[1]

\* None of the vectors is empty, and all of the document have one length.
Accepted(vectors, batch) ==
    \A i \in DOMAIN batch : batch[i] # 0 /\ batch[i] = (vectors \o batch)[1]

\* What Embed may return: as many vectors as there are texts, of any lengths.
Embeddings(size) == [1 .. size -> Lengths \cup {0}]

\* The next batch is sent to the provider, which may answer anything or not at all.
EmbedBatch(s) ==
    LET left == Len(worker[s].passages) - Len(worker[s].vectors)
        size == IF left < BatchSize THEN left ELSE BatchSize
    IN  /\ worker[s].pc = "embed"
        /\ left > 0
        /\ \/ \E batch \in Embeddings(size) :
                 /\ Accepted(worker[s].vectors, batch)
                 /\ worker' = [worker EXCEPT ![s].vectors = @ \o batch]
           \/ Fails(s)
        /\ UNCHANGED <<dimension, chunks, status, lock, deleting, takes>>

Prepared(s) ==
    /\ worker[s].pc = "embed"
    /\ Len(worker[s].vectors) = Len(worker[s].passages)
    /\ Goto(s, "begin")
    /\ UNCHANGED <<dimension, chunks, status, lock, deleting, takes>>

-----------------------------------------------------------------------------
(* SavePreparedDocument                                                    *)

\* Mutant: the transaction is left open.
RollbackForgotten(s) == Goto(s, "fail") /\ UNCHANGED <<dimension, chunks, status, lock, deleting, takes>>

\* A statement fails, or the transaction is aborted: nothing it did remains.
Rollback(s) ==
    /\ Fails(s)
    /\ lock' = IF lock = s THEN None ELSE lock
    /\ UNCHANGED <<dimension, chunks, status, deleting, takes>>

\* The base is updated if its dimension is that of the first vector, or NULL.  The
\* row is locked to the end of the transaction; that of another is waited for.
LockBase(s) ==
    LET n == worker[s].vectors[1]
    IN  /\ worker[s].pc = "begin"
        /\ lock = None
        /\ \/ /\ dimension \in {0, n}
              /\ lock' = s
              /\ Goto(s, "clear")
              /\ UNCHANGED <<dimension, chunks, status, deleting, takes>>
           \/ Rollback(s)

\* The rows of an earlier attempt are deleted, in the transaction.
ClearChunks(s) ==
    /\ worker[s].pc = "clear"
    /\ \/ Goto(s, "insert") /\ UNCHANGED <<dimension, chunks, status, lock, deleting, takes>>
       \/ Rollback(s)

\* The next row is inserted: its id, made of document and number, must be new, and
\* its document still be there.  The check of this waits for a deletion of the document;
\* if that waits for the chunks ClearChunks has deleted, PostgreSQL fails one of them.
InsertChunk(s) ==
    LET k   == Cardinality(worker[s].rows) + 1
        row == Row(worker[s].passages[k], worker[s].vectors[k])
    IN  /\ worker[s].pc = "insert"
        /\ k <= Len(worker[s].passages)
        /\ \/ /\ status[worker[s].doc] # "deleted" /\ worker[s].doc \notin deleting
              /\ \A other \in worker[s].rows : other.index # row.index
              /\ worker' = [worker EXCEPT ![s].rows = @ \cup {row}]
              /\ UNCHANGED <<dimension, chunks, status, lock, deleting, takes>>
           \/ Rollback(s)

\* The document is marked 'ready', when all rows are there.
MarkReady(s) ==
    /\ worker[s].pc = "insert"
    /\ Cardinality(worker[s].rows) = Len(worker[s].passages)
    /\ \/ Goto(s, "commit") /\ UNCHANGED <<dimension, chunks, status, lock, deleting, takes>>
       \/ Rollback(s)

\* The effect of the commit.  The document is still there: the rows that refer to it
\* have kept it from being deleted.
Publish(s) ==
    LET d == worker[s].doc
    IN  /\ dimension' = worker[s].vectors[1]
        /\ chunks' = [chunks EXCEPT ![d] = worker[s].rows]
        /\ status' = [status EXCEPT ![d] = "ready"]
        /\ lock' = None

\* If the acknowledgement of the commit is lost, the worker takes it for a failure.
Commit(s) ==
    /\ worker[s].pc = "commit"
    /\ \/ /\ Publish(s)
          /\ worker' = [worker EXCEPT ![s] = Idle]
          /\ UNCHANGED <<deleting, takes>>
       \/ /\ Publish(s)
          /\ Fails(s)
          /\ UNCHANGED <<deleting, takes>>
       \/ Rollback(s)

-----------------------------------------------------------------------------

\* FailDocument, whatever the status is; an error is ignored.
FailDocument(s) ==
    LET d == worker[s].doc
    IN  /\ worker[s].pc = "fail"
        /\ ~Locked(d)
        /\ status' = IF status[d] = "deleted" THEN status ELSE [status EXCEPT ![d] = "failed"]
        /\ worker' = [worker EXCEPT ![s] = Idle]
        /\ UNCHANGED <<dimension, chunks, lock, deleting, takes>>

\* The process of s ends; the database aborts its transaction.
Crash(s) ==
    /\ worker[s].pc # "idle"
    /\ worker' = [worker EXCEPT ![s] = Idle]
    /\ lock' = IF lock = s THEN None ELSE lock
    /\ UNCHANGED <<dimension, chunks, status, deleting, takes>>

\* DELETE of a document locks its row, unless rows that a transaction has inserted refer to
\* it: then it waits.
StartDeletion(d) ==
    /\ status[d] # "deleted" /\ d \notin deleting
    /\ \A s \in Workers : worker[s].doc = d => worker[s].rows = {}
    /\ deleting' = deleting \cup {d}
    /\ UNCHANGED <<dimension, chunks, status, lock, worker, takes>>

\* Its chunks go with it, after any transaction that has deleted these.
DeleteDocument(d) ==
    /\ d \in deleting
    /\ \A s \in Workers : worker[s].doc = d /\ worker[s].pc \in {"insert", "commit"} => chunks[d] = {}
    /\ deleting' = deleting \ {d}
    /\ status' = [status EXCEPT ![d] = "deleted"]
    /\ chunks' = [chunks EXCEPT ![d] = {}]
    /\ UNCHANGED <<dimension, lock, worker, takes>>

\* The statement fails: its client is gone, or each of it and an insert waits for the other.
AbortDeletion(d) ==
    /\ d \in deleting
    /\ deleting' = deleting \ {d}
    /\ UNCHANGED <<dimension, chunks, status, lock, worker, takes>>

DeletionEnds(d) == DeleteDocument(d) \/ AbortDeletion(d)

WorkerStep(s) ==
    \/ Extract(s) \/ EmbedBatch(s) \/ Prepared(s)
    \/ LockBase(s) \/ ClearChunks(s) \/ InsertChunk(s) \/ MarkReady(s) \/ Commit(s)
    \/ FailDocument(s)

Next ==
    \/ \E s \in Workers : WorkerStep(s) \/ Crash(s) \/ \E d \in Documents : Take(s, d)
    \/ \E d \in Documents : StartDeletion(d) \/ DeletionEnds(d)

Spec == Init /\ [][Next]_vars

\* Calls return, those to the provider after 90 seconds at the latest; and a worker that
\* keeps waiting for the lock of a row is granted it, so fairness is strong.  A deletion
\* that has begun returns, too: PostgreSQL breaks the cycle if it is in one.
Fairness ==
    /\ \A s \in Workers : SF_vars(WorkerStep(s))
    /\ \A d \in Documents : WF_vars(DeletionEnds(d))

FairSpec == Spec /\ Fairness

-----------------------------------------------------------------------------
(* Properties                                                              *)

Passage == [page : Nat \ {0}, index : Nat \ {0}]

\* Types; and the lock of the base is held by a worker that is saving, one at a time.
TypeOK ==
    /\ dimension \in Lengths \cup {0}
    /\ chunks \in [Documents -> SUBSET [page : Nat \ {0}, index : Nat \ {0}, length : Lengths]]
    /\ status \in [Documents -> {"processing", "ready", "failed", "deleted"}]
    /\ lock \in Workers \cup {None}
    /\ deleting \subseteq Documents
    /\ worker \in [Workers -> [pc : WorkerSteps, doc : Documents \cup {None},
                               passages : Seq(Passage), vectors : Seq(Lengths),
                               rows : SUBSET [page : Nat \ {0}, index : Nat \ {0}, length : Lengths]]]
    /\ takes \in 0 .. MaxTakes
    /\ \A s \in Workers : worker[s].pc \in Saving <=> lock = s

\* The rows that Search joins with 'ready' documents.
Visible == [d \in Documents |-> IF status[d] = "ready" THEN chunks[d] ELSE {}]

Index == INSTANCE RetrievalIndex WITH visible <- Visible

\* Search sees all of a document or nothing, in one length, numbered as the tests expect
\* ("document-1:" and the position, rag/rag_test.go), whichever batch, statement,
\* commit or process fails, and whoever else prepares, saves or deletes it meanwhile.
ImplementsIndex == Index!Spec

Busy == {s \in Workers : worker[s].pc # "idle"}

\* Workers that have taken documents up are free again in the end, all of them when there
\* are no more takes: none waits for the base for ever or goes round in the embedding
\* of a document.
WorkersReturn == Busy # {} ~> Busy = {}

=============================================================================
