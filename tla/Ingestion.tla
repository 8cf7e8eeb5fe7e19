----------------------------- MODULE Ingestion -----------------------------
(***************************************************************************)
(* Document ingestion: the HTTP handlers that upload, retry and delete     *)
(* documents and drop knowledge bases (handlers/knowledge), the background *)
(* worker of every server process (rag/worker.go), the PostgreSQL rows     *)
(* they share (rag/postgres.go) and the directory of source files          *)
(* (storage/local.go).                                                     *)
(*                                                                         *)
(* One action is one SQL statement or transaction, or one file operation,  *)
(* with the local computation up to the next one: between two of them      *)
(* every other process may run.                                            *)
(*                                                                         *)
(* A document is its UUID, chosen by Upload before anything is written; a  *)
(* row, once deleted, does not come back under the same UUID.  Its base    *)
(* and its SHA-256 never change, so they are functions of the UUID.        *)
(***************************************************************************)
EXTENDS Naturals, FiniteSets

CONSTANTS
    Servers,        \* processes running main.go against one database and directory
    Requests,       \* slots for HTTP handlers in progress
    Bases,          \* knowledge bases that may ever be created
    Documents,      \* documents that may ever be uploaded
    BaseOf,         \* [Documents -> Bases]: knowledge_base_id of the row
    ShaOf,          \* sha256 of the row: equal for uploads of the same bytes
    Dimensions,     \* lengths an embedding vector may have
    None,           \* no document, server or base
    Faults,         \* the failures the environment may inject
    MaxCrashes,     \* bound on process crashes
    MaxRetries      \* bound on retries asked for by users

\* "error": a statement fails and has no effect.  "lost": it takes effect but
\* its acknowledgement is lost, so the caller sees an error.  "unlink": a source
\* file cannot be removed.
ASSUME FaultsAssumption == Faults \subseteq {"error", "lost", "unlink"}

ASSUME DimensionsAssumption == Dimensions \subseteq Nat \ {0}

ASSUME RowAssumption == IsFiniteSet(Documents) /\ BaseOf \in [Documents -> Bases]

ASSUME BoundAssumption == MaxCrashes \in Nat /\ MaxRetries \in Nat

ASSUME NoneAssumption == None \notin Servers \cup Bases \cup Documents

VARIABLES
    base,       \* whether the row of a knowledge base is there
    dim,        \* its embedding_dimension, 0 for NULL
    status,     \* the status column of a document, or where it has no row
    created,    \* its created_at, as a rank; 0 before it is inserted
    vectors,    \* dimension of its rows in knowledge_chunks, 0 for no rows
    objects,    \* documents whose source file exists
    worker,     \* the worker goroutine of each server: step, document, prepared dimension
    request,    \* the handler in each slot: next step, server, base, documents left
    crashes,    \* crashes so far
    retries     \* retries so far

rows  == <<base, dim, status, created, vectors>>
vars  == <<base, dim, status, created, vectors, objects, worker, request, crashes, retries>>

-----------------------------------------------------------------------------
(* Rows and outcomes                                                       *)

\* A document is "fresh" until its UUID is drawn, then "issued" until its row
\* is inserted, and "deleted" once the row is gone.
RowStatus == {"queued", "processing", "ready", "failed"}
Status    == RowStatus \cup {"fresh", "issued", "deleted"}

HasRow(d) == status[d] \in RowStatus

DocumentsOf(k) == {d \in Documents : BaseOf[d] = k}
RowsOf(k)      == {d \in DocumentsOf(k) : HasRow(d)}

\* UNIQUE (knowledge_base_id, sha256)
Duplicate(d) == \E e \in RowsOf(BaseOf[d]) : ShaOf[e] = ShaOf[d]

Outcomes   == {"ok"} \cup (Faults \cap {"error", "lost"})
Applied(o) == o # "error"       \* the statement took effect
Acked(o)   == o = "ok"          \* and the caller knows

WorkerSteps  == {"down", "booting", "idle", "claimed", "loaded", "opened", "prepared", "failing"}
RequestSteps == {"idle", "put", "insert", "undo", "drop", "unlink"}

Worker(pc, d, n) == [pc |-> pc, doc |-> d, dim |-> n]
Idle(pc)         == Worker(pc, None, 0)

NoRequest == [op |-> "idle", server |-> None, base |-> None, docs |-> {}]

Up(s) == worker[s].pc # "down"

\* The handler in slot r goes on to step op, or returns.
Continue(r, op) == request' = [request EXCEPT ![r].op = op]
Finish(r)       == request' = [request EXCEPT ![r] = NoRequest]
Start(r, s, op, k, D) ==
    /\ Up(s)
    /\ request[r].op = "idle"
    /\ request' = [request EXCEPT ![r] = [op |-> op, server |-> s, base |-> k, docs |-> D]]

\* A worker goes on to step pc with its document, or to w.
Advance(s, pc) == worker' = [worker EXCEPT ![s].pc = pc]
Reset(s, w)    == worker' = [worker EXCEPT ![s] = w]

-----------------------------------------------------------------------------
(* Every process is down and the database is empty.                        *)

Init ==
    /\ base    = [k \in Bases |-> "none"]
    /\ dim     = [k \in Bases |-> 0]
    /\ status  = [d \in Documents |-> "fresh"]
    /\ created = [d \in Documents |-> 0]
    /\ vectors = [d \in Documents |-> 0]
    /\ objects = {}
    /\ worker  = [s \in Servers |-> Idle("down")]
    /\ request = [r \in Requests |-> NoRequest]
    /\ crashes = 0
    /\ retries = 0

-----------------------------------------------------------------------------
(* Handlers                                                                *)

\* POST /knowledge-bases
CreateBase(k) ==
    /\ \E s \in Servers : Up(s)
    /\ base[k] = "none"
    /\ base' = [base EXCEPT ![k] = "live"]
    /\ UNCHANGED <<dim, status, created, vectors, objects, worker, request, crashes, retries>>

\* Upload: the base is read, then the document's UUID and key are made.
StartUpload(r, s, d) ==
    /\ status[d] = "fresh"
    /\ base[BaseOf[d]] = "live"
    /\ Start(r, s, "put", BaseOf[d], {d})
    /\ status' = [status EXCEPT ![d] = "issued"]
    /\ UNCHANGED <<base, dim, created, vectors, objects, worker, crashes, retries>>

\* The file is written, before the row that points to it.
PutObject(r) ==
    /\ request[r].op = "put"
    /\ Continue(r, "insert")
    /\ objects' = objects \cup request[r].docs
    /\ UNCHANGED <<rows, worker, crashes, retries>>

\* Mutant: an error of Put is not noticed.
AbortUploadIgnored(r) ==
    /\ request[r].op = "put"
    /\ Continue(r, "insert")
    /\ UNCHANGED <<rows, objects, worker, crashes, retries>>

\* The body is too long or breaks off, or the disk refuses it.
AbortUpload(r) ==
    /\ request[r].op = "put"
    /\ Finish(r)
    /\ UNCHANGED <<rows, objects, worker, crashes, retries>>

\* CreateDocument.  Upload takes any error for a duplicate.
InsertRow(r) ==
    /\ request[r].op = "insert"
    /\ \E d \in request[r].docs, o \in Outcomes :
          LET accepted == base[BaseOf[d]] = "live" /\ ~Duplicate(d) /\ Applied(o)
          IN  /\ IF accepted
                 THEN /\ status'  = [status EXCEPT ![d] = "queued"]
                      /\ created' = [created EXCEPT ![d] =
                                        1 + Cardinality({e \in Documents : created[e] > 0})]
                 ELSE UNCHANGED <<status, created>>
              /\ IF accepted /\ Acked(o) THEN Finish(r) ELSE Continue(r, "undo")
    /\ UNCHANGED <<base, dim, vectors, objects, worker, crashes, retries>>

\* Mutant: the file is kept.
UndoPutForgotten(r) ==
    /\ request[r].op = "undo"
    /\ Finish(r)
    /\ UNCHANGED <<rows, objects, worker, crashes, retries>>

\* The file of a refused upload is removed; an error of this is ignored.
UndoPut(r) ==
    /\ request[r].op = "undo"
    /\ Finish(r)
    /\ \/ objects' = objects \ request[r].docs
       \/ "unlink" \in Faults /\ UNCHANGED objects
    /\ UNCHANGED <<rows, worker, crashes, retries>>

\* The rows in D are deleted; their chunks go with them.
DeleteRows(D) ==
    /\ status'  = [d \in Documents |-> IF d \in D THEN "deleted" ELSE status[d]]
    /\ vectors' = [d \in Documents |-> IF d \in D THEN 0 ELSE vectors[d]]

\* Mutant: the file is not removed after the row.
DeleteRowOnly(r, s, d) ==
    /\ HasRow(d)
    /\ Up(s)
    /\ request[r].op = "idle"
    /\ DeleteRows({d})
    /\ UNCHANGED <<base, dim, created, objects, worker, request, crashes, retries>>

\* DELETE /knowledge-bases/:id/documents/:id, up to the row; the file is only
\* removed when the deletion is known to have happened.
DeleteDocument(r, s, d) ==
    /\ HasRow(d)
    /\ \/ Start(r, s, "unlink", BaseOf[d], {d})
       \/ "lost" \in Faults /\ Up(s) /\ UNCHANGED request
    /\ DeleteRows({d})
    /\ UNCHANGED <<base, dim, created, objects, worker, crashes, retries>>

\* DELETE /knowledge-bases/:id reads the documents of the base ...
ListForDrop(r, s, k) ==
    /\ base[k] # "none"
    /\ Start(r, s, "drop", k, RowsOf(k))
    /\ UNCHANGED <<rows, objects, worker, crashes, retries>>

\* ... deletes the base, with whatever documents it has by now ...
DropBase(r) ==
    /\ request[r].op = "drop"
    /\ LET k == request[r].base
       IN  \/ /\ base[k] = "live"
              /\ \E o \in Outcomes \ {"error"} :
                    IF Acked(o) /\ request[r].docs # {} THEN Continue(r, "unlink") ELSE Finish(r)
              /\ base' = [base EXCEPT ![k] = "gone"]
              /\ DeleteRows(RowsOf(k))
           \/ /\ base[k] = "gone" \/ "error" \in Faults
              /\ Finish(r)
              /\ UNCHANGED <<base, status, vectors>>
    /\ UNCHANGED <<dim, created, objects, worker, crashes, retries>>

\* ... and removes the files of those it read, newest first, up to an error.
UnlinkObject(r) ==
    /\ request[r].op = "unlink"
    /\ \E d \in request[r].docs :
          /\ \A e \in request[r].docs : created[e] <= created[d]
          /\ objects' = objects \ {d}
          /\ IF request[r].docs = {d}
             THEN Finish(r)
             ELSE request' = [request EXCEPT ![r].docs = @ \ {d}]
    /\ UNCHANGED <<rows, worker, crashes, retries>>

UnlinkFails(r) ==
    /\ request[r].op = "unlink"
    /\ "unlink" \in Faults
    /\ Finish(r)
    /\ UNCHANGED <<rows, objects, worker, crashes, retries>>

\* Mutant: without that guard.
RetryAnyDocument(d) ==
    /\ \E s \in Servers : Up(s)
    /\ retries < MaxRetries
    /\ HasRow(d)
    /\ status'  = [status EXCEPT ![d] = "queued"]
    /\ retries' = retries + 1
    /\ UNCHANGED <<base, dim, created, vectors, objects, worker, request, crashes>>

\* POST .../retry, guarded by the status in its WHERE clause.
RetryDocument(d) ==
    /\ \E s \in Servers : Up(s)
    /\ retries < MaxRetries
    /\ status[d] = "failed"
    /\ status'  = [status EXCEPT ![d] = "queued"]
    /\ retries' = retries + 1
    /\ UNCHANGED <<base, dim, created, vectors, objects, worker, request, crashes>>

-----------------------------------------------------------------------------
(* The worker of server s                                                  *)

\* main starts the worker before it binds the port.
Boot(s) ==
    /\ worker[s].pc = "down"
    /\ Advance(s, "booting")
    /\ UNCHANGED <<rows, objects, request, crashes, retries>>

\* Mutant: the worker starts without it.
RecoverSkipped(s) ==
    /\ worker[s].pc = "booting"
    /\ Advance(s, "idle")
    /\ UNCHANGED <<rows, objects, request, crashes, retries>>

\* RecoverProcessingDocuments, once; an error is only logged.
Recover(s) ==
    /\ worker[s].pc = "booting"
    /\ Advance(s, "idle")
    /\ \/ status' = [d \in Documents |->
                        IF status[d] = "processing" THEN "queued" ELSE status[d]]
       \/ "error" \in Faults /\ UNCHANGED status
    /\ UNCHANGED <<base, dim, created, vectors, objects, request, crashes, retries>>

\* Mutant: only the outer statement looks at the status.
OldestOfAll(d) ==
    /\ status[d] = "queued"
    /\ \A e \in Documents : HasRow(e) => created[d] <= created[e]

Oldest(d) ==
    /\ status[d] = "queued"
    /\ \A e \in Documents : status[e] = "queued" => created[d] <= created[e]

\* ClaimNextDocument.  A claim whose answer is lost leaves the worker idle.
Claim(s) ==
    /\ worker[s].pc = "idle"
    /\ \E d \in Documents, o \in Outcomes \ {"error"} :
          /\ Oldest(d)
          /\ status' = [status EXCEPT ![d] = "processing"]
          /\ IF Acked(o) THEN Reset(s, Worker("claimed", d, 0)) ELSE UNCHANGED worker
    /\ UNCHANGED <<base, dim, created, vectors, objects, request, crashes, retries>>

\* Mutant: the worker returns without recording the failure.
LoadBaseGivesUp(s) ==
    /\ worker[s].pc = "claimed"
    /\ \E o \in Outcomes :
          IF Acked(o) /\ base[BaseOf[worker[s].doc]] = "live"
          THEN Advance(s, "loaded") ELSE Reset(s, Idle("idle"))
    /\ UNCHANGED <<rows, objects, request, crashes, retries>>

\* GetKnowledgeBaseInternal
LoadBase(s) ==
    /\ worker[s].pc = "claimed"
    /\ \E o \in Outcomes :
          Advance(s, IF Acked(o) /\ base[BaseOf[worker[s].doc]] = "live"
                     THEN "loaded" ELSE "failing")
    /\ UNCHANGED <<rows, objects, request, crashes, retries>>

\* The source file is opened; the open file outlives its removal.
OpenSource(s) ==
    /\ worker[s].pc = "loaded"
    /\ Advance(s, IF worker[s].doc \in objects THEN "opened" ELSE "failing")
    /\ UNCHANGED <<rows, objects, request, crashes, retries>>

\* What Preparer.Prepare may return: vectors that all have one length, or nothing
\* for a document that has no text.
PreparedLengths == Dimensions \cup {0}

\* Extraction, chunking, credential and embedding: everything or an error.
Prepare(s) ==
    /\ worker[s].pc = "opened"
    /\ \/ \E n \in PreparedLengths :
             Reset(s, Worker("prepared", worker[s].doc, n))
       \/ Advance(s, "failing")
    /\ UNCHANGED <<rows, objects, request, crashes, retries>>

\* Mutant: the length the base is committed to is not compared.
CanSaveAnyLength(d, n) == n # 0 /\ base[BaseOf[d]] = "live" /\ HasRow(d)

\* The transaction of SavePreparedDocument would go through for vectors of
\* length n: there are some, the base takes their length, and the row of d is
\* still there for the chunks to reference.
CanSave(d, n) ==
    /\ n # 0
    /\ base[BaseOf[d]] = "live"
    /\ dim[BaseOf[d]] \in {0, n}
    /\ HasRow(d)

\* The effect of its commit.  The status is not looked at.
Publish(d, n) ==
    /\ dim'     = [dim EXCEPT ![BaseOf[d]] = n]
    /\ vectors' = [vectors EXCEPT ![d] = n]
    /\ status'  = [status EXCEPT ![d] = "ready"]

SavePreparedDocument(s) ==
    /\ worker[s].pc = "prepared"
    /\ \E o \in Outcomes :
          LET d       == worker[s].doc
              n       == worker[s].dim
              commits == CanSave(d, n) /\ Applied(o)
          IN  /\ IF commits THEN Publish(d, n) ELSE UNCHANGED <<dim, vectors, status>>
              /\ IF commits /\ Acked(o)
                 THEN Reset(s, Idle("idle"))
                 ELSE Reset(s, Worker("failing", d, 0))
    /\ UNCHANGED <<base, created, objects, request, crashes, retries>>

\* Mutant: the worker does not let go of the document.
FailAndHold(s) ==
    /\ worker[s].pc = "failing"
    /\ Advance(s, "idle")
    /\ status' = [status EXCEPT ![worker[s].doc] = IF HasRow(worker[s].doc) THEN "failed" ELSE @]
    /\ UNCHANGED <<base, dim, created, vectors, objects, request, crashes, retries>>

\* FailDocument: whatever the status is; an error is ignored.
FailDocument(s) ==
    /\ worker[s].pc = "failing"
    /\ Reset(s, Idle("idle"))
    /\ \/ status' = [status EXCEPT ![worker[s].doc] = IF HasRow(worker[s].doc) THEN "failed" ELSE @]
       \/ "error" \in Faults /\ UNCHANGED status
    /\ UNCHANGED <<base, dim, created, vectors, objects, request, crashes, retries>>

\* The process of s ends; its handlers and its worker forget where they were.
Crash(s) ==
    /\ Up(s)
    /\ crashes < MaxCrashes
    /\ crashes' = crashes + 1
    /\ Reset(s, Idle("down"))
    /\ request' = [r \in Requests |->
                      IF request[r].server = s THEN NoRequest ELSE request[r]]
    /\ UNCHANGED <<rows, objects, retries>>

-----------------------------------------------------------------------------

HandlerStep(r) ==
    PutObject(r) \/ AbortUpload(r) \/ InsertRow(r) \/ UndoPut(r)
        \/ DropBase(r) \/ UnlinkObject(r) \/ UnlinkFails(r)

WorkerStep(s) ==
    Boot(s) \/ Recover(s) \/ Claim(s) \/ LoadBase(s) \/ OpenSource(s) \/ Prepare(s)
        \/ SavePreparedDocument(s) \/ FailDocument(s)

UserStep ==
    \/ \E k \in Bases : CreateBase(k)
    \/ \E d \in Documents : RetryDocument(d)
    \/ \E r \in Requests, s \in Servers :
          \/ \E d \in Documents : StartUpload(r, s, d) \/ DeleteDocument(r, s, d)
          \/ \E k \in Bases : ListForDrop(r, s, k)

Next ==
    \/ UserStep
    \/ \E r \in Requests : HandlerStep(r)
    \/ \E s \in Servers : WorkerStep(s) \/ Crash(s)

Spec == Init /\ [][Next]_vars

\* The worker polls for ever and handlers run to their end; a process that is
\* down is started again.  Nobody has to ask for anything.
Fairness ==
    /\ \A s \in Servers : WF_vars(WorkerStep(s))
    /\ \A r \in Requests : WF_vars(HandlerStep(r))

FairSpec == Spec /\ Fairness

-----------------------------------------------------------------------------
(* Properties                                                              *)

RowsOK ==
    /\ base    \in [Bases -> {"none", "live", "gone"}]
    /\ dim     \in [Bases -> Dimensions \cup {0}]
    /\ status  \in [Documents -> Status]
    /\ created \in [Documents -> Nat]
    /\ vectors \in [Documents -> Dimensions \cup {0}]

WorkersOK ==
    /\ worker \in [Servers -> [pc : WorkerSteps, doc : Documents \cup {None},
                               dim : Dimensions \cup {0}]]
    /\ \A s \in Servers :
          worker[s].pc \in {"down", "booting", "idle"} <=> worker[s].doc = None

RequestsOK ==
    /\ request \in [Requests -> [op : RequestSteps, server : Servers \cup {None},
                                 base : Bases \cup {None}, docs : SUBSET Documents]]
    /\ \A r \in Requests :
          IF request[r].op = "idle" THEN request[r] = NoRequest
          ELSE request[r].server # None /\ request[r].base # None

TypeOK ==
    /\ RowsOK
    /\ objects \subseteq Documents
    /\ WorkersOK
    /\ RequestsOK
    /\ crashes \in 0 .. MaxCrashes
    /\ retries \in 0 .. MaxRetries

\* "Vectors from different embedding models must never be mixed in the same
\* retrieval index" (rag/types.go): all chunks of a base have the length the base
\* is committed to and belong to a document that exists, and a ready document has
\* some, whichever workers prepared them, however often, and whatever failed.
IndexSound ==
    \A d \in Documents :
        /\ vectors[d] # 0 => HasRow(d) /\ vectors[d] = dim[BaseOf[d]]
        /\ status[d] = "ready" => vectors[d] # 0

\* A document that has a row has its source file, so that the worker can open it
\* and a retry can succeed: Upload writes the file first and the deletions remove
\* it last, whichever handlers overlap.  (Needs acknowledgements not to be lost:
\* UndoPut then removes the file of a row that was inserted.)
SourceRetained == \A d \in Documents : HasRow(d) => d \in objects

\* d is 'processing' with nobody to finish it: no worker holds it, and no process has
\* yet to run its recovery.
Abandoned(d) ==
    /\ status[d] = "processing"
    /\ \A s \in Servers : worker[s].pc \notin {"down", "booting"} /\ worker[s].doc # d

\* No document is abandoned.  (Needs the statements to succeed: the errors of Recover and
\* FailDocument are dropped.)
ProcessingAccounted == \A d \in Documents : ~Abandoned(d)

\* Statements that fail, but are acknowledged, only abandon a document when they are
\* Recover and FailDocument: whatever else goes wrong between the claim and the commit of
\* the save, the worker does not let go of a document that it has not settled.
AbandonedOnlyByError ==
    [][\A d \in Documents :
          ~Abandoned(d) /\ Abandoned(d)' =>
              \E s \in Servers :
                  /\ \/ worker[s].pc = "booting"
                     \/ worker[s].pc = "failing" /\ worker[s].doc = d
                  /\ worker'[s].pc = "idle"]_vars

\* The row of d is gone, and so is its base.
Dropped(d) == status[d] = "deleted" /\ base[BaseOf[d]] = "gone"

\* Until a process crashes, and if acknowledgements are not lost, a source file
\* without a row is in the hands of a handler that is about to insert the row or
\* to remove the file, unless a drop has deleted its row.  (A drop that had listed
\* its documents before d was inserted leaves the file of d.  An upload whose base
\* is dropped before its insert is no exception: it is refused and undone.)
OrphansAccounted ==
    \A d \in objects :
        \/ HasRow(d)
        \/ Dropped(d)
        \/ \E r \in Requests :
              request[r].op \in {"insert", "undo", "unlink"} /\ d \in request[r].docs
        \/ crashes > 0

\* The same as a promise: such a file gets its row, or is removed, in the end.
OrphansResolved ==
    \A d \in Documents :
        (d \in objects /\ ~HasRow(d))
            ~> \/ d \notin objects \/ HasRow(d)
               \/ Dropped(d)
               \/ crashes > 0

\* What the owner of a document sees of its status.
StageOf(d) ==
    CASE status[d] \in {"fresh", "issued"}      -> "absent"
      [] status[d] \in {"queued", "processing"} -> "pending"
      [] status[d] \in {"ready", "failed"}      -> status[d]
      [] status[d] = "deleted"                  -> "removed"

Seen == [d \in Documents |-> StageOf(d)]

Lifecycle == INSTANCE DocumentLifecycle WITH stage <- Seen

\* One server process keeps the promise of DocumentLifecycle across its crashes:
\* no stale worker demotes a ready document or revives a deleted one.
KeepsLifecycle == Lifecycle!Spec

\* And it settles every accepted document, or its owner removes it.
SettlesDocuments == Lifecycle!FairSpec

=============================================================================
