-------------------------- MODULE IngestionProofs --------------------------
(***************************************************************************)
(* Theorems about Ingestion and its SourceStore for every set of servers,  *)
(* handlers, bases and documents, every dimension and, where it is not     *)
(* said otherwise, every combination of faults.                            *)
(***************************************************************************)
EXTENDS SourceStore, FiniteSetTheorems, TLAPS

-----------------------------------------------------------------------------
(* Type correctness                                                        *)

\* The state before any process runs is well typed.
LEMMA TypeInit == Init => TypeOK
BY BoundAssumption, DimensionsAssumption, SMT
   DEF Init, TypeOK, RowsOK, WorkersOK, RequestsOK, Idle, Worker, NoRequest,
       Status, RowStatus, WorkerSteps, RequestSteps

\* A handler that returns, goes on or starts leaves the slots well typed.
LEMMA TypeFinish ==
    ASSUME RequestsOK, NEW r \in Requests, Finish(r)
    PROVE  RequestsOK'
BY DEF RequestsOK, Finish, NoRequest, RequestSteps

LEMMA TypeContinue ==
    ASSUME RequestsOK, NEW r \in Requests, NEW op \in RequestSteps \ {"idle"},
           request[r].op # "idle", Continue(r, op)
    PROVE  RequestsOK'
<1>1. request' \in [Requests -> [op : RequestSteps, server : Servers \cup {None},
                                base : Bases \cup {None}, docs : SUBSET Documents]]
  BY DEF RequestsOK, Continue
<1>2. ASSUME NEW q \in Requests
      PROVE  IF request'[q].op = "idle" THEN request'[q] = NoRequest
             ELSE request'[q].server # None /\ request'[q].base # None
  BY DEF RequestsOK, Continue
<1> QED BY <1>1, <1>2 DEF RequestsOK

LEMMA TypeStart ==
    ASSUME RequestsOK, NEW r \in Requests, NEW s \in Servers, NEW op \in RequestSteps \ {"idle"},
           NEW k \in Bases, NEW D \in SUBSET Documents, Start(r, s, op, k, D)
    PROVE  RequestsOK'
<1>1. request' \in [Requests -> [op : RequestSteps, server : Servers \cup {None},
                                base : Bases \cup {None}, docs : SUBSET Documents]]
  BY DEF RequestsOK, Start
<1>2. ASSUME NEW q \in Requests
      PROVE  IF request'[q].op = "idle" THEN request'[q] = NoRequest
             ELSE request'[q].server # None /\ request'[q].base # None
  BY NoneAssumption DEF RequestsOK, Start
<1> QED BY <1>1, <1>2 DEF RequestsOK

\* Deleting rows leaves the rows well typed.
LEMMA TypeDeleteRows ==
    ASSUME RowsOK, NEW D, DeleteRows(D)
    PROVE  status' \in [Documents -> Status] /\ vectors' \in [Documents -> Dimensions \cup {0}]
BY DEF RowsOK, DeleteRows, Status

\* A step that leaves the rows, the workers or the slots alone keeps their types.
LEMMA TypeUnchanged ==
    /\ RowsOK /\ UNCHANGED rows => RowsOK'
    /\ WorkersOK /\ UNCHANGED worker => WorkersOK'
    /\ RequestsOK /\ UNCHANGED request => RequestsOK'
BY DEF RowsOK, WorkersOK, RequestsOK, rows

\* Every step of a user keeps the types.
LEMMA TypeUser ==
    ASSUME TypeOK, UserStep
    PROVE  TypeOK'
<1>1. ASSUME NEW k \in Bases, CreateBase(k) PROVE TypeOK'
  <2>1. RowsOK'
    BY <1>1 DEF TypeOK, RowsOK, CreateBase
  <2> QED BY <1>1, <2>1, TypeUnchanged DEF TypeOK, CreateBase
<1>2. ASSUME NEW d \in Documents, RetryDocument(d) PROVE TypeOK'
  <2>1. RowsOK'
    BY <1>2 DEF TypeOK, RowsOK, RetryDocument, Status, RowStatus
  <2>2. retries' \in 0 .. MaxRetries
    BY <1>2, BoundAssumption DEF TypeOK, RetryDocument
  <2> QED BY <1>2, <2>1, <2>2, TypeUnchanged DEF TypeOK, RetryDocument
<1>3. ASSUME NEW r \in Requests, NEW s \in Servers, NEW d \in Documents, StartUpload(r, s, d)
      PROVE  TypeOK'
  <2>1. RowsOK'
    BY <1>3 DEF TypeOK, RowsOK, StartUpload, Status
  <2>2. RequestsOK'
    BY <1>3, RowAssumption, TypeStart DEF TypeOK, StartUpload, RequestSteps
  <2> QED BY <1>3, <2>1, <2>2, TypeUnchanged DEF TypeOK, StartUpload
<1>4. ASSUME NEW r \in Requests, NEW s \in Servers, NEW d \in Documents, DeleteDocument(r, s, d)
      PROVE  TypeOK'
  <2>1. RowsOK'
    BY <1>4, TypeDeleteRows DEF TypeOK, RowsOK, DeleteDocument
  <2>2. CASE Start(r, s, "unlink", BaseOf[d], {d})
    <3>1. RequestsOK'
      BY <2>2, RowAssumption, TypeStart DEF TypeOK, RequestSteps
    <3> QED BY <1>4, <2>1, <3>1, TypeUnchanged DEF TypeOK, DeleteDocument
  <2>3. CASE UNCHANGED request
    BY <1>4, <2>1, <2>3, TypeUnchanged DEF TypeOK, DeleteDocument
  <2> QED BY <1>4, <2>2, <2>3 DEF DeleteDocument
<1>5. ASSUME NEW r \in Requests, NEW s \in Servers, NEW k \in Bases, ListForDrop(r, s, k)
      PROVE  TypeOK'
  <2>1. RowsOf(k) \subseteq Documents
    BY DEF RowsOf, DocumentsOf
  <2>2. RequestsOK'
    BY <1>5, <2>1, TypeStart DEF TypeOK, ListForDrop, RequestSteps
  <2> QED BY <1>5, <2>2, TypeUnchanged DEF TypeOK, ListForDrop
<1> QED
  BY <1>1, <1>2, <1>3, <1>4, <1>5, Zenon DEF UserStep

\* Every step of a handler keeps the types.
LEMMA TypeHandler ==
    ASSUME TypeOK, NEW r \in Requests, HandlerStep(r)
    PROVE  TypeOK'
<1>0. /\ Finish(r) => RequestsOK'
      /\ \A op \in RequestSteps \ {"idle"} :
            request[r].op # "idle" /\ Continue(r, op) => RequestsOK'
  BY TypeFinish, TypeContinue DEF TypeOK
<1>1. CASE PutObject(r)
  <2>1. objects' \subseteq Documents
    BY <1>1 DEF TypeOK, RequestsOK, PutObject
  <2>2. RequestsOK'
    BY <1>0, <1>1 DEF PutObject, RequestSteps
  <2> QED BY <1>1, <2>1, <2>2, TypeUnchanged DEF TypeOK, PutObject
<1>2. CASE AbortUpload(r)
  BY <1>0, <1>2, TypeUnchanged DEF TypeOK, AbortUpload
<1>3. CASE InsertRow(r)
  <2>1. RequestsOK'
    BY <1>0, <1>3 DEF InsertRow, RequestSteps
  <2>2. RowsOK'
    <3>1. PICK d \in request[r].docs :
            \/ UNCHANGED <<status, created>>
            \/ /\ status' = [status EXCEPT ![d] = "queued"]
               /\ created' = [created EXCEPT ![d] =
                                1 + Cardinality({e \in Documents : created[e] > 0})]
      BY <1>3 DEF InsertRow
    <3>2. d \in Documents
      BY DEF TypeOK, RequestsOK
    <3>3. Cardinality({e \in Documents : created[e] > 0}) \in Nat
      BY RowAssumption, FS_Subset, FS_CardinalityType
    <3>4. 1 + Cardinality({e \in Documents : created[e] > 0}) \in Nat
      BY <3>3
    <3> QED BY <1>3, <3>1, <3>2, <3>4 DEF TypeOK, RowsOK, InsertRow, Status, RowStatus
  <2> QED BY <1>3, <2>1, <2>2, TypeUnchanged DEF TypeOK, InsertRow
<1>4. CASE UndoPut(r)
  BY <1>0, <1>4, TypeUnchanged DEF TypeOK, UndoPut
<1>5. CASE DropBase(r)
  <2>1. RequestsOK'
    BY <1>0, <1>5 DEF DropBase, RequestSteps
  <2>2. RowsOK'
    BY <1>5, TypeDeleteRows DEF TypeOK, RowsOK, DropBase
  <2> QED BY <1>5, <2>1, <2>2, TypeUnchanged DEF TypeOK, DropBase
<1>6. CASE UnlinkObject(r)
  <2>1. RequestsOK'
    <3>1. CASE Finish(r)
      BY <1>0, <3>1
    <3>2. CASE \E d \in request[r].docs : request' = [request EXCEPT ![r].docs = @ \ {d}]
      BY <1>6, <3>2 DEF TypeOK, RequestsOK, UnlinkObject
    <3> QED BY <1>6, <3>1, <3>2 DEF UnlinkObject
  <2>2. objects' \subseteq Documents
    BY <1>6 DEF TypeOK, UnlinkObject
  <2> QED BY <1>6, <2>1, <2>2, TypeUnchanged DEF TypeOK, UnlinkObject
<1>7. CASE UnlinkFails(r)
  BY <1>0, <1>7, TypeUnchanged DEF TypeOK, UnlinkFails
<1> QED
  BY <1>1, <1>2, <1>3, <1>4, <1>5, <1>6, <1>7 DEF HandlerStep

\* Every step of a worker, and a crash, keeps the types.
LEMMA TypeWorker ==
    ASSUME TypeOK, NEW s \in Servers, WorkerStep(s) \/ Crash(s)
    PROVE  TypeOK'
<1> USE DEF WorkerSteps
<1>1. CASE Boot(s)
  <2>1. WorkersOK'
    BY <1>1 DEF TypeOK, WorkersOK, Boot, Advance
  <2> QED BY <1>1, <2>1, TypeUnchanged DEF TypeOK, Boot
<1>2. CASE Recover(s)
  <2>1. WorkersOK'
    BY <1>2 DEF TypeOK, WorkersOK, Recover, Advance
  <2>2. RowsOK'
    BY <1>2 DEF TypeOK, RowsOK, Recover, Status, RowStatus
  <2> QED BY <1>2, <2>1, <2>2, TypeUnchanged DEF TypeOK, Recover
<1>3. CASE Claim(s)
  <2>1. WorkersOK'
    BY <1>3, NoneAssumption DEF TypeOK, WorkersOK, Claim, Reset, Worker
  <2>2. RowsOK'
    BY <1>3 DEF TypeOK, RowsOK, Claim, Status, RowStatus
  <2> QED BY <1>3, <2>1, <2>2, TypeUnchanged DEF TypeOK, Claim
<1>4. CASE LoadBase(s)
  <2>1. WorkersOK'
    BY <1>4 DEF TypeOK, WorkersOK, LoadBase, Advance
  <2> QED BY <1>4, <2>1, TypeUnchanged DEF TypeOK, LoadBase
<1>5. CASE OpenSource(s)
  <2>1. WorkersOK'
    BY <1>5 DEF TypeOK, WorkersOK, OpenSource, Advance
  <2> QED BY <1>5, <2>1, TypeUnchanged DEF TypeOK, OpenSource
<1>6. CASE Prepare(s)
  <2>1. WorkersOK'
    BY <1>6 DEF TypeOK, WorkersOK, Prepare, PreparedLengths, Advance, Reset, Worker
  <2> QED BY <1>6, <2>1, TypeUnchanged DEF TypeOK, Prepare
<1>7. CASE SavePreparedDocument(s)
  <2>1. WorkersOK'
    BY <1>7 DEF TypeOK, WorkersOK, SavePreparedDocument, Reset, Worker, Idle
  <2>2. RowsOK'
    <3>1. worker[s].doc \in Documents /\ worker[s].dim \in Dimensions \cup {0}
      BY <1>7 DEF TypeOK, WorkersOK, SavePreparedDocument
    <3>2. CASE Publish(worker[s].doc, worker[s].dim)
      BY <1>7, <3>1, <3>2, RowAssumption
         DEF TypeOK, RowsOK, SavePreparedDocument, Publish, Status, RowStatus
    <3>3. CASE UNCHANGED <<dim, vectors, status>>
      BY <1>7, <3>3 DEF TypeOK, RowsOK, SavePreparedDocument
    <3> QED BY <1>7, <3>2, <3>3 DEF SavePreparedDocument
  <2> QED BY <1>7, <2>1, <2>2, TypeUnchanged DEF TypeOK, SavePreparedDocument
<1>8. CASE FailDocument(s)
  <2>1. WorkersOK'
    BY <1>8 DEF TypeOK, WorkersOK, FailDocument, Reset, Worker, Idle
  <2>2. RowsOK'
    BY <1>8 DEF TypeOK, RowsOK, FailDocument, Status, RowStatus
  <2> QED BY <1>8, <2>1, <2>2, TypeUnchanged DEF TypeOK, FailDocument
<1>9. CASE Crash(s)
  <2>1. WorkersOK'
    BY <1>9 DEF TypeOK, WorkersOK, Crash, Reset, Worker, Idle
  <2>2. RequestsOK'
    BY <1>9 DEF TypeOK, RequestsOK, Crash, NoRequest, RequestSteps
  <2>3. crashes' \in 0 .. MaxCrashes
    BY <1>9, BoundAssumption DEF TypeOK, Crash
  <2> QED BY <1>9, <2>1, <2>2, <2>3, TypeUnchanged DEF TypeOK, Crash
<1> QED
  BY <1>1, <1>2, <1>3, <1>4, <1>5, <1>6, <1>7, <1>8, <1>9 DEF WorkerStep

\* Every step of the system, and every stutter, keeps the types.
LEMMA TypeStep == TypeOK /\ [Next]_vars => TypeOK'
<1>1. ASSUME TypeOK, UNCHANGED vars PROVE TypeOK'
  BY <1>1 DEF vars, TypeOK, RowsOK, WorkersOK, RequestsOK
<1> QED
  BY <1>1, TypeUser, TypeHandler, TypeWorker DEF Next

\* Every reachable state is well typed: in particular every handler that is not
\* idle knows its server and its base, and a worker holds a document exactly
\* from its claim to the end of that document's processing.
THEOREM TypeCorrect == Spec => []TypeOK
BY TypeInit, TypeStep, PTL DEF Spec

-----------------------------------------------------------------------------
(* The retrieval index                                                     *)

\* The actions in which no document loses its row or becomes ready, and the
\* chunks and the dimensions stay as they are.
LEMMA IndexKept ==
    ASSUME IndexSound, UNCHANGED <<vectors, dim>>,
           \A d \in Documents : /\ HasRow(d) => HasRow(d)'
                                /\ status'[d] = "ready" => status[d] = "ready"
    PROVE  IndexSound'
<1>1. ASSUME NEW d \in Documents
      PROVE  /\ vectors'[d] # 0 => HasRow(d)' /\ vectors'[d] = dim'[BaseOf[d]]
             /\ status'[d] = "ready" => vectors'[d] # 0
  BY DEF IndexSound
<1> QED BY <1>1 DEF IndexSound

\* Deleting rows takes their chunks with them.
LEMMA IndexDeleteRows ==
    ASSUME TypeOK, IndexSound, NEW D \in SUBSET Documents, DeleteRows(D), UNCHANGED dim
    PROVE  IndexSound'
<1>1. ASSUME NEW d \in Documents
      PROVE  /\ vectors'[d] # 0 => HasRow(d)' /\ vectors'[d] = dim'[BaseOf[d]]
             /\ status'[d] = "ready" => vectors'[d] # 0
  <2>1. CASE d \in D
    BY <2>1 DEF DeleteRows
  <2>2. CASE d \notin D
    <3>1. status'[d] = status[d] /\ vectors'[d] = vectors[d]
      BY <2>2 DEF DeleteRows
    <3> QED BY <3>1 DEF IndexSound, HasRow
  <2> QED BY <2>1, <2>2
<1> QED BY <1>1 DEF IndexSound

\* A save keeps the index sound: the other documents of the base either have no
\* chunks, when its dimension was not set, or chunks of the same dimension.
LEMMA IndexPublish ==
    ASSUME TypeOK, IndexSound, NEW d \in Documents, NEW n \in Dimensions \cup {0},
           CanSave(d, n), Publish(d, n)
    PROVE  IndexSound'
<1>1. ASSUME NEW e \in Documents
      PROVE  /\ vectors'[e] # 0 => HasRow(e)' /\ vectors'[e] = dim'[BaseOf[e]]
             /\ status'[e] = "ready" => vectors'[e] # 0
  <2> USE RowAssumption DEF TypeOK, RowsOK
  <2>1. CASE e = d
    BY <2>1 DEF CanSave, Publish, HasRow, RowStatus
  <2>2. CASE e # d
    <3>1. vectors'[e] = vectors[e] /\ status'[e] = status[e]
      BY <2>2 DEF Publish
    <3>2. CASE vectors[e] = 0
      BY <3>1, <3>2 DEF IndexSound
    <3>3. CASE vectors[e] # 0
      <4>1. HasRow(e) /\ vectors[e] = dim[BaseOf[e]]
        BY <3>3 DEF IndexSound
      <4>2. dim'[BaseOf[e]] = dim[BaseOf[e]]
        BY <3>3, <4>1 DEF CanSave, Publish
      <4> QED BY <3>1, <3>3, <4>1, <4>2 DEF HasRow
    <3> QED BY <3>2, <3>3
  <2> QED BY <2>1, <2>2
<1> QED BY <1>1 DEF IndexSound

\* Every step keeps the index sound.
LEMMA IndexStep == TypeOK /\ IndexSound /\ [Next]_vars => IndexSound'
<1> SUFFICES ASSUME TypeOK, IndexSound, [Next]_vars PROVE IndexSound'
  OBVIOUS
<1>0. CASE UNCHANGED rows
  BY <1>0, IndexKept DEF rows, HasRow
<1>1. ASSUME NEW r \in Requests, NEW s \in Servers, NEW d \in Documents, StartUpload(r, s, d)
      PROVE  IndexSound'
  BY <1>1, IndexKept DEF StartUpload, TypeOK, RowsOK, HasRow, RowStatus
<1>2. ASSUME NEW r \in Requests, InsertRow(r) PROVE IndexSound'
  <2>1. request[r].docs \subseteq Documents
    BY DEF TypeOK, RequestsOK
  <2> QED BY <1>2, <2>1, IndexKept DEF InsertRow, TypeOK, RowsOK, HasRow, RowStatus
<1>3. ASSUME NEW r \in Requests, NEW s \in Servers, NEW d \in Documents, DeleteDocument(r, s, d)
      PROVE  IndexSound'
  BY <1>3, IndexDeleteRows DEF DeleteDocument
<1>4. ASSUME NEW r \in Requests, DropBase(r) PROVE IndexSound'
  <2>1. CASE UNCHANGED <<status, vectors>>
    BY <1>4, <2>1, IndexKept DEF DropBase, HasRow
  <2>2. CASE DeleteRows(RowsOf(request[r].base))
    <3>1. RowsOf(request[r].base) \in SUBSET Documents
      BY DEF RowsOf, DocumentsOf
    <3> QED BY <1>4, <2>2, <3>1, IndexDeleteRows DEF DropBase
  <2> QED BY <1>4, <2>1, <2>2 DEF DropBase
<1>5. ASSUME NEW d \in Documents, RetryDocument(d) PROVE IndexSound'
  BY <1>5, IndexKept DEF RetryDocument, TypeOK, RowsOK, HasRow, RowStatus
<1>6. ASSUME NEW s \in Servers, Recover(s) PROVE IndexSound'
  BY <1>6, IndexKept DEF Recover, TypeOK, RowsOK, HasRow, RowStatus
<1>7. ASSUME NEW s \in Servers, Claim(s) PROVE IndexSound'
  BY <1>7, IndexKept DEF Claim, Oldest, TypeOK, RowsOK, HasRow, RowStatus
<1>8. ASSUME NEW s \in Servers, SavePreparedDocument(s) PROVE IndexSound'
  <2>1. worker[s].doc \in Documents /\ worker[s].dim \in Dimensions \cup {0}
    BY <1>8 DEF SavePreparedDocument, TypeOK, WorkersOK
  <2>2. CASE UNCHANGED <<dim, vectors, status>>
    BY <1>8, <2>2, IndexKept DEF HasRow
  <2>3. CASE CanSave(worker[s].doc, worker[s].dim) /\ Publish(worker[s].doc, worker[s].dim)
    BY <2>1, <2>3, IndexPublish
  <2> QED BY <1>8, <2>2, <2>3 DEF SavePreparedDocument
<1>9. ASSUME NEW s \in Servers, FailDocument(s) PROVE IndexSound'
  BY <1>9, IndexKept DEF FailDocument, TypeOK, RowsOK, HasRow, RowStatus
<1>10. UserStep => IndexSound'
  <2>1. \A k \in Bases : CreateBase(k) => IndexSound'
    BY IndexKept DEF CreateBase, HasRow
  <2>2. \A r \in Requests, s \in Servers, k \in Bases : ListForDrop(r, s, k) => IndexSound'
    BY <1>0 DEF ListForDrop
  <2> QED BY <1>1, <1>3, <1>5, <2>1, <2>2 DEF UserStep
<1>11. \A r \in Requests : HandlerStep(r) => IndexSound'
  BY <1>0, <1>2, <1>4 DEF HandlerStep, PutObject, AbortUpload, UndoPut, UnlinkObject, UnlinkFails
<1>12. \A s \in Servers : WorkerStep(s) \/ Crash(s) => IndexSound'
  BY <1>0, <1>6, <1>7, <1>8, <1>9 DEF WorkerStep, Boot, LoadBase, OpenSource, Prepare, Crash
<1>13. UNCHANGED vars => IndexSound'
  BY <1>0 DEF vars, rows
<1> QED BY <1>10, <1>11, <1>12, <1>13 DEF Next

\* Embeddings of different dimensions are never mixed in a knowledge base and a
\* ready document can be found, for any number of servers, restarts and retries
\* and whatever statements fail or lose their acknowledgement.
THEOREM IndexIsSound == Spec => []IndexSound
<1>1. Init => IndexSound
  BY DEF Init, IndexSound
<1> QED
  BY <1>1, TypeCorrect, IndexStep, PTL DEF Spec

-----------------------------------------------------------------------------
(* The source files                                                        *)

\* What the handlers rely on when they overlap: the document of an upload has no
\* row yet and belongs to no other upload, its file is there when its row is
\* inserted, a file is only removed for a row that is gone, and a drop holds
\* documents that had a row in its base.
UploadSteps == {"put", "insert", "undo"}

UploadsPending == \A r \in Requests : request[r].op \in UploadSteps =>
                     \A d \in request[r].docs : status[d] = "issued"

UploadsApart == \A q, r \in Requests :
                   q # r /\ request[q].op \in UploadSteps /\ request[r].op \in UploadSteps
                      => request[q].docs \cap request[r].docs = {}

FilesWritten == \A r \in Requests : request[r].op = "insert" => request[r].docs \subseteq objects

RemovalsLast == \A r \in Requests : request[r].op = "unlink" =>
                   \A d \in request[r].docs : status[d] = "deleted"

DropsRows == \A r \in Requests : request[r].op = "drop" =>
                \A d \in request[r].docs :
                   BaseOf[d] = request[r].base /\ (HasRow(d) \/ status[d] = "deleted")

SourceInv == SourceRetained /\ UploadsPending /\ UploadsApart /\ FilesWritten
                /\ RemovalsLast /\ DropsRows

\* The steps in which handlers at most return, rows at most change their status
\* or go, and files that go belong to no row and no insertion.
LEMMA SourceKept ==
    ASSUME TypeOK, SourceInv,
           \A q \in Requests : \/ request'[q].op = "idle"
                               \/ /\ request'[q].op = request[q].op
                                  /\ request'[q].base = request[q].base
                                  /\ request'[q].docs \subseteq request[q].docs,
           \A d \in Documents : \/ status'[d] = status[d]
                                \/ HasRow(d) /\ status'[d] \in RowStatus \cup {"deleted"},
           \A d \in objects : d \notin objects' =>
              ~HasRow(d) /\ \A q \in Requests : request[q].op = "insert" => d \notin request[q].docs
    PROVE  SourceInv'
<1> USE DEF SourceInv
<1>0. \A q \in Requests : request[q].docs \subseteq Documents
  BY DEF TypeOK, RequestsOK
<1>1. SourceRetained'
  <2>1. ASSUME NEW d \in Documents, HasRow(d)' PROVE d \in objects'
    <3>1. HasRow(d)
      BY <2>1 DEF HasRow
    <3> QED BY <3>1 DEF SourceRetained
  <2> QED BY <2>1 DEF SourceRetained
<1>2. UploadsPending'
  BY <1>0 DEF UploadsPending, UploadSteps, HasRow, RowStatus
<1>3. UploadsApart'
  BY DEF UploadsApart, UploadSteps
<1>4. FilesWritten'
  BY DEF FilesWritten
<1>5. RemovalsLast'
  BY <1>0 DEF RemovalsLast, HasRow, RowStatus
<1>6. DropsRows'
  BY <1>0 DEF DropsRows, HasRow, RowStatus
<1> QED BY <1>1, <1>2, <1>3, <1>4, <1>5, <1>6

\* A user's request keeps them: an upload starts with a document nobody else has,
\* a deletion holds the row it deleted, a drop the rows it read.
LEMMA SourceUser ==
    ASSUME TypeOK, SourceInv, UserStep
    PROVE  SourceInv'
<1>1. ASSUME NEW k \in Bases, CreateBase(k) PROVE SourceInv'
  BY <1>1, SourceKept DEF CreateBase
<1>2. ASSUME NEW d \in Documents, RetryDocument(d) PROVE SourceInv'
  BY <1>2, SourceKept DEF RetryDocument, TypeOK, RowsOK, HasRow, RowStatus
<1>3. ASSUME NEW r \in Requests, NEW s \in Servers, NEW d \in Documents, StartUpload(r, s, d)
      PROVE  SourceInv'
  <2> USE <1>3 DEF StartUpload, Start
  <2>0. /\ status' = [status EXCEPT ![d] = "issued"]
        /\ request' = [request EXCEPT ![r] = [op |-> "put", server |-> s,
                                              base |-> BaseOf[d], docs |-> {d}]]
        /\ status[d] = "fresh"
        /\ request[r].op = "idle"
    OBVIOUS
  <2>1. \A q \in Requests \ {r} : request'[q] = request[q]
    BY <2>0 DEF TypeOK, RequestsOK
  <2>2. request'[r].op = "put" /\ request'[r].docs = {d}
    BY <2>0 DEF TypeOK, RequestsOK
  <2>3. \A e \in Documents \ {d} : status'[e] = status[e]
    BY <2>0 DEF TypeOK, RowsOK
  <2>4. status'[d] = "issued"
    BY <2>0 DEF TypeOK, RowsOK
  <2>5. \A q \in Requests : request[q].op # "idle" => d \notin request[q].docs
    BY <2>0 DEF SourceInv, UploadsPending, RemovalsLast, DropsRows, HasRow, RowStatus, UploadSteps,
                TypeOK, RequestsOK, RequestSteps
  <2>6. \A q \in Requests : request[q].docs \subseteq Documents
    BY DEF TypeOK, RequestsOK
  <2>7. SourceRetained'
    BY <2>3, <2>4 DEF SourceInv, SourceRetained, HasRow, RowStatus
  <2>8. UploadsPending'
    BY <2>1, <2>2, <2>3, <2>4, <2>6 DEF SourceInv, UploadsPending, UploadSteps
  <2>9. UploadsApart'
    BY <2>1, <2>2, <2>5 DEF SourceInv, UploadsApart, UploadSteps
  <2>10. FilesWritten'
    BY <2>1, <2>2 DEF SourceInv, FilesWritten
  <2>11. RemovalsLast'
    BY <2>1, <2>2, <2>3, <2>5, <2>6 DEF SourceInv, RemovalsLast
  <2>12. DropsRows'
    BY <2>1, <2>2, <2>3, <2>5, <2>6 DEF SourceInv, DropsRows, HasRow
  <2> QED BY <2>7, <2>8, <2>9, <2>10, <2>11, <2>12 DEF SourceInv
<1>4. ASSUME NEW r \in Requests, NEW s \in Servers, NEW d \in Documents, DeleteDocument(r, s, d)
      PROVE  SourceInv'
  <2>0. \A e \in Documents : status'[e] = IF e = d THEN "deleted" ELSE status[e]
    BY <1>4 DEF DeleteDocument, DeleteRows
  <2>1. CASE UNCHANGED request
    BY <1>4, <2>0, <2>1, SourceKept DEF DeleteDocument
  <2>2. CASE Start(r, s, "unlink", BaseOf[d], {d})
    <3>0. request' = [request EXCEPT ![r] = [op |-> "unlink", server |-> s,
                                             base |-> BaseOf[d], docs |-> {d}]]
      BY <2>2 DEF Start
    <3>1. \A q \in Requests \ {r} : request'[q] = request[q]
      BY <3>0 DEF TypeOK, RequestsOK
    <3>2. request'[r].op = "unlink" /\ request'[r].docs = {d}
      BY <3>0 DEF TypeOK, RequestsOK
    <3>3. HasRow(d) /\ objects' = objects
      BY <1>4 DEF DeleteDocument
    <3>4. \A q \in Requests : request[q].docs \subseteq Documents
      BY DEF TypeOK, RequestsOK
    <3>5. SourceRetained'
      BY <2>0, <3>3 DEF SourceInv, SourceRetained, HasRow, RowStatus
    <3>6. UploadsPending'
      BY <2>0, <3>1, <3>2, <3>3, <3>4 DEF SourceInv, UploadsPending, UploadSteps, HasRow, RowStatus
    <3>7. UploadsApart'
      BY <3>1, <3>2 DEF SourceInv, UploadsApart, UploadSteps
    <3>8. FilesWritten'
      BY <3>1, <3>2, <3>3 DEF SourceInv, FilesWritten
    <3>9. RemovalsLast'
      BY <2>0, <3>1, <3>2, <3>4 DEF SourceInv, RemovalsLast
    <3>10. DropsRows'
      BY <2>0, <3>1, <3>2, <3>4 DEF SourceInv, DropsRows, HasRow
    <3> QED BY <3>5, <3>6, <3>7, <3>8, <3>9, <3>10 DEF SourceInv
  <2> QED BY <1>4, <2>1, <2>2 DEF DeleteDocument
<1>5. ASSUME NEW r \in Requests, NEW s \in Servers, NEW k \in Bases, ListForDrop(r, s, k)
      PROVE  SourceInv'
  <2>0. /\ request' = [request EXCEPT ![r] = [op |-> "drop", server |-> s,
                                              base |-> k, docs |-> RowsOf(k)]]
        /\ status' = status /\ objects' = objects
    BY <1>5 DEF ListForDrop, Start, rows
  <2>1. \A q \in Requests \ {r} : request'[q] = request[q]
    BY <2>0 DEF TypeOK, RequestsOK
  <2>2. request'[r].op = "drop" /\ request'[r].base = k /\ request'[r].docs = RowsOf(k)
    BY <2>0 DEF TypeOK, RequestsOK
  <2>3. SourceRetained'
    BY <2>0 DEF SourceInv, SourceRetained, HasRow
  <2>4. UploadsPending' /\ UploadsApart' /\ FilesWritten' /\ RemovalsLast'
    BY <2>0, <2>1, <2>2
       DEF SourceInv, UploadsPending, UploadsApart, FilesWritten, RemovalsLast, UploadSteps
  <2>5. DropsRows'
    BY <2>0, <2>1, <2>2 DEF SourceInv, DropsRows, HasRow, RowsOf, DocumentsOf
  <2> QED BY <2>3, <2>4, <2>5 DEF SourceInv
<1> QED
  BY <1>1, <1>2, <1>3, <1>4, <1>5, Zenon DEF UserStep

\* A handler's step keeps them, when an insertion that is not acknowledged did not
\* happen.
LEMMA SourceHandler ==
    ASSUME TypeOK, SourceInv, "lost" \notin Faults, NEW r \in Requests, HandlerStep(r)
    PROVE  SourceInv'
<1>1. \A q \in Requests : request[q].docs \subseteq Documents
  BY DEF TypeOK, RequestsOK
<1>2. \A op \in RequestSteps : Continue(r, op) =>
         /\ \A q \in Requests \ {r} : request'[q] = request[q]
         /\ request'[r].op = op
         /\ request'[r].base = request[r].base
         /\ request'[r].docs = request[r].docs
  BY DEF TypeOK, RequestsOK, Continue
<1>3. Finish(r) => /\ \A q \in Requests \ {r} : request'[q] = request[q]
                   /\ request'[r].op = "idle"
  BY DEF TypeOK, RequestsOK, Finish, NoRequest
<1>4. CASE PutObject(r)
  <2>1. /\ request[r].op = "put" /\ request'[r].op = "insert"
        /\ request'[r].docs = request[r].docs
        /\ \A q \in Requests \ {r} : request'[q] = request[q]
        /\ status' = status /\ objects' = objects \cup request[r].docs
    BY <1>2, <1>4 DEF PutObject, RequestSteps, rows
  <2>2. SourceRetained'
    BY <2>1 DEF SourceInv, SourceRetained, HasRow
  <2>3. UploadsPending' /\ UploadsApart'
    BY <2>1 DEF SourceInv, UploadsPending, UploadsApart, UploadSteps
  <2>4. FilesWritten'
    BY <2>1 DEF SourceInv, FilesWritten
  <2>5. RemovalsLast' /\ DropsRows'
    BY <2>1 DEF SourceInv, RemovalsLast, DropsRows, HasRow
  <2> QED BY <2>2, <2>3, <2>4, <2>5 DEF SourceInv
<1>5. CASE AbortUpload(r)
  BY <1>3, <1>5, SourceKept DEF AbortUpload, rows
<1>6. CASE InsertRow(r)
  <2>0. \A o \in Outcomes : Applied(o) => Acked(o)
    BY DEF Outcomes, Applied, Acked
  <2>1. CASE UNCHANGED status /\ Continue(r, "undo")
    <3>1. /\ request[r].op = "insert" /\ request'[r].op = "undo"
          /\ request'[r].docs = request[r].docs
          /\ \A q \in Requests \ {r} : request'[q] = request[q]
          /\ status' = status /\ objects' = objects
      BY <1>2, <1>6, <2>1 DEF InsertRow, RequestSteps
    <3>2. SourceRetained'
      BY <3>1 DEF SourceInv, SourceRetained, HasRow
    <3>3. UploadsPending' /\ UploadsApart'
      BY <3>1 DEF SourceInv, UploadsPending, UploadsApart, UploadSteps
    <3>4. FilesWritten' /\ RemovalsLast' /\ DropsRows'
      BY <3>1 DEF SourceInv, FilesWritten, RemovalsLast, DropsRows, HasRow
    <3> QED BY <3>2, <3>3, <3>4 DEF SourceInv
  <2>2. CASE \E d \in request[r].docs :
                status' = [status EXCEPT ![d] = "queued"] /\ Finish(r)
    <3>1. PICK d \in request[r].docs : status' = [status EXCEPT ![d] = "queued"] /\ Finish(r)
      BY <2>2
    <3>2. /\ d \in Documents /\ d \in objects /\ status[d] = "issued"
          /\ request[r].op = "insert" /\ objects' = objects
      BY <1>1, <1>6 DEF SourceInv, FilesWritten, UploadsPending, UploadSteps, InsertRow
    <3>3. \A e \in Documents : status'[e] = IF e = d THEN "queued" ELSE status[e]
      BY <3>1, <3>2 DEF TypeOK, RowsOK
    <3>4. \A q \in Requests \ {r} : request'[q] = request[q]
      BY <1>3, <3>1
    <3>5. request'[r].op = "idle"
      BY <1>3, <3>1
    <3>6. SourceRetained'
      BY <3>2, <3>3 DEF SourceInv, SourceRetained, HasRow
    <3>7. UploadsPending'
      <4>1. \A q \in Requests \ {r} : request[q].op \in UploadSteps => d \notin request[q].docs
        BY <3>1, <3>2 DEF SourceInv, UploadsApart, UploadSteps
      <4> QED BY <1>1, <3>3, <3>4, <3>5, <4>1 DEF SourceInv, UploadsPending, UploadSteps
    <3>8. UploadsApart' /\ FilesWritten'
      BY <3>2, <3>4, <3>5 DEF SourceInv, UploadsApart, FilesWritten, UploadSteps
    <3>9. RemovalsLast'
      BY <1>1, <3>2, <3>3, <3>4, <3>5 DEF SourceInv, RemovalsLast
    <3>10. DropsRows'
      BY <1>1, <3>2, <3>3, <3>4, <3>5 DEF SourceInv, DropsRows, HasRow, RowStatus
    <3> QED BY <3>6, <3>7, <3>8, <3>9, <3>10 DEF SourceInv
  <2> QED BY <1>6, <2>0, <2>1, <2>2 DEF InsertRow
<1>7. CASE UndoPut(r)
  <2>1. \A d \in request[r].docs :
           ~HasRow(d) /\ \A q \in Requests : request[q].op = "insert" => d \notin request[q].docs
    BY <1>7 DEF UndoPut, SourceInv, UploadsPending, UploadsApart, UploadSteps, HasRow, RowStatus
  <2> QED BY <1>3, <1>7, <2>1, SourceKept DEF UndoPut, rows
<1>8. CASE DropBase(r)
  <2>1. CASE Finish(r)
    <3>1. \A d \in Documents : \/ status'[d] = status[d]
                               \/ HasRow(d) /\ status'[d] = "deleted"
      BY <1>8 DEF DropBase, DeleteRows, RowsOf
    <3> QED BY <1>3, <1>8, <2>1, <3>1, SourceKept DEF DropBase
  <2>2. CASE Continue(r, "unlink") /\ DeleteRows(RowsOf(request[r].base))
    <3>1. /\ request[r].op = "drop" /\ request'[r].op = "unlink"
          /\ request'[r].docs = request[r].docs
          /\ \A q \in Requests \ {r} : request'[q] = request[q]
          /\ objects' = objects
      BY <1>2, <1>8, <2>2 DEF DropBase, RequestSteps
    <3>2. \A d \in Documents : status'[d] = IF d \in RowsOf(request[r].base)
                                            THEN "deleted" ELSE status[d]
      BY <2>2 DEF DeleteRows
    <3>3. \A d \in request[r].docs : status'[d] = "deleted"
      BY <1>1, <3>1, <3>2 DEF SourceInv, DropsRows, RowsOf, DocumentsOf
    <3>4. SourceRetained'
      BY <3>1, <3>2 DEF SourceInv, SourceRetained, HasRow, RowStatus
    <3>5. UploadsPending'
      BY <1>1, <3>1, <3>2
         DEF SourceInv, UploadsPending, UploadSteps, RowsOf, HasRow, RowStatus
    <3>6. UploadsApart' /\ FilesWritten'
      BY <3>1 DEF SourceInv, UploadsApart, FilesWritten, UploadSteps
    <3>7. RemovalsLast'
      BY <1>1, <3>1, <3>2, <3>3 DEF SourceInv, RemovalsLast
    <3>8. DropsRows'
      BY <1>1, <3>1, <3>2 DEF SourceInv, DropsRows, HasRow
    <3> QED BY <3>4, <3>5, <3>6, <3>7, <3>8 DEF SourceInv
  <2> QED BY <1>8, <2>1, <2>2 DEF DropBase
<1>9. CASE UnlinkObject(r)
  <2>1. \A d \in request[r].docs :
           ~HasRow(d) /\ \A q \in Requests : request[q].op = "insert" => d \notin request[q].docs
    BY <1>9 DEF UnlinkObject, SourceInv, UploadsPending, RemovalsLast, UploadSteps,
                HasRow, RowStatus
  <2>2. \A q \in Requests : \/ request'[q].op = "idle"
                            \/ /\ request'[q].op = request[q].op
                               /\ request'[q].base = request[q].base
                               /\ request'[q].docs \subseteq request[q].docs
    <3>1. CASE \E d \in request[r].docs : request' = [request EXCEPT ![r].docs = @ \ {d}]
      BY <3>1 DEF TypeOK, RequestsOK
    <3> QED BY <1>3, <1>9, <3>1 DEF UnlinkObject
  <2> QED BY <1>9, <2>1, <2>2, SourceKept DEF UnlinkObject, rows
<1>10. CASE UnlinkFails(r)
  BY <1>3, <1>10, SourceKept DEF UnlinkFails, rows
<1> QED
  BY <1>4, <1>5, <1>6, <1>7, <1>8, <1>9, <1>10 DEF HandlerStep

\* A worker's step keeps them: it moves rows between the statuses of a row and
\* writes no file.  So does a crash, which only ends handlers.
LEMMA SourceWorker ==
    ASSUME TypeOK, SourceInv, NEW s \in Servers, WorkerStep(s) \/ Crash(s)
    PROVE  SourceInv'
<1>1. /\ objects' = objects
      /\ \A q \in Requests : request'[q] = request[q] \/ request'[q].op = "idle"
  BY DEF WorkerStep, Boot, Recover, Claim, LoadBase, OpenSource, Prepare,
         SavePreparedDocument, FailDocument, Crash, NoRequest
<1>2. \A d \in Documents : \/ status'[d] = status[d]
                           \/ HasRow(d) /\ status'[d] \in RowStatus
  <2> USE DEF TypeOK, RowsOK, HasRow, RowStatus
  <2>1. CASE Recover(s)
    BY <2>1 DEF Recover
  <2>2. CASE Claim(s)
    BY <2>2 DEF Claim, Oldest
  <2>3. CASE SavePreparedDocument(s)
    BY <2>3 DEF SavePreparedDocument, CanSave, Publish
  <2>4. CASE FailDocument(s)
    BY <2>4 DEF FailDocument
  <2>5. CASE UNCHANGED rows
    BY <2>5 DEF rows
  <2> QED BY <2>1, <2>2, <2>3, <2>4, <2>5 DEF WorkerStep, Boot, LoadBase, OpenSource, Prepare, Crash
<1> QED BY <1>1, <1>2, SourceKept

LEMMA SourceInit == Init => SourceInv
BY DEF Init, SourceInv, SourceRetained, UploadsPending, UploadsApart, FilesWritten,
       RemovalsLast, DropsRows, UploadSteps, HasRow, RowStatus, NoRequest

LEMMA SourceStep ==
    ASSUME "lost" \notin Faults
    PROVE  TypeOK /\ SourceInv /\ [Next]_vars => SourceInv'
<1>1. ASSUME TypeOK, SourceInv, UNCHANGED vars PROVE SourceInv'
  BY <1>1, SourceKept DEF vars
<1> QED BY <1>1, SourceUser, SourceHandler, SourceWorker DEF Next

\* As long as acknowledgements are not lost, the source file of every document
\* that has a row is there, for any number of servers and overlapping handlers,
\* failing statements, failing removals and crashes.
THEOREM SourceIsRetained ==
    ASSUME "lost" \notin Faults
    PROVE  Spec => []SourceRetained
<1>1. SourceInv => SourceRetained
  BY DEF SourceInv
<1> QED
  BY <1>1, SourceInit, SourceStep, TypeCorrect, PTL DEF Spec

-----------------------------------------------------------------------------
(* Documents being processed                                               *)

\* What a step does that abandons a document: only the failing statements of Recover and
\* FailDocument leave the worker without it.
LEMMA AbandonedStep ==
    ASSUME "lost" \notin Faults, TypeOK, [Next]_vars,
           NEW d \in Documents, ~Abandoned(d), Abandoned(d)'
    PROVE  /\ "error" \in Faults
           /\ \E s \in Servers :
                 /\ \/ worker[s].pc = "booting"
                    \/ worker[s].pc = "failing" /\ worker[s].doc = d
                 /\ worker'[s].pc = "idle"
<1> USE DEF TypeOK, RowsOK
<1>1. /\ status'[d] = "processing"
      /\ \A t \in Servers : worker'[t].pc \notin {"down", "booting"} /\ worker'[t].doc # d
  BY DEF Abandoned
<1>2. \A o \in Outcomes : o # "error" => Applied(o) /\ Acked(o)
  BY DEF Outcomes, Applied, Acked
<1>3. status[d] = "processing"
          => \E t \in Servers : worker[t].pc \in {"down", "booting"} \/ worker[t].doc = d
  BY DEF Abandoned
<1>4. CASE status[d] = "processing" /\ UNCHANGED worker
  BY <1>1, <1>3, <1>4
<1>5. ASSUME UserStep \/ \E r \in Requests : HandlerStep(r)
      PROVE  status[d] = "processing" /\ UNCHANGED worker
  <2>1. UserStep => status[d] = "processing" /\ UNCHANGED worker
    BY <1>1 DEF UserStep, CreateBase, RetryDocument, StartUpload, DeleteDocument, ListForDrop,
           DeleteRows, rows
  <2>2. ASSUME NEW r \in Requests, HandlerStep(r)
        PROVE  status[d] = "processing" /\ UNCHANGED worker
    <3>1. request[r].docs \subseteq Documents
      BY DEF RequestsOK
    <3> QED BY <1>1, <2>2, <3>1 DEF HandlerStep, PutObject, AbortUpload, InsertRow, UndoPut, DropBase,
                       UnlinkObject, UnlinkFails, DeleteRows, rows
  <2> QED BY <1>5, <2>1, <2>2
<1>6. ASSUME NEW s \in Servers, WorkerStep(s) \/ Crash(s)
      PROVE  /\ "error" \in Faults
             /\ \/ worker[s].pc = "booting"
                \/ worker[s].pc = "failing" /\ worker[s].doc = d
             /\ worker'[s].pc = "idle"
  <2> USE DEF WorkersOK, Advance, Reset, Worker, Idle
  <2>1. CASE Boot(s) \/ Crash(s)
    BY <1>1, <2>1 DEF Boot, Crash
  <2>2. CASE Recover(s)
    <3>1. worker[s].pc = "booting" /\ worker'[s].pc = "idle"
      BY <2>2 DEF Recover
    <3>2. "error" \in Faults
      BY <1>1, <2>2 DEF Recover
    <3> QED BY <3>1, <3>2
  <2>3. CASE Claim(s)
    <3>1. CASE status[d] = "processing"
      <4>1. PICK t \in Servers : worker[t].pc \in {"down", "booting"} \/ worker[t].doc = d
        BY <1>3, <3>1
      <4>2. t # s
        BY <2>3, <4>1, NoneAssumption DEF Claim
      <4> QED BY <1>1, <2>3, <4>1, <4>2 DEF Claim
    <3>2. CASE status[d] # "processing"
      BY <1>1, <1>2, <2>3, <3>2 DEF Claim
    <3> QED BY <3>1, <3>2
  <2>4. CASE LoadBase(s) \/ OpenSource(s) \/ Prepare(s)
    <3>1. status[d] = "processing"
      BY <1>1, <2>4 DEF LoadBase, OpenSource, Prepare, rows
    <3>2. PICK t \in Servers : worker[t].pc \in {"down", "booting"} \/ worker[t].doc = d
      BY <1>3, <3>1
    <3>3. CASE t = s
      BY <1>1, <2>4, <3>2, <3>3 DEF LoadBase, OpenSource, Prepare
    <3>4. CASE t # s
      BY <1>1, <2>4, <3>2, <3>4 DEF LoadBase, OpenSource, Prepare
    <3> QED BY <3>3, <3>4
  <2>5. CASE SavePreparedDocument(s)
    <3>1. status[d] = "processing"
      BY <1>1, <2>5 DEF SavePreparedDocument, Publish
    <3>2. PICK t \in Servers : worker[t].pc \in {"down", "booting"} \/ worker[t].doc = d
      BY <1>3, <3>1
    <3>3. CASE t = s
      <4>1. worker[s].doc = d
        BY <2>5, <3>2, <3>3 DEF SavePreparedDocument
      <4>2. ~Publish(d, worker[s].dim)
        BY <1>1 DEF Publish
      <4> QED BY <1>1, <2>5, <4>1, <4>2 DEF SavePreparedDocument
    <3>4. CASE t # s
      BY <1>1, <2>5, <3>2, <3>4 DEF SavePreparedDocument
    <3> QED BY <3>3, <3>4
  <2>6. CASE FailDocument(s)
    <3>1. status[d] = "processing"
      BY <1>1, <2>6 DEF FailDocument
    <3>2. PICK t \in Servers : worker[t].pc \in {"down", "booting"} \/ worker[t].doc = d
      BY <1>3, <3>1
    <3>3. t = s
      BY <1>1, <2>6, <3>2 DEF FailDocument
    <3>4. worker[s].doc = d /\ worker[s].pc = "failing" /\ worker'[s].pc = "idle"
      BY <2>6, <3>2, <3>3 DEF FailDocument
    <3>5. "error" \in Faults
      BY <1>1, <2>6, <3>1, <3>4 DEF FailDocument, HasRow, RowStatus
    <3> QED BY <3>4, <3>5
  <2> QED BY <1>6, <2>1, <2>2, <2>3, <2>4, <2>5, <2>6 DEF WorkerStep
<1>7. CASE UNCHANGED vars
  BY <1>1, <1>4, <1>7 DEF vars
<1> QED BY <1>4, <1>5, <1>6, <1>7 DEF Next

\* When statements do not fail, every document that is 'processing' is held by a
\* worker, or some process has yet to run the recovery that puts it back in the
\* queue: for any number of servers, crashing at any point.
THEOREM ProcessingIsAccounted ==
    ASSUME Faults \subseteq {"unlink"}
    PROVE  Spec => []ProcessingAccounted
<1>1. Init => ProcessingAccounted
  BY DEF Init, ProcessingAccounted, Abandoned
<1>2. TypeOK /\ ProcessingAccounted /\ [Next]_vars => ProcessingAccounted'
  BY AbandonedStep DEF ProcessingAccounted
<1> QED
  BY <1>1, <1>2, TypeCorrect, PTL DEF Spec

\* When statements fail but are acknowledged, a document is abandoned only by a Recover or
\* a FailDocument that fails, with any number of servers and crashes.
THEOREM AbandonedByErrorsOnly ==
    ASSUME "lost" \notin Faults
    PROVE  Spec => AbandonedOnlyByError
<1>1. TypeOK /\ [Next]_vars =>
        [\A d \in Documents :
            ~Abandoned(d) /\ Abandoned(d)' =>
              \E s \in Servers :
                  /\ \/ worker[s].pc = "booting"
                     \/ worker[s].pc = "failing" /\ worker[s].doc = d
                  /\ worker'[s].pc = "idle"]_vars
  BY AbandonedStep
<1> QED
  BY <1>1, TypeCorrect, PTL DEF Spec, AbandonedOnlyByError

-----------------------------------------------------------------------------
(* The lifecycle                                                           *)

\* What a step of one document, and a step of none, looks like to the owners.
LEMMA SeenOne ==
    ASSUME NEW d \in Documents, \A e \in Documents \ {d} : StageOf(e)' = StageOf(e)
    PROVE  Seen' = [Seen EXCEPT ![d] = StageOf(d)']
BY DEF Seen

LEMMA SeenNone ==
    ASSUME \A e \in Documents : StageOf(e)' = StageOf(e)
    PROVE  UNCHANGED Seen
BY DEF Seen

LEMMA SeenSame == UNCHANGED status => UNCHANGED Seen
BY SeenNone DEF StageOf

\* The document a worker holds is 'processing' until its row is gone: with one
\* process nobody else claims it, recovers it or settles it.
WorkerHolds ==
    \A s \in Servers : worker[s].doc # None => status[worker[s].doc] \in {"processing", "deleted"}

\* The steps that touch no worker and no row that is 'processing', except to
\* delete it.
LEMMA WorkerHoldsKept ==
    ASSUME TypeOK, WorkerHolds, UNCHANGED worker,
           \A d \in Documents : status[d] \in {"processing", "deleted"} =>
                                   status'[d] \in {status[d], "deleted"}
    PROVE  WorkerHolds'
BY DEF WorkerHolds, TypeOK, WorkersOK

LEMMA WorkerHoldsStep ==
    ASSUME \A s, t \in Servers : s = t, "lost" \notin Faults,
           TypeOK, WorkerHolds, SourceInv, [Next]_vars
    PROVE  WorkerHolds'
<1> USE DEF TypeOK, RowsOK
<1>0. \A o \in Outcomes : Applied(o) => Acked(o)
  BY DEF Outcomes, Applied, Acked
<1>1. CASE UserStep
  BY <1>1, WorkerHoldsKept DEF UserStep, CreateBase, RetryDocument, StartUpload, DeleteDocument,
                               ListForDrop, DeleteRows, rows
<1>2. ASSUME NEW r \in Requests, HandlerStep(r) PROVE WorkerHolds'
  <2>1. CASE InsertRow(r)
    <3>1. \A d \in request[r].docs : d \in Documents /\ status[d] = "issued"
      BY <2>1 DEF InsertRow, RequestsOK, SourceInv, UploadsPending, UploadSteps
    <3> QED BY <2>1, <3>1, WorkerHoldsKept DEF InsertRow
  <2>2. CASE DropBase(r)
    BY <2>2, WorkerHoldsKept DEF DropBase, DeleteRows
  <2>3. CASE UNCHANGED rows /\ UNCHANGED worker
    BY <2>3, WorkerHoldsKept DEF rows
  <2> QED BY <1>2, <2>1, <2>2, <2>3
          DEF HandlerStep, PutObject, AbortUpload, UndoPut, UnlinkObject, UnlinkFails
<1>3. ASSUME NEW s \in Servers, WorkerStep(s) \/ Crash(s) PROVE WorkerHolds'
  <2> SUFFICES ASSUME worker'[s].doc # None
               PROVE  status'[worker'[s].doc] \in {"processing", "deleted"}
    BY DEF WorkerHolds
  <2> USE DEF WorkersOK, Advance, Reset, Worker, Idle
  <2>1. CASE Boot(s) \/ LoadBase(s) \/ OpenSource(s) \/ Prepare(s)
    BY <2>1 DEF Boot, LoadBase, OpenSource, Prepare, rows, WorkerHolds
  <2>2. CASE Recover(s)
    BY <2>2 DEF Recover
  <2>3. CASE Claim(s)
    BY <2>3 DEF Claim
  <2>4. CASE SavePreparedDocument(s)
    BY <1>0, <2>4 DEF SavePreparedDocument, WorkerHolds
  <2>5. CASE FailDocument(s)
    BY <2>5 DEF FailDocument
  <2>6. CASE Crash(s)
    BY <2>6 DEF Crash
  <2> QED BY <1>3, <2>1, <2>2, <2>3, <2>4, <2>5, <2>6 DEF WorkerStep
<1>4. CASE UNCHANGED vars
  BY <1>4, WorkerHoldsKept DEF vars
<1> QED BY <1>1, <1>2, <1>3, <1>4 DEF Next

\* Deleting rows is a removal to their owners.
LEMMA LifecycleDelete ==
    ASSUME TypeOK, NEW D \in SUBSET Documents, \A d \in D : HasRow(d), DeleteRows(D)
    PROVE  Lifecycle!Next
<1>1. \A d \in D : Seen[d] \in {"pending", "ready", "failed"}
  BY DEF Seen, StageOf, HasRow, RowStatus
<1>2. ASSUME NEW d \in Documents
      PROVE  StageOf(d)' = IF d \in D THEN "removed" ELSE StageOf(d)
  <2>1. status'[d] = IF d \in D THEN "deleted" ELSE status[d]
    BY DEF DeleteRows
  <2>2. CASE d \in D
    BY <2>1, <2>2 DEF StageOf
  <2>3. CASE d \notin D
    BY <2>1, <2>3 DEF StageOf, TypeOK, RowsOK, Status, RowStatus
  <2> QED BY <2>2, <2>3
<1>3. Seen' = [d \in Documents |-> IF d \in D THEN "removed" ELSE Seen[d]]
  BY <1>2 DEF Seen
<1> QED BY <1>1, <1>3 DEF Lifecycle!Next, Lifecycle!Remove

\* Every step of one process is a step of the lifecycle, or none.
LEMMA LifecycleStep ==
    ASSUME \A s, t \in Servers : s = t, "lost" \notin Faults,
           TypeOK, WorkerHolds, SourceInv, [Next]_vars
    PROVE  [Lifecycle!Next]_Seen
<1> USE DEF TypeOK, RowsOK
<1>0. \A o \in Outcomes : Applied(o) => Acked(o)
  BY DEF Outcomes, Applied, Acked
<1>1. CASE UNCHANGED status
  BY <1>1, SeenSame
<1>2. ASSUME NEW r \in Requests, NEW s \in Servers, NEW d \in Documents, StartUpload(r, s, d)
      PROVE  UNCHANGED Seen
  BY <1>2, SeenNone DEF StartUpload, StageOf
<1>3. ASSUME NEW r \in Requests, NEW s \in Servers, NEW d \in Documents, DeleteDocument(r, s, d)
      PROVE  Lifecycle!Next
  BY <1>3, LifecycleDelete DEF DeleteDocument
<1>4. ASSUME NEW d \in Documents, RetryDocument(d) PROVE Lifecycle!Next
  <2>1. status[d] = "failed" /\ status' = [status EXCEPT ![d] = "queued"]
    BY <1>4 DEF RetryDocument
  <2>2. Seen' = [Seen EXCEPT ![d] = "pending"]
    BY <2>1, SeenOne DEF StageOf
  <2>3. Seen[d] = "failed"
    BY <2>1 DEF Seen, StageOf
  <2> QED BY <2>2, <2>3 DEF Lifecycle!Next, Lifecycle!Resubmit
<1>5. ASSUME NEW r \in Requests, InsertRow(r), ~UNCHANGED status PROVE Lifecycle!Next
  <2>1. PICK d \in request[r].docs : status' = [status EXCEPT ![d] = "queued"]
    BY <1>5 DEF InsertRow
  <2>2. d \in Documents /\ status[d] = "issued"
    BY <1>5 DEF InsertRow, RequestsOK, SourceInv, UploadsPending, UploadSteps
  <2>3. Seen' = [Seen EXCEPT ![d] = "pending"]
    BY <2>1, <2>2, SeenOne DEF StageOf
  <2>4. Seen[d] = "absent"
    BY <2>2 DEF Seen, StageOf
  <2> QED BY <2>2, <2>3, <2>4 DEF Lifecycle!Next, Lifecycle!Submit
<1>6. ASSUME NEW r \in Requests, DropBase(r), ~UNCHANGED status PROVE Lifecycle!Next
  <2>1. DeleteRows(RowsOf(request[r].base))
    BY <1>6 DEF DropBase
  <2>2. RowsOf(request[r].base) \in SUBSET Documents
        /\ \A d \in RowsOf(request[r].base) : HasRow(d)
    BY DEF RowsOf, DocumentsOf
  <2> QED BY <2>1, <2>2, LifecycleDelete
<1>7. ASSUME NEW s \in Servers, Recover(s) \/ Claim(s) PROVE UNCHANGED Seen
  BY <1>7, SeenNone DEF Recover, Claim, Oldest, StageOf
<1>8. ASSUME NEW s \in Servers, SavePreparedDocument(s) \/ FailDocument(s), ~UNCHANGED status
      PROVE  Lifecycle!Next
  <2> DEFINE d == worker[s].doc
  <2>1. d \in Documents /\ d # None
    BY <1>8 DEF SavePreparedDocument, FailDocument, WorkersOK
  <2>2. status[d] \in {"processing", "deleted"}
    BY <2>1 DEF WorkerHolds
  <2>3. PICK result \in {"ready", "failed"} :
           status' = [status EXCEPT ![d] = result] /\ HasRow(d)
    BY <1>8, <2>1 DEF SavePreparedDocument, FailDocument, CanSave, Publish
  <2>4. status[d] = "processing"
    BY <2>2, <2>3 DEF HasRow, RowStatus
  <2> HIDE DEF d
  <2>5. Seen' = [Seen EXCEPT ![d] = result]
    BY <2>1, <2>3, SeenOne DEF StageOf
  <2>6. Seen[d] = "pending"
    BY <2>1, <2>4 DEF Seen, StageOf
  <2> QED BY <2>1, <2>5, <2>6 DEF Lifecycle!Next, Lifecycle!Settle
<1>9. UserStep => [Lifecycle!Next]_Seen
  BY <1>1, <1>2, <1>3, <1>4 DEF UserStep, CreateBase, ListForDrop, rows
<1>10. \A r \in Requests : HandlerStep(r) => [Lifecycle!Next]_Seen
  BY <1>1, <1>5, <1>6 DEF HandlerStep, PutObject, AbortUpload, UndoPut, UnlinkObject,
                          UnlinkFails, rows
<1>11. \A s \in Servers : WorkerStep(s) \/ Crash(s) => [Lifecycle!Next]_Seen
  BY <1>1, <1>7, <1>8 DEF WorkerStep, Boot, LoadBase, OpenSource, Prepare, Crash, rows
<1>12. UNCHANGED vars => [Lifecycle!Next]_Seen
  BY <1>1 DEF vars
<1> QED BY <1>9, <1>10, <1>11, <1>12 DEF Next

\* One server process implements DocumentLifecycle for any number of handlers,
\* bases and documents, with failing statements and removals and any number of
\* crashes and retries: no worker demotes a ready document, revives a deleted one
\* or settles one twice.
THEOREM ImplementsLifecycle ==
    ASSUME \A s, t \in Servers : s = t, "lost" \notin Faults
    PROVE  Spec => KeepsLifecycle
<1>1. Init => WorkerHolds
  BY DEF Init, WorkerHolds, Idle, Worker
<1>2. Init => Lifecycle!Init
  BY DEF Init, Lifecycle!Init, Seen, StageOf
<1>3. TypeOK /\ SourceInv /\ WorkerHolds /\ [Next]_vars => WorkerHolds'
  BY WorkerHoldsStep
<1>4. TypeOK /\ SourceInv /\ WorkerHolds /\ [Next]_vars => [Lifecycle!Next]_Seen
  BY LifecycleStep
<1> QED
  BY <1>1, <1>2, <1>3, <1>4, SourceInit, SourceStep, TypeCorrect, PTL
     DEF Spec, KeepsLifecycle, Lifecycle!Spec

-----------------------------------------------------------------------------
(* Files without a row                                                     *)

\* An upload is about one document.
UploadsSingle == \A r \in Requests : request[r].op \in UploadSteps =>
                    \E d \in Documents : request[r].docs = {d}

\* A handler that is uploading after a step was uploading the same before it, or has
\* just started.
LEMMA UploadForms ==
    ASSUME TypeOK, [Next]_vars, NEW q \in Requests, request'[q].op \in UploadSteps
    PROVE  \/ request[q].op \in UploadSteps /\ request'[q].docs = request[q].docs
           \/ \E d \in Documents : request'[q].docs = {d}
<1> USE DEF TypeOK, RequestsOK, UploadSteps
<1>1. CASE UNCHANGED request
  BY <1>1
<1>2. ASSUME NEW r \in Requests, NEW s \in Servers, NEW d \in Documents, StartUpload(r, s, d)
      PROVE  request'[q] = request[q] \/ request'[q].docs = {d}
  BY <1>2 DEF StartUpload, Start
<1>3. ASSUME NEW r \in Requests, NEW s \in Servers, NEW d \in Documents, DeleteDocument(r, s, d)
      PROVE  request'[q] = request[q]
  BY <1>3 DEF DeleteDocument, Start
<1>4. ASSUME NEW r \in Requests, NEW s \in Servers, NEW k \in Bases, ListForDrop(r, s, k)
      PROVE  request'[q] = request[q]
  BY <1>4 DEF ListForDrop, Start
<1>5. ASSUME NEW r \in Requests, HandlerStep(r)
      PROVE  request[q].op \in UploadSteps /\ request'[q].docs = request[q].docs
  <2> USE DEF Finish, Continue, NoRequest
  <2>1. CASE PutObject(r) \/ AbortUpload(r) \/ UndoPut(r)
    BY <2>1 DEF PutObject, AbortUpload, UndoPut
  <2>2. CASE InsertRow(r)
    BY <2>2 DEF InsertRow
  <2>3. CASE DropBase(r)
    BY <2>3 DEF DropBase
  <2>4. CASE UnlinkObject(r) \/ UnlinkFails(r)
    BY <2>4 DEF UnlinkObject, UnlinkFails
  <2> QED BY <1>5, <2>1, <2>2, <2>3, <2>4 DEF HandlerStep
<1>6. ASSUME NEW s \in Servers, WorkerStep(s) \/ Crash(s)
      PROVE  request'[q] = request[q]
  BY <1>6 DEF WorkerStep, Boot, Recover, Claim, LoadBase, OpenSource, Prepare,
              SavePreparedDocument, FailDocument, Crash, NoRequest
<1>7. UserStep => \/ UNCHANGED request
                  \/ request'[q] = request[q]
                  \/ \E d \in Documents : request'[q].docs = {d}
  BY <1>2, <1>3, <1>4 DEF UserStep, CreateBase, RetryDocument
<1> QED BY <1>1, <1>5, <1>6, <1>7 DEF Next, vars

LEMMA UploadsSingleStep == TypeOK /\ UploadsSingle /\ [Next]_vars => UploadsSingle'
BY UploadForms DEF UploadsSingle

LEMMA UploadsSingleInit == Init => UploadsSingle
BY DEF Init, UploadsSingle, UploadSteps, NoRequest

\* A handler that is about to insert the row of d or to remove its file.
Minded(d) == \E r \in Requests : /\ request[r].op \in {"insert", "undo", "unlink"}
                                 /\ d \in request[r].docs

\* A row that was dropped with its base stays so: its document is not uploaded again.
LEMMA DroppedStays ==
    ASSUME TypeOK, NEW d \in Documents, Dropped(d), [Next]_vars
    PROVE  Dropped(d)'
<1> USE RowAssumption DEF TypeOK, RowsOK, RequestsOK, Dropped
<1>1. CASE UserStep
  BY <1>1 DEF UserStep, CreateBase, RetryDocument, StartUpload, DeleteDocument, ListForDrop,
              DeleteRows, rows
<1>2. ASSUME NEW r \in Requests, HandlerStep(r) PROVE Dropped(d)'
  BY <1>2 DEF HandlerStep, PutObject, AbortUpload, InsertRow, UndoPut, DropBase, DeleteRows,
              UnlinkObject, UnlinkFails, rows
<1>3. ASSUME NEW s \in Servers, WorkerStep(s) \/ Crash(s) PROVE Dropped(d)'
  BY <1>3 DEF WorkerStep, Boot, Recover, Claim, Oldest, LoadBase, OpenSource, Prepare,
              SavePreparedDocument, CanSave, Publish, FailDocument, Crash, rows, HasRow, RowStatus
<1>4. CASE UNCHANGED vars
  BY <1>4 DEF vars
<1> QED BY <1>1, <1>2, <1>3, <1>4 DEF Next

\* The steps that leave rows their rows, dropped ones dropped and files minded.
LEMMA OrphansKept ==
    ASSUME OrphansAccounted,
           \A d \in objects' : d \in objects,
           \A d \in objects' : HasRow(d) => HasRow(d)' \/ Dropped(d)' \/ Minded(d)',
           \A d \in objects' : Dropped(d) => Dropped(d)',
           \A d \in objects' : Minded(d) => Minded(d)' \/ HasRow(d)',
           crashes > 0 => crashes' > 0
    PROVE  OrphansAccounted'
BY DEF OrphansAccounted, Minded

\* What a user does minds the file of the row that is deleted.
LEMMA OrphansUser ==
    ASSUME TypeOK, OrphansAccounted, "lost" \notin Faults, UserStep
    PROVE  OrphansAccounted'
<1> USE DEF TypeOK, RowsOK, RequestsOK
<1>0. \A d \in objects : Dropped(d) => Dropped(d)'
  BY DroppedStays DEF Next
<1>1. ASSUME NEW k \in Bases, CreateBase(k) PROVE OrphansAccounted'
  BY <1>1, OrphansKept, <1>0 DEF CreateBase, HasRow, Minded
<1>2. ASSUME NEW d \in Documents, RetryDocument(d) PROVE OrphansAccounted'
  BY <1>2, OrphansKept, <1>0 DEF RetryDocument, HasRow, RowStatus, Minded
<1>3. ASSUME NEW r \in Requests, NEW s \in Servers, NEW d \in Documents, StartUpload(r, s, d)
      PROVE  OrphansAccounted'
  BY <1>3, OrphansKept, <1>0 DEF StartUpload, Start, HasRow, RowStatus, Minded
<1>4. ASSUME NEW r \in Requests, NEW s \in Servers, NEW d \in Documents, DeleteDocument(r, s, d)
      PROVE  OrphansAccounted'
  <2>1. \A q \in Requests : request[q].op # "idle" => request'[q] = request[q]
    BY <1>4 DEF DeleteDocument, Start
  <2>2. request'[r].op = "unlink" /\ d \in request'[r].docs
    BY <1>4 DEF DeleteDocument, Start
  <2>3. \A e \in Documents \ {d} : HasRow(e) => HasRow(e)'
    BY <1>4 DEF DeleteDocument, DeleteRows, HasRow
  <2> QED BY <1>4, <2>1, <2>2, <2>3, OrphansKept, <1>0 DEF DeleteDocument, Minded
<1>5. ASSUME NEW r \in Requests, NEW s \in Servers, NEW k \in Bases, ListForDrop(r, s, k)
      PROVE  OrphansAccounted'
  BY <1>5, OrphansKept, <1>0 DEF ListForDrop, Start, HasRow, Minded, rows
<1> QED BY <1>1, <1>2, <1>3, <1>4, <1>5, Zenon DEF UserStep

\* A handler lets go of a file when the row is there, or the file is not.
LEMMA OrphansHandler ==
    ASSUME TypeOK, OrphansAccounted, UploadsSingle, Faults \subseteq {"error"},
           NEW r \in Requests, HandlerStep(r)
    PROVE  OrphansAccounted'
<1> USE DEF TypeOK, RowsOK, RequestsOK
<1>0. \A d \in objects : Dropped(d) => Dropped(d)'
  BY DroppedStays DEF Next
<1>1. \A op : Continue(r, op) => /\ \A q \in Requests \ {r} : request'[q] = request[q]
                                 /\ request'[r].op = op
                                 /\ request'[r].docs = request[r].docs
  BY DEF Continue
<1>2. Finish(r) => \A q \in Requests \ {r} : request'[q] = request[q]
  BY DEF Finish
<1>3. \A o \in Outcomes : Applied(o) => Acked(o)
  BY DEF Outcomes, Applied, Acked
<1>4. CASE PutObject(r)
  <2>1. \A d \in Documents : Minded(d) => Minded(d)'
    BY <1>1, <1>4 DEF PutObject, Minded
  <2>2. \A d \in request[r].docs : Minded(d)'
    BY <1>1, <1>4 DEF PutObject, Minded
  <2>3. crashes' = crashes /\ objects' = objects \cup request[r].docs
    BY <1>4 DEF PutObject
  <2>4. \A d \in Documents : HasRow(d) => HasRow(d)'
    BY <1>4 DEF PutObject, HasRow, rows
  <2> QED BY <1>0, <2>1, <2>2, <2>3, <2>4 DEF OrphansAccounted, Minded
<1>5. CASE AbortUpload(r)
  BY <1>2, <1>5, OrphansKept, <1>0 DEF AbortUpload, Minded, HasRow, rows
<1>6. CASE InsertRow(r)
  <2>1. \A d \in Documents : HasRow(d) => HasRow(d)'
    BY <1>6 DEF InsertRow, HasRow, RowStatus
  <2>2. CASE Continue(r, "undo")
    <3>1. \A d \in Documents : Minded(d) => Minded(d)'
      BY <1>1, <1>6, <2>2 DEF InsertRow, Minded
    <3> QED BY <1>6, <2>1, <3>1, OrphansKept, <1>0 DEF InsertRow
  <2>3. CASE Finish(r) /\ \E d \in request[r].docs : status' = [status EXCEPT ![d] = "queued"]
    <3>1. PICK d \in request[r].docs : status' = [status EXCEPT ![d] = "queued"]
      BY <2>3
    <3>2. request[r].docs = {d} /\ d \in Documents
      BY <1>6, <3>1 DEF InsertRow, UploadsSingle, UploadSteps
    <3>3. HasRow(d)'
      BY <3>1, <3>2 DEF HasRow, RowStatus
    <3>4. \A e \in Documents : Minded(e) => Minded(e)' \/ HasRow(e)'
      BY <1>2, <2>3, <3>2, <3>3 DEF Minded
    <3> QED BY <1>6, <2>1, <3>4, OrphansKept, <1>0 DEF InsertRow
  <2> QED BY <1>3, <1>6, <2>2, <2>3 DEF InsertRow
<1>7. CASE UndoPut(r)
  <2>1. objects' = objects \ request[r].docs
    BY <1>7 DEF UndoPut
  <2>2. \A d \in objects' : Minded(d) => Minded(d)'
    BY <1>2, <1>7, <2>1 DEF UndoPut, Minded
  <2> QED BY <1>7, <2>1, <2>2, OrphansKept, <1>0 DEF UndoPut, HasRow, rows
<1>8. CASE DropBase(r)
  <2>1. \A d \in Documents : Minded(d) => Minded(d)'
    BY <1>1, <1>2, <1>8 DEF DropBase, Minded
  <2>3. ASSUME NEW d \in Documents, HasRow(d) PROVE HasRow(d)' \/ Dropped(d)'
    <3>1. CASE UNCHANGED status
      BY <2>3, <3>1 DEF HasRow
    <3>2. CASE DeleteRows(RowsOf(request[r].base)) /\ base' = [base EXCEPT ![request[r].base] = "gone"]
      <4>1. CASE d \in RowsOf(request[r].base)
        BY <3>2, <4>1, RowAssumption DEF RowsOf, DocumentsOf, DeleteRows, Dropped
      <4>2. CASE d \notin RowsOf(request[r].base)
        BY <2>3, <3>2, <4>2 DEF DeleteRows, HasRow
      <4> QED BY <4>1, <4>2
    <3> QED BY <1>8, <3>1, <3>2 DEF DropBase
  <2> QED BY <1>8, <1>0, <2>1, <2>3, OrphansKept DEF DropBase
<1>9. CASE UnlinkObject(r)
  <2>1. PICK d \in request[r].docs :
           /\ objects' = objects \ {d}
           /\ \/ request[r].docs = {d} /\ Finish(r)
              \/ request' = [request EXCEPT ![r].docs = @ \ {d}]
    BY <1>9 DEF UnlinkObject
  <2>2. \A e \in objects' : Minded(e) => Minded(e)'
    <3>1. CASE request[r].docs = {d} /\ Finish(r)
      BY <1>2, <2>1, <3>1 DEF Minded
    <3>2. CASE request' = [request EXCEPT ![r].docs = @ \ {d}]
      BY <2>1, <3>2 DEF Minded
    <3> QED BY <2>1, <3>1, <3>2
  <2> QED BY <1>9, <2>1, <2>2, OrphansKept, <1>0 DEF UnlinkObject, HasRow, rows
<1>10. ~UnlinkFails(r)
  BY DEF UnlinkFails
<1> QED BY <1>4, <1>5, <1>6, <1>7, <1>8, <1>9, <1>10 DEF HandlerStep

\* A worker deletes no row and ends no handler; a crash is a crash.
LEMMA OrphansWorker ==
    ASSUME TypeOK, OrphansAccounted, NEW s \in Servers, WorkerStep(s) \/ Crash(s)
    PROVE  OrphansAccounted'
<1>0. \A d \in objects : Dropped(d) => Dropped(d)'
  BY DroppedStays DEF Next, TypeOK
<1>1. CASE Crash(s)
  BY <1>1 DEF Crash, OrphansAccounted, TypeOK
<1>2. CASE WorkerStep(s)
  <2>1. UNCHANGED <<base, objects, request, crashes>>
    BY <1>2 DEF WorkerStep, Boot, Recover, Claim, LoadBase, OpenSource, Prepare,
                SavePreparedDocument, FailDocument, rows
  <2>2. \A d \in Documents : HasRow(d) => HasRow(d)'
    BY <1>2 DEF TypeOK, RowsOK, WorkerStep, Boot, Recover, Claim, LoadBase, OpenSource, Prepare,
                SavePreparedDocument, Publish, FailDocument, rows, HasRow, RowStatus
  <2> QED BY <2>1, <2>2, OrphansKept, <1>0 DEF Minded, TypeOK
<1> QED BY <1>1, <1>2

LEMMA OrphansStep ==
    ASSUME Faults \subseteq {"error"}
    PROVE  TypeOK /\ UploadsSingle /\ OrphansAccounted /\ [Next]_vars => OrphansAccounted'
<1>1. ASSUME OrphansAccounted, UNCHANGED vars PROVE OrphansAccounted'
  BY <1>1 DEF vars, OrphansAccounted, HasRow, Dropped
<1> QED BY <1>1, OrphansUser, OrphansHandler, OrphansWorker DEF Next

\* As long as acknowledgements are not lost and files can be removed, no upload, undo, deletion
\* or drop forgets a source file, however they overlap and whichever statement fails: until
\* a process crashes, a file has its row, or a handler that minds it, or a drop deleted its row.
THEOREM OrphansAreAccounted ==
    ASSUME Faults \subseteq {"error"}
    PROVE  Spec => []OrphansAccounted
<1>1. Init => OrphansAccounted
  BY DEF Init, OrphansAccounted
<1> QED
  BY <1>1, UploadsSingleInit, UploadsSingleStep, OrphansStep, TypeCorrect, PTL DEF Spec

-----------------------------------------------------------------------------
(* LocalStore.Put                                                          *)

\* A step of the handlers, workers and users with the files seen one write at a time is a step
\* of Ingestion, or none.
LEMMA StoreRefines == [StoreNext]_storeVars => [Next]_vars
<1>1. ASSUME NEW r \in Requests, PutStep(r) PROVE [Next]_vars
  <2>1. ASSUME NEW d \in request[r].docs, CreateTemporary(r, d) \/ CopySource(r, d)
        PROVE  UNCHANGED vars
    BY <2>1 DEF CreateTemporary, CopySource
  <2>2. ASSUME NEW d \in request[r].docs, Rename(r, d) \/ AbortPut(r, d)
        PROVE  Next
    BY <2>2 DEF Rename, AbortPut, HandlerStep, Next
  <2> QED BY <1>1, <2>1, <2>2 DEF PutStep
<1>2. ASSUME NEW r \in Requests, OtherStep(r) PROVE Next
  BY <1>2 DEF OtherStep, HandlerStep, Next
<1> QED BY <1>1, <1>2 DEF StoreNext, storeVars, Next

\* Put, with its temporary file, its copy and its rename, does what Ingestion says it does in
\* one step, so every theorem above is one about the store as well.
THEOREM StoreImplementsIngestion == StoreSpec => Spec
<1>1. StoreInit => Init
  BY DEF StoreInit
<1> QED BY <1>1, StoreRefines, PTL DEF StoreSpec, Spec

\* Types of the files.
FilesOK ==
    /\ temporary \in [Documents -> {"none", "partial", "whole"}]
    /\ content \in [Documents -> {"none", "partial", "whole"}]

\* A Put is about the document of its upload.
LEMMA PutForms ==
    ASSUME TypeOK, UploadsSingle, NEW r \in Requests, PutStep(r)
    PROVE  \E d \in Documents :
              /\ request[r].op = "put" /\ request[r].docs = {d}
              /\ CreateTemporary(r, d) \/ CopySource(r, d) \/ Rename(r, d) \/ AbortPut(r, d)
<1>1. PICK d \in request[r].docs :
         CreateTemporary(r, d) \/ CopySource(r, d) \/ Rename(r, d) \/ AbortPut(r, d)
  BY DEF PutStep
<1>2. request[r].op = "put"
  BY <1>1 DEF CreateTemporary, CopySource, Rename, AbortPut, PutObject, AbortUpload
<1>3. d \in Documents /\ request[r].docs = {d}
  BY <1>1, <1>2 DEF UploadsSingle, UploadSteps
<1> QED BY <1>1, <1>2, <1>3

\* Everything else writes no file under a key and ends no Put, but a crash.
LEMMA OutsidePut ==
    ASSUME TypeOK,
           \/ \E r \in Requests : OtherStep(r)
           \/ UserStep
           \/ \E s \in Servers : WorkerStep(s) \/ Crash(s)
           \/ UNCHANGED vars
    PROVE  /\ objects' \subseteq objects
           /\ crashes' = crashes \/ crashes' > 0
           /\ \A q \in Requests : request[q].op = "put" => request'[q] = request[q] \/ crashes' > 0
<1> USE DEF TypeOK, RequestsOK
<1>1. ASSUME NEW r \in Requests, OtherStep(r)
      PROVE  /\ objects' \subseteq objects /\ crashes' = crashes
             /\ request[r].op # "put" /\ \A q \in Requests \ {r} : request'[q] = request[q]
  BY <1>1 DEF OtherStep, InsertRow, UndoPut, DropBase, UnlinkObject, UnlinkFails, Finish, Continue
<1>2. UserStep => /\ objects' = objects /\ crashes' = crashes
                  /\ \A q \in Requests : request[q].op = "put" => request'[q] = request[q]
  BY DEF UserStep, CreateBase, RetryDocument, StartUpload, DeleteDocument, ListForDrop, Start
<1>3. ASSUME NEW s \in Servers, WorkerStep(s)
      PROVE  UNCHANGED <<objects, request, crashes>>
  BY <1>3 DEF WorkerStep, Boot, Recover, Claim, LoadBase, OpenSource, Prepare,
              SavePreparedDocument, FailDocument
<1>4. ASSUME NEW s \in Servers, Crash(s)
      PROVE  objects' = objects /\ crashes' > 0
  <2>1. crashes \in Nat
    BY BoundAssumption
  <2> QED BY <1>4, <2>1 DEF Crash
<1>5. UNCHANGED vars => UNCHANGED <<objects, request, crashes>>
  BY DEF vars
<1> QED BY <1>1, <1>2, <1>3, <1>4, <1>5

\* Every step keeps the types of the files.
LEMMA FilesStep == TypeOK /\ UploadsSingle /\ FilesOK /\ [StoreNext]_storeVars => FilesOK'
<1> SUFFICES ASSUME TypeOK, UploadsSingle, FilesOK, [StoreNext]_storeVars PROVE FilesOK'
  OBVIOUS
<1>1. CASE UNCHANGED <<temporary, content>>
  BY <1>1 DEF FilesOK
<1>2. ASSUME NEW r \in Requests, PutStep(r) PROVE FilesOK'
  <2>1. PICK d \in Documents :
           CreateTemporary(r, d) \/ CopySource(r, d) \/ Rename(r, d) \/ AbortPut(r, d)
    BY <1>2, PutForms
  <2> QED BY <2>1 DEF FilesOK, CreateTemporary, CopySource, Rename, AbortPut
<1> QED BY <1>1, <1>2 DEF StoreNext, OtherStep, storeVars

LEMMA WholeStep ==
    TypeOK /\ UploadsSingle /\ FilesOK /\ SourcesWhole /\ [StoreNext]_storeVars => SourcesWhole'
<1> SUFFICES ASSUME TypeOK, UploadsSingle, FilesOK, SourcesWhole, [StoreNext]_storeVars
             PROVE  SourcesWhole'
  OBVIOUS
<1>1. ASSUME UNCHANGED content, objects' \subseteq objects PROVE SourcesWhole'
  BY <1>1 DEF SourcesWhole
<1>2. ASSUME NEW r \in Requests, PutStep(r) PROVE SourcesWhole'
  <2>1. PICK d \in Documents :
           /\ request[r].docs = {d}
           /\ CreateTemporary(r, d) \/ CopySource(r, d) \/ Rename(r, d) \/ AbortPut(r, d)
    BY <1>2, PutForms
  <2>2. CASE CreateTemporary(r, d) \/ CopySource(r, d) \/ AbortPut(r, d)
    BY <1>1, <2>2 DEF CreateTemporary, CopySource, AbortPut, AbortUpload, vars
  <2>3. CASE Rename(r, d)
    <3>1. objects' = objects \cup {d} /\ content' = [content EXCEPT ![d] = "whole"]
      BY <2>1, <2>3 DEF Rename, PutObject
    <3> QED BY <3>1 DEF SourcesWhole, FilesOK, TypeOK
  <2> QED BY <2>1, <2>2, <2>3
<1> QED BY <1>1, <1>2, OutsidePut DEF StoreNext, OtherStep, storeVars

LEMMA TemporariesStep ==
    ASSUME "unlink" \notin Faults
    PROVE  TypeOK /\ UploadsSingle /\ FilesOK /\ TemporariesAccounted /\ [StoreNext]_storeVars
              => TemporariesAccounted'
<1> SUFFICES ASSUME TypeOK, UploadsSingle, FilesOK, TemporariesAccounted, [StoreNext]_storeVars
             PROVE  TemporariesAccounted'
  OBVIOUS
<1>1. ASSUME UNCHANGED temporary, crashes' = crashes \/ crashes' > 0,
             \A q \in Requests : request[q].op = "put" => request'[q] = request[q] \/ crashes' > 0
      PROVE  TemporariesAccounted'
  <2>1. crashes > 0 => crashes' > 0
    BY <1>1
  <2>2. \A d \in Documents : temporary'[d] = temporary[d]
    BY <1>1
  <2>3. ASSUME NEW d \in Documents, NEW r \in Requests,
               request[r].op = "put", d \in request[r].docs
        PROVE  \/ \E q \in Requests : request'[q].op = "put" /\ d \in request'[q].docs
               \/ crashes' > 0
    BY <1>1, <2>3
  <2> QED BY <2>1, <2>2, <2>3 DEF TemporariesAccounted
<1>2. ASSUME NEW r \in Requests, PutStep(r) PROVE TemporariesAccounted'
  <2>1. PICK d \in Documents :
           /\ request[r].op = "put" /\ request[r].docs = {d}
           /\ CreateTemporary(r, d) \/ CopySource(r, d) \/ Rename(r, d) \/ AbortPut(r, d)
    BY <1>2, PutForms
  <2>2. /\ crashes' = crashes
        /\ \A e \in Documents \ {d} : temporary'[e] = temporary[e]
    BY <2>1 DEF FilesOK, CreateTemporary, CopySource, Rename, AbortPut, PutObject, AbortUpload, vars
  <2>3. CASE CreateTemporary(r, d) \/ CopySource(r, d)
    BY <2>1, <2>2, <2>3 DEF TemporariesAccounted, CreateTemporary, CopySource, vars
  <2>4. CASE Rename(r, d) \/ AbortPut(r, d)
    <3>1. temporary'[d] = "none"
      BY <2>4 DEF FilesOK, Rename, AbortPut
    <3>2. \A q \in Requests \ {r} : request'[q] = request[q]
      BY <2>4 DEF TypeOK, RequestsOK, Rename, AbortPut, PutObject, AbortUpload, Continue, Finish
    <3> QED BY <2>1, <2>2, <3>1, <3>2 DEF TemporariesAccounted
  <2> QED BY <2>1, <2>3, <2>4
<1> QED BY <1>1, <1>2, OutsidePut DEF StoreNext, OtherStep, storeVars

\* The types of the files, and of everything else, in every state of the store.
LEMMA StoreTypes == StoreSpec => [](TypeOK /\ UploadsSingle /\ FilesOK)
<1>1. StoreInit => FilesOK
  BY DEF StoreInit, FilesOK
<1> QED
  BY <1>1, StoreImplementsIngestion, TypeCorrect, UploadsSingleInit, UploadsSingleStep, FilesStep, PTL
     DEF StoreSpec, Spec

\* Whatever breaks off, fails or crashes while files are written, renamed and removed, the
\* file under the key of a document is the whole of what its owner sent.
THEOREM SourcesAreWhole == StoreSpec => []SourcesWhole
<1>1. StoreInit => SourcesWhole
  BY DEF StoreInit, Init, SourcesWhole
<1> QED BY <1>1, StoreTypes, WholeStep, PTL DEF StoreSpec

\* A Put that ends, however it does, leaves no temporary file behind, if files can be removed
\* and until a process crashes.
THEOREM TemporariesAreAccounted ==
    ASSUME "unlink" \notin Faults
    PROVE  StoreSpec => []TemporariesAccounted
<1>1. StoreInit => TemporariesAccounted
  BY DEF StoreInit, TemporariesAccounted
<1> QED BY <1>1, StoreTypes, TemporariesStep, PTL DEF StoreSpec

=============================================================================
