# SynapseRGo in TLA+

SynapseRGo is a Go service for retrieval-augmented agents: users keep knowledge
bases of uploaded documents, define agents that may search them, and chat with
these agents in saved conversations.  This directory holds TLA+ specifications of
the parts of it that keep state, the TLC configurations that check them on small
instances, and proofs, checked by TLAPS, of what matters most for all instances.

Paths below are relative to the repository's root, which `PROJECT.json` calls
`src/`.  `PROJECT.json` maps every definition to the lines it models.

    tlc -config ingest_single.cfg MCIngestion     # model-check one configuration
    tlapm IngestionProofs.tla                     # check the proofs of one module (about a minute)

## 1. The system

One process serves HTTP (gin), runs one background worker for documents, and one
goroutine for each chat that needs a title.  Processes share a PostgreSQL
database, a directory of source files and, for sessions, Redis.  There is no
coordination between processes, handlers and goroutines but single SQL statements,
two SQL transactions (the one that saves a prepared document, and the ones that
write agents), and single Redis commands.  So nearly everything that can go wrong
lies *between* two statements of a handler, and that is what the models interleave.

| Component | Code | State | Operations |
|---|---|---|---|
| Document ingestion | `handlers/knowledge`, `rag/postgres.go`, `rag/worker.go`, `main.go` | bases, documents, chunks; where each worker is | create and drop a base; upload, retry, delete a document; recover, claim, prepare, save, fail |
| Source files | `storage/local.go` | a directory, temporary files in it | put, open, delete |
| Preparation and saving | `rag/prepare.go`, `loaders.go`, `chunker.go`, `huggingface.go`, `postgres.go` | chunks, the base's embedding dimension, row locks | extract, split, embed by batches, the saving transaction |
| Semantic search | `rag/search.go`, `rag/postgres.go` | none (reads) | embed the query, search |
| Agent runtime | `agents/runtime.go`, `agents/postgres.go`, `handlers/agents/runs.go` | runs, their steps, the event stream | run, cancel, time out |
| Agent definitions | `agents/postgres.go`, `handlers/agents` | agents, their tools and bases | create, update, delete |
| Conversations | `handlers/conversations`, `handlers/llm`, `handlers/agents/runs.go` | title and transcript | create, rename, delete; chat; generate the title |
| Stored credentials | `handlers/tokens` | a JSON list in the user's row | add, remove |
| Sessions | `handlers/auth`, `utils/tokens.go` | Redis keys, cookies | login, refresh, logout |
| Prompts, favorites, middleware, routes, migrations | `agents/prompt.go`, `handlers/favorites`, `middleware`, `routes`, ... | little or none | - |

How they interact:

* **Upload and worker** only meet in the `knowledge_documents` row and the source
  file.  Upload writes the file first and inserts the row as `queued`; the worker
  polls for the oldest queued row.
* **Worker and deletion** meet in the foreign keys: deleting a document or a base
  deletes its chunks by cascade, and a save for a row that is gone fails.
* **Workers of one base** meet in the row of the base, which
  `SavePreparedDocument` updates first and so locks until it commits.
* **A chat** loads a transcript, runs the agent, which searches the bases, and
  writes the transcript back.  It relies on the result `Runtime.Run` returns.
* **Agent runs** report to the database and to the client, in this order; somebody
  else may read the rows meanwhile.
* **A search** reads the base, has its query embedded, and queries the chunks; a
  worker may fix the dimension of the base in between.
* **Saved agents** refer to bases through `agent_knowledge_bases`.  A request that
  defines an agent holds the agent's row while it replaces these rows one by one; a
  request that deletes a base deletes those that refer to it.
* **Requests of one user** meet in the user's row (credentials), in the
  conversation's row, and in Redis.

What makes it hard: handlers that read, wait and write (chat, credentials, drop of
a base); a crash at any point with a recovery for documents only; errors that are
dropped on purpose (`FailDocument`, `FailRun`, the undoing of an upload, the
persisting of an answer); acknowledgements that are lost; several processes that
recover each other's documents; a deadline and a client that cut a run off between
any two steps.  `PROJECT.json` lists these as *hazards*, each at its line with the
properties that would catch it going wrong.  Some have none, because the code promises
nothing about them: a document left `processing` after an unacknowledged claim, the
removal of a file whose insert was not acknowledged, a ready document demoted by a
second process, files left by a crash or by a drop, runs left `running` by a crash, and
an answer that could not be persisted.  Each of these has a note that says so.

What must be right, component by component:

* ingestion: no vectors of different lengths or of missing documents in an index;
  a row has its file; no document stays `processing` for ever; a ready document
  is never demoted, a deleted one never comes back; files do not pile up;
* preparation and saving: a document is searchable as a whole or not at all;
  workers do not wait for ever;
* search: a search does not fail on the vectors it finds;
* agent runtime: rows, events and result tell one story; the step budget holds;
  every run ends;
* agent definitions: an agent is one request's definition as a whole, and runs with
  it; what a client is told is so; nobody waits for ever;
* conversations: the transcript stays a dialogue; turns and titles are not lost;
* credentials: names stay unique; what was acknowledged stays;
* sessions: a cookie works until it is used; a revoked token stays dead.

## 2. The modules

| Module | Models | Composed with |
|---|---|---|
| `DocumentLifecycle` | abstract: what the owner of a document is promised | implemented by `Ingestion` |
| `Ingestion` | handlers, workers, database and directory of document ingestion | |
| `SourceStore` | the inside of `LocalStore.Put` | extends `Ingestion` |
| `IngestionProofs` | theorems about both | extends `SourceStore` |
| `RetrievalIndex` | abstract: what a search may see of a base | implemented by `Publication` |
| `Publication` | the inside of `Prepare` and `SavePreparedDocument` | |
| `SemanticSearch` | a search while documents are saved | extends `Publication` |
| `PublicationProofs` | theorems about both | extends `SemanticSearch`, `PrefixInduction` |
| `AgentRun` | `Runtime.Run` with its rows and events | |
| `RunView` | a client that asks for a run | extends `AgentRun` |
| `AgentRunProofs` | theorems about both | extends `RunView` |
| `AgentRegistry` | abstract: what an owner is promised of agents | implemented by `AgentDefinitions` |
| `AgentDefinitions` | the saved agents of a user, their bases, runs of them | takes the bases as given by `Ingestion` |
| `AgentDefinitionsProofs` | theorems | extends `AgentDefinitions` |
| `Conversation` | one conversation and the chats in it | takes the outcome of a run as given |
| `ConversationTitle` | its title, which owner and goroutine write | extends `Conversation` |
| `ConversationProofs` | theorems about both | extends `ConversationTitle` |
| `CredentialStore` | the credentials of one user | |
| `CredentialStoreProofs` | its theorems | extends `CredentialStore`, `PrefixInduction` |
| `Session` | the sessions of one user | |
| `SessionProofs` | its theorems | extends `Session` |
| `PrefixInduction` | nothing of the code: induction over the rounds of a loop | extended by proofs |
| `MC...` | values of constants, and symmetries, for TLC | extend the module they are named after, with what extends it |

`SourceStore`, `SemanticSearch`, `RunView` and `ConversationTitle` add variables to the
module they extend and leave its own alone: each of their steps is a step of that
module, or one that changes none of its variables.  So what is proved of the
module holds of them; this is proved too (section 4).

One action is one SQL statement or transaction, one file operation, one Redis
command or one remote call, *together with the local computation up to the next
one*.  Between two actions anything else may happen.  The exception is
`Publication`, which splits the saving transaction into its statements in order to
look at the locks they take.  (`AgentDefinitions` does the same for the transactions
that write agents.)

A statement has an outcome: `"ok"`; `"error"`, it has no effect; or `"lost"`, it has
its effect and its caller sees an error.  The constant `Faults` says which of them
the environment may choose.  A handler reacts to `"error"` and `"lost"` in the
same way, because the code cannot tell them apart.

Definitions whose comment starts with *Mutant* are not part of any specification.
Each is a variant of the definition that follows it with a plausible mistake, and
is there to show that the properties notice it (`PROJECT.json`, "mutants").

### Ingestion

| Variable | Code |
|---|---|
| `base`, `dim` | whether the row in `knowledge_bases` is there; its `embedding_dimension` |
| `status`, `created` | columns of `knowledge_documents`; `"fresh"`, `"issued"` and `"deleted"` stand for documents without a row; `created_at` is a rank |
| `vectors` | the length of the vectors in `knowledge_chunks`, 0 for no rows |
| `objects` | the source files in the directory of `storage/local.go` |
| `worker` | the local state of `Worker.Run` / `processNext` |
| `request` | the local state of a handler in progress |

Upload is `StartUpload`, `PutObject` or `AbortUpload`, `InsertRow`, and `UndoPut` if
the insert was refused.  Deleting a document is `DeleteDocument` (the row) and
`UnlinkObject` or `UnlinkFails`.  Dropping a base is `ListForDrop` (the read of its
documents), `DropBase` (the delete with its cascades) and the removal of the files
that were listed, up to the first error.  The worker is `Boot`, `Recover`, `Claim`,
`LoadBase`, `OpenSource`, `Prepare`, `SavePreparedDocument`, `FailDocument`.  `Crash`
ends a process with all its handlers; `Boot` starts it again.

The transaction of `SavePreparedDocument` is one action here.  `Publication` is
about its inside.

`SourceStore` replaces `PutObject` and `AbortUpload` by `CreateTemporary`, `CopySource`,
`Rename` and `AbortPut`, with one temporary file for each document.  The context the
handlers pass is gin's, which is never cancelled (`ContextWithFallback` is off), so a
client that leaves is a source that breaks off.

### Publication

Documents of one base are extracted page by page (`Split`), embedded in batches
(`EmbedBatch`), and saved by `LockBase`, `ClearChunks`, `InsertChunk`, `MarkReady` and
`Commit`.  `lock` is the worker whose transaction has updated the row of the base.
Any statement may fail and roll back, the commit may lose its acknowledgement, the
process may crash, other workers may hold the same document (after a second process
has recovered it), and the document may be deleted between two statements as far as
the locks of PostgreSQL allow it.

A deletion has a beginning and an end.  `StartDeletion` locks the document's row
(`deleting`), unless a saving transaction has inserted chunks that refer to it;
`DeleteDocument` is its end, once no transaction holds chunks that the cascade must
delete.  Between the two, `InsertChunk` cannot go on, because its foreign key check waits
for the row.  If the transaction has deleted committed chunks in `ClearChunks`, each waits
for the other: PostgreSQL then lets one of them fail, which is `AbortDeletion` or the
`Rollback` of `InsertChunk`.

`SemanticSearch` adds one search at a time: `StartSearch` reads the dimension, embeds and
compares; `QueryChunks` asks the database, where pgvector fails on a chunk of another
length.

### AgentRun

`pc` walks through `Runtime.Run`: create the row, `SetUp`, then the loop of
generating, taking up each call (`StartCall`), announcing it, searching, recording
and announcing the result, and in the end answer, `CompleteRun` or `FailRun`.  The
model may answer, fail, or call tools in any combination of attached bases, foreign
bases, unknown tools and arguments that are no JSON.  The last fail before a row is written
or an event sent, because `AddRunStep` encodes its arguments first.  `ContextDone` stands for the context of the run: its
statements are refused when the client has left or the deadline has passed, except
`CompleteRun` and `FailRun`, which use contexts of their own.

`RunView` adds `GetRun`: the row in one step, the steps of the run in the next.

### AgentDefinitions

| Variable | Code |
|---|---|
| `agent`, `attached` | the committed rows of `agents` and `agent_knowledge_bases` |
| `base` | the rows of `knowledge_bases` |
| `lock` | which transaction has written the row of an agent |
| `request` | the local state of a handler, with the rows its transaction has deleted and inserted |
| `asked`, `commits` | *history*: what each writer asked for, and the order of the commits |

Create and update are `StartWrite`, `CheckBase` for each base, then, in the transaction,
`WriteRow`, `ClearBases`, `AttachBase` for each base and `Commit`, then `ReadBack`.
Delete is `StartDelete` and `DeleteAgent`.  A run of a saved agent is `ReadAgent`,
`LoadBase` for each base and `StartRun`.  The deletion of a base is `StartDrop`, `LockBase`
and `Cascade`.  The content of a definition is the request that wrote it.

Transactions are READ COMMITTED, the default.  A second update waits at `WriteRow` for
the first and then sees its rows; a new reference locks its base against deletion and
waits for a deletion in progress; a deletion of a base waits for the join rows a
transaction has deleted.  The last two make a deadlock: an update that has deleted
`(a, b)` and is about to insert it again, and a deletion of `b` that holds `b` and has come
to `(a, b)`.  `BreakDeadlock` is PostgreSQL letting one of them fail.

A crash of the process is not an action of its own: its open transactions are rolled back
as when a statement fails, and what it had read is forgotten.

### Conversation, CredentialStore, Session

A chat is `StartChat` (validation and load), `PersistQuestion`, `FinishRun` (whatever
`AgentRun` may return), `PersistAnswer`, and for `ChatStream` the title goroutine,
`ReadTitle` and `SetTitle`.  A turn is its role and its chat.  `ConversationTitle`
records which goroutines had looked at the title when the owner gave one.

A credential request is `Read` (select and decide) and `Write` (update).  A stored
token is its name and the request that added it.  `Filtered` is the loop of `RemoveHFToken`
that leaves a name out of the list.

A refresh is `Refresh`, `GetStored`, `Mint`, `Store`, `Revoke`, then `Respond` or
`Undo`; a login is the same from `Mint` on, without a token to revoke; a logout is
`RevokeAtLogout` and `Clear`.  A refresh token is *the second it was minted in*: it
is signed from the user, the kind and an expiry in whole seconds and holds nothing
else.  This is the one modelling decision of `Session` that matters.

The variables marked *history* in these modules do not exist in the code; they record
which requests had returned when another one read, and what was once in a row, so
that the properties can say *unless they overlapped*.

## 3. What is checked

| Run | Instance | Checks |
|---|---|---|
| `ingest_single` | 1 process, 2 handlers, 3 documents, two of the same bytes, 2 lengths, failing statements, 1 crash, 1 retry | `TypeOK`, `IndexSound`, `SourceRetained`, `OrphansAccounted`, `SourcesWhole`, `TemporariesAccounted`, `AbandonedOnlyByError`; refinement `KeepsLifecycle` |
| `ingest_shared` | 2 processes, 1 handler, 2 documents, 2 lengths, all faults, 1 retry | `IndexSound` |
| `ingest_live` | 1 process, 2 handlers, 2 documents of different bytes, no faults, 1 crash, 2 retries, fairness | `ProcessingAccounted`, `OrphansResolved`; refinement `SettlesDocuments` |
| `publication` | 2 workers, 2 documents (2+1 passages on two pages; an empty page and one passage), 2 lengths, batches of 2, taken up 3 times, deletions, crashes, one search at a time, fairness | `TypeOK`, `MismatchOnlyAtFirst`, `WorkersReturn`; refinement `ImplementsIndex` |
| `agent_run` | limits 0 (default), 2, 11 (refused), up to 2 calls a response, 2 faulty statements, fairness | `TypeOK`, `ShownWhole`, `StreamBacked`, `StreamInOrder`, `StepsInBudget`, `SettledWhenReturned`, `Ends` |
| `agent_definitions` | 1 agent, 2 bases, 2 writers, 1 run, 1 deletion of a base, all faults, fairness | `TypeOK`, `RunConfigured`, `AnswersTrue`, `EveryoneAnswered`; refinement `ImplementsRegistry` |
| `chat` | 3 chats, all faults, 1 crash | `TypeOK`, `TranscriptPaired`, `TurnsKept`, `OwnerTitleKept` |
| `chat_lost` | 2 chats, no faults | **violates** `QuestionSaved` |
| `tokens` | 4 requests, 2 names, all faults | `TypeOK`, `NamesUnique`, `WritesKept` |
| `tokens_lost` | 2 requests, no faults | **violates** `SuccessIsLasting` |
| `session` | 2 clients, 2 handlers, 2 seconds, all faults, crashes | `TypeOK`, `CookieAlive`, `RevokedStaysRevoked`, `ExchangedWhenValid` |
| `session_same_second` | 1 client, 1 handler, no faults | **violates** `RefreshedTokenValid` |

What they show:

* **The retrieval index is sound** with any number of processes and all faults
  (`IndexSound`), and a document appears in it as a whole (`ImplementsIndex`):
  the comparison of lengths in the `UPDATE` of the base, the foreign key and the
  transaction are enough, although the worker reads everything else beforehand.
* **One process keeps the promise of `DocumentLifecycle`** across crashes.  Two do
  not: the second one's `Recover` puts documents back in the queue that the first
  one's worker is preparing; both prepare them, and the slower one's
  `FailDocument`, which does not look at the status, demotes a document that has
  become ready.  So `KeepsLifecycle` is checked and proved for one server.
* **Documents are settled** (`SettlesDocuments`), also those behind an older one that is
  retried and goes back to the head of the queue, and none stays `processing` with
  nobody to finish it (`ProcessingAccounted`), as long as statements succeed.  A
  `FailDocument` that fails, or a claim whose answer is lost, leaves a document
  `processing` until a process restarts; no other failure between the claim and the
  commit does (`AbandonedOnlyByError`).
* **Source files** are there for every row (`SourceRetained`), unless the
  acknowledgement of an insert is lost: Upload then removes the file of a row that
  exists.  A file without a row is in somebody's hands (`OrphansAccounted`) and goes
  away (`OrphansResolved`), with two exceptions that nothing ever repairs: a crash
  between the file and the row, and a document whose row was inserted while its base was
  dropped, between the read of the base's documents and its deletion.  An upload
  whose base is dropped before its insert is not one of them: it is refused, and undone.
  A file under a key is always whole (`SourcesWhole`), and a temporary file outlives
  its `Put` only when the process crashes (`TemporariesAccounted`).
* **A search** meets vectors of another length than its query's only if it began before
  the base had its first document (`MismatchOnlyAtFirst`); the database then refuses
  it with a message of its own.
* **An agent run ends** after at most its budget of calls, a batch that would exceed
  the budget is refused before its first call, and what the client was told is in
  the database, for any model, any moment at which the client leaves or the
  deadline passes, and a faulty statement anywhere.  A run whose process crashes
  stays `running`: unlike documents, runs are not recovered.  A client that asks for a
  run never sees a finished run with steps missing (`ShownWhole`): the row is read
  first.
* **An agent's definition** is one request's as a whole (`ImplementsRegistry`), although it
  is several rows in two tables and bases disappear under it: the row lock of the
  first statement, and the foreign keys, are enough.  A run is configured by one
  definition (`RunConfigured`), because the agent and its bases are read in one statement
  and a base that is gone refuses the run.  A base that was checked and is deleted
  before it is attached makes the whole update fail.  Deadlocks occur, and end.
* **A transcript stays a dialogue** however chats overlap, but overlapping chats lose
  turns: `TurnsKept` says that nothing else does, `QuestionSaved` that this happens.
  The owner's title is replaced by a generated one only if it was given while that was
  being generated (`OwnerTitleKept`).
* The same for **credentials**: `NamesUnique` and `WritesKept` hold,
  `SuccessIsLasting` does not when requests overlap.
* **Sessions**: a cookie stays good until it is used and a revoked token stays dead,
  except for tokens minted twice in one second, which `session_same_second`
  shows to happen in an ordinary sequence.

The three violated properties state what a message of the code tells its client:

1. `QuestionSaved`: *Could not save user message* is what a chat is told whose
   question is not saved; a question that was saved is overwritten by an
   overlapping chat that loaded the transcript earlier.
2. `SuccessIsLasting`: *HF Token added successfully* is answered to both of two
   overlapping requests, of which one is lost.
3. `RefreshedTokenValid`: *Token refreshed* is answered, within the second in which
   the old token was minted, with the very token that has just been revoked.

*This file already exists in the knowledge base* is likewise the answer to every error of
the insert of a document, its base having been deleted meanwhile among them.  This only
concerns the wording: the upload is refused and its file is removed.

### Bounds

Every bound is a constant or a size in a `.cfg`.

* `MaxCrashes = 1`: a crash forgets local state only, and a second one finds a state
  that one crash and the same handlers can also leave.  In the proofs it is arbitrary.
* `MaxRetries = 1` is enough for a document to be prepared twice, by different
  processes or with different lengths.  `ingest_live` has 2, so that one document can
  overtake the other more than once.  The bound matters there: an owner who retries an older
  document again and again, each time before the worker claims the next, can keep
  younger ones waiting for as long as he does so.
* One base: nothing relates two bases but a worker that may hold a document of
  either.  Two documents give every pair of roles (the one that fixes the
  dimension and the one that must follow, the older and the younger); `ingest_single` has
  a third, so that one of them may also be refused as a duplicate.
  The proofs are for all numbers of both.
* Two lengths: properties only compare lengths for equality.
* `BatchSize = 2` stands for 16: with documents of 3 and 1 passages there is a full
  batch, a last batch that is not full, and a length that changes between batches.
* `MaxTakes = 3`: both workers hold one document and one of them holds it again.
* `MaxBatch = 2`, `MaxFaults = 2`, limits 0, 2 and 11: batches that fit, that fit exactly
  and that do not; limit 0 is the default of 6, so runs have up to six calls.
* `MaxTime = 1`: a token minted in the same second and one in another.
* One agent, two writers, one deletion of a base: transactions of different agents meet
  only in a base, where they do not exclude each other, so one agent has every
  conflict but deadlocks of four requests (two agents and two bases), which end as
  those of two do.  Two bases, one of them attached at the beginning: one that is kept
  or replaced and one that is added.
* One search at a time: searches change nothing.
* Three chats and four credential requests: one that overlaps with another and one
  apart from both; four requests give every name a history of two.

`CHECK_DEADLOCK FALSE` is set throughout, because all these models may really stop:
users are not obliged to ask for anything, and the bounds are used up in the end.  That
the system does not stop where it should go on is the business of the liveness
properties.

### Fairness

Only what the code does by itself is fair; users, faults and crashes never are.

* `Ingestion`: weak fairness of each worker as a whole, because `Worker.Run` polls in a
  loop (every two seconds) and a process that is down is started again; of each
  handler as a whole, because it runs to its end.  Fairness is not on single
  actions: a worker that may prepare or fail may always fail.
* `Publication`: strong fairness of each worker as a whole.  A worker that waits for a row
  lock is disabled again and again by others that take it; PostgreSQL queues those who
  wait, so that each gets its turn.  Remote calls return because of the HTTP client's
  timeout of 90 seconds.  Weak fairness of the end of a deletion: a statement that has
  begun returns, by the breaking of a deadlock if need be.  `SemanticSearch` adds none:
  nobody has to search.
* `AgentRun`: weak fairness of the run as a whole.  Statements and searches return;
  a model that does not answer is cut off by the deadline.  `Ends` needs no fairness
  of `DeadlinePasses`: the budget bounds the loop.
* `AgentDefinitions`: weak fairness of each request that was made, as a whole, because
  handlers run to their end, and of `BreakDeadlock`, because PostgreSQL looks for
  deadlocks after `deadlock_timeout`.  Every request is made once, so that nobody is
  overtaken for ever and strong fairness is not needed.
* `SourceStore`: as `Ingestion`; the steps of `Put` belong to their handler.

The liveness properties say *if somebody is busy, there comes a time when nobody is*,
in place of one formula for each worker or request: in these models nobody can be kept
busy for ever by new work, so this is no weaker, and TLC checks it as one formula.

## 4. What is proved

### Ingestion

`IngestionProofs` holds for **all** sets of servers, handlers, bases and documents,
all functions `BaseOf` and `ShaOf`, all lengths and bounds, from the assumptions
`FaultsAssumption`, `DimensionsAssumption`, `RowAssumption`, `BoundAssumption` and
`NoneAssumption` of `Ingestion`, which TLC evaluates in every run.

| Theorem | Statement | Extra hypothesis |
|---|---|---|
| `TypeCorrect` | `Spec => []TypeOK` | |
| `IndexIsSound` | `Spec => []IndexSound` | |
| `SourceIsRetained` | `Spec => []SourceRetained` | acknowledgements are not lost |
| `ProcessingIsAccounted` | `Spec => []ProcessingAccounted` | statements succeed |
| `AbandonedByErrorsOnly` | `Spec => AbandonedOnlyByError` | acknowledgements are not lost |
| `ImplementsLifecycle` | `Spec => KeepsLifecycle` | one server, acknowledgements are not lost |
| `OrphansAreAccounted` | `Spec => []OrphansAccounted` | acknowledgements are not lost, files can be removed |
| `StoreImplementsIngestion` | `StoreSpec => Spec` | |
| `SourcesAreWhole` | `StoreSpec => []SourcesWhole` | |
| `TemporariesAreAccounted` | `StoreSpec => []TemporariesAccounted` | files can be removed |

* `IndexSound` is inductive together with `TypeOK`.  The steps that matter are
  `SavePreparedDocument` (`IndexPublish`: the base takes no other length once it has
  one) and the deletions (`IndexDeleteRows`: chunks go with their rows).  Nothing about
  the workers' local state is needed, which is why two processes and lost
  acknowledgements do no harm.
* `SourceRetained` is not inductive: a handler might be about to remove the file of a
  row.  `SourceInv` adds what handlers in progress know: an upload that is not
  inserted yet is `issued` (`UploadsPending`), no two uploads are of one document
  (`UploadsApart`), the file is there when the row is inserted (`FilesWritten`),
  files are only removed of rows that are gone (`RemovalsLast`), and a drop has
  listed documents of its base that were inserted, which can only be deleted from
  then on (`DropsRows`).
* `AbandonedOnlyByError` and `ProcessingAccounted` rest on one lemma, `AbandonedStep`: if
  acknowledgements are not lost, a step abandons a document only if it is `Recover` or
  `FailDocument` and its statement fails.
* `ImplementsLifecycle` uses `WorkerHolds`: the document a worker is busy with is
  `processing` or deleted.  With it `SavePreparedDocument` and `FailDocument` are
  `Settle` of the abstract specification or a stutter, the deletions are `Remove`,
  `InsertRow` is `Submit`, `RetryDocument` is `Resubmit`, and all else is a stutter.
  `Recover` keeps `WorkerHolds` only if no other process has a worker: this is
  where one server is needed.
* `OrphansAccounted` needs `UploadsSingle`: an upload is about one document.  A file enters
  the directory in the hands of its handler, and each way a handler has to let go of a file
  (the row, the removal) is one that the property names.  The files that a drop has not
  listed are those of rows that went with their base, and such a row does not come back
  (`DroppedStays`).
* `StoreImplementsIngestion` maps `CreateTemporary` and `CopySource` to stutters, `Rename` to
  `PutObject` and `AbortPut` to `AbortUpload`.  `TemporariesAccounted` rests on
  the fact that only the steps of `Put`, and a crash, take a handler away from its `put`
  (`OutsidePut`, `PutForms`), and that those of them which end it remove the file.

### Conversation

`ConversationProofs` holds for all sets of chats, all faults and any number of
crashes, from `FaultsAssumption` and `BoundAssumption`.

| Theorem | Statement |
|---|---|
| `TypeCorrect` | `Spec => []TypeOK` |
| `TranscriptIsPaired` | `Spec => []TranscriptPaired` |
| `TurnsAreKept` | `Spec => []TurnsKept` |
| `OwnerTitleStays` | `TitleSpec => OwnerTitleKept` |

`TranscriptPaired` says something about the row only, but any chat may overwrite the
row with what it holds.  So the invariant says the same of what every chat holds
(`Dialogues`), that a chat which waits for the model ends with its question and has no
answer to it (`Asking`), and that nothing is anywhere of a chat that has not begun
(`FreshAbsent`).

`TurnsKept` needs to know why a chat that overwrites the row has the turns that are in
it.  Chats that were over when it began write no more (`BeforeIsQuiet`); what they
had written it has loaded, unless it was already lost to an overlap (`LoadedAll`);
what is in the row was held by its own chat (`Written`).  The step that matters is
`PersistKeeps`: a turn that it takes away belongs either to a chat before this one, and
`LoadedAll` says that this one overlapped with another, or to one that was not over,
which is an overlap.  All steps that change no transcript are dealt with at once
(`StepsOnly`).

`OwnerTitleKept` follows from `OnlyOvertaken`: while the owner's title is there, every
goroutine that is about to write one had looked when it was given, because a goroutine
that looks later finds a title and ends (`ChatEntitles`).

### Publication and SemanticSearch

`PublicationProofs` holds for all sets of workers and documents, every division of the
documents into pages and passages, every batch size and all lengths of vectors, from
`BatchAssumption`, `LengthsAssumption`, `PagesAssumption`, `BoundAssumption` and
`NoneAssumption`.

| Theorem | Statement |
|---|---|
| `SplitWhole` | `Split(d)` is numbered 1, 2, ..., and its rows are `Whole(d, n)` of `RetrievalIndex` |
| `LockHeldBySaver` | `Spec => []TypeOK` |
| `PublicationImplementsIndex` | `Spec => ImplementsIndex` |
| `DocumentsSeenWhole` | `Spec => []SeenWhole`: of a document no passage is visible, or each |
| `LaterSearchesMatch` | `SearchSpec => []MismatchOnlyAtFirst` |

* `SplitWhole` is about the loop over the pages: after each page, what there is agrees with
  the sums by which `RetrievalIndex` numbers the passages (`Complete`, `CompleteRound`).
* The invariant says what each worker has in its hands (`Prep`): all passages of its
  document, vectors of one length, one for each passage when it saves, and the rows of the
  first passages.  That each insert adds one row, so that all are there when the number of
  rows is that of the passages, is `FirstRowsGrow`: no two passages have one number.
* What a step does to the base is one of four things (`Effect`): nothing, taking the
  lock, dropping it, publishing.  A worker that saves has compared its length with that of
  the base (`SavingFits`), and while it has the lock nobody else publishes; so the chunks
  have the one length of the base (`ChunksFit`).
* `Commit` is then `Publish` of the whole document, `Take`, `FailDocument` and
  `DeleteDocument` are `Withdraw`, and all else is a stutter.
* `MismatchOnlyAtFirst` needs `SearchFits`: a dimension that was read is still the one of
  the base, since a dimension, once set, stays (`DimensionStays`).

### CredentialStore

`CredentialStoreProofs` holds for any number of requests and names and all faults, from
`FaultsAssumption`.

| Theorem | Statement |
|---|---|
| `CredentialsTyped` | `Spec => []TypeOK` |
| `CredentialNamesUnique` | `Spec => []NamesUnique` |
| `CredentialWritesKept` | `Spec => []WritesKept` |

A request overwrites the column with the list it made of an older one.  So the invariant
says of that list what is to hold of the column (`Pending`): its names are unique, it shows
what its own request did, and what was done by each request that had returned before it
read, unless that is excused by a later or an overlapping one, which it then is for ever
(`ExcusedStays`).  The step that matters is `WriteKeeps`: a request that has written had
either returned before this one read, and is in the list or was for the same name, or it
overlapped with it.  `WithoutName` and `Appended` say what the two changes do to a list
of any length.

### Loops

`PrefixInduction` states induction with a set of numbers in place of a property, and
recursion with a function in place of a step, because the library's theorems take these as
operators, which the provers here cannot instantiate.  Its first theorem rests on the least
element of the set of counterexamples (`WFMin` of `WellFoundedInduction`), the second on the
first.  With them the two loops that the models have, `Passages` and `Filtered`, are
proved for data of any size; they are written as recursive functions for this
purpose.

### AgentRun

`AgentRunProofs` holds for all limits that may be configured, all sizes of a response and
any number of faults, from `StepsAssumption` and `BoundAssumption`.

| Theorem | Statement |
|---|---|
| `TypeCorrect` | `Spec => []TypeOK` |
| `StepsStayInBudget` | `Spec => []StepsInBudget` |
| `SettledAtTheEnd` | `Spec => []SettledWhenReturned` |
| `StreamIsBacked` | `Spec => []StreamBacked` |
| `StreamArrivesInOrder` | `Spec => []StreamInOrder` |
| `ShownAsAWhole` | `ViewSpec => []ShownWhole` |

* `StepsInBudget` needs the relation between the counters (`Counting`): as long as the run
  goes on there are as many rows as ordinals, and two ordinals for each call.  A statement
  that fails breaks it, and the run goes to `fail`, where no row follows.
* `StreamBacked` needs to know that the evidence collected is the evidence recorded, but for
  the search that is about to be recorded (`Collecting`), and that the end is announced when
  nothing more will change.
* `StreamInOrder` needs the last event that a client which is there has received at each
  step (`Orderly`).  A client that has left receives nothing more, so for it the order
  stays as it is.
* `ShownWhole` rests on `EndedInv`: the row of a run is marked as completed or failed only
  when no step can be added any more, also if the acknowledgement of `CompleteRun` is lost
  and `FailRun` overwrites the status.

### AgentDefinitions

`AgentDefinitionsProofs` holds for all sets of agents, bases and requests, all faults and
any set of bases that the first agents have, from `FaultsAssumption`, `FormerAssumption`,
`RolesAssumption` and `NoneAssumption`.

| Theorem | Statement |
|---|---|
| `TypeCorrect` | `Spec => []TypeOK` |
| `ImplementsTheRegistry` | `Spec => ImplementsRegistry` |
| `RunsAreConfigured` | `Spec => []RunConfigured` |
| `AnswersAreTrue` | `Spec => []AnswersTrue` |

* `TypeOK` says that a transaction holds the row it has written.  It needs the converse too:
  whoever holds the row of an agent is writing this agent (`LocksHeld`).
* The refinement needs to know what a commit publishes.  What a writer has attached and has
  still to attach is what it wants, and all rows that are attached to its agent it has
  deleted (`Collected`), which stays so because nobody else publishes for an agent whose row
  is held (`LockedOut`); and the bases it has attached are there and not about to be deleted
  (`BasesHeld`).  So `Commit` is `Define` of exactly what was asked, `DeleteAgent` is
  `Remove`, `Cascade` is `Drop` of one base (`DropsOne`), and all else is a stutter.
* `RunConfigured` holds of what a run has read because it held of the agent when it was read
  (`DefinitionsAsked`), bases only go, and a definition that somebody has seen is not asked
  for again (`Unseen`).
* `AnswersTrue` rests on the log of commits: a writer that has not come to its commit is not
  in it, and one that reads back finds its own definition, a later one, or no agent
  (`LogInv`); an agent that is deleted stays so because no open transaction holds its row
  (`Alive`).
* Steps are grouped before they are treated: `StartForm` and `ProceedsForm` say what a
  request becomes, `ContinueForm` which steps there are; each invariant then has one lemma
  for each group.

### Session

`SessionProofs` holds for all sets of clients and handlers, all faults and every
bound on time, from `FaultsAssumption`, `BoundAssumption` and `NoneAssumption`.

| Theorem | Statement |
|---|---|
| `TypeCorrect` | `Spec => []TypeOK` |
| `CookiesStayAlive` | `Spec => []CookieAlive` |
| `RevocationIsFinal` | `Spec => []RevokedStaysRevoked` |
| `ExchangesAreValid` | `Spec => ExchangedWhenValid` |

The invariant is about the token a handler has just minted (`NewIsPrivate`): unless it
was minted twice, nobody else has it, it has not been revoked before it is stored, and
it is in Redis when it is sent.  With `OldIsUsed` (the token a refresh came with has
been accepted before it is revoked) no step takes a token from Redis that is in
somebody's cookie and has not been used.  `AllMinted` makes a token minted for the first
time new to everybody.

## 5. What is only model-checked, and why

* Liveness (`SettlesDocuments`, `OrphansResolved`, `WorkersReturn`, `Ends`,
  `EveryoneAnswered`): it rests on fairness and `ENABLED`, which these provers do not handle.
* That the assumptions are needed: a theorem with an extra hypothesis says nothing of what
  happens without it.  `ingest_shared` runs with two processes and all faults, and checks
  only the property that is proved without any.
* The three properties that the code violates.

Every safety invariant, action property and refinement of the passing runs is stated by
a theorem.

## 6. What is not modelled, and why

* Favorites: each operation is one statement.  Two overlapping additions of one model may
  insert it twice into `llms`, whose name is not unique; the removal is by name and takes
  both away, so nothing further depends on it.
* Renaming a knowledge base: it changes nothing that any property here sees.
* Signup, password hashing, prompts, middleware, routes, configuration: stateless, or
  one statement that relies on a unique constraint.  E-mail verification has no route.
* The validation of an agent's definition beyond its bases (names, tools, limits, the
  credential): one choice to refuse, because nothing another request does depends on
  it, except that a credential may be removed later, which the run then reports.
* The text of anything: pages, passages, prompts, answers, titles; encryption of
  credentials; access tokens and lifetimes of tokens (days); ranks and scores.
* A power failure: `Put` does not flush its file, and the model only lets the process die.
* The tables `knowledge_bases`, `knowledge_documents`, `knowledge_chunks`, `agents`,
  `agent_knowledge_bases` and `agent_runs` are not in the migrations; their constraints
  (unique hash in a base, cascades, foreign keys) are taken from how the code uses them.

## 7. Plan

Order of work, the most important behaviour first.  Done so far: 1 to 9.

1. `Ingestion` with `DocumentLifecycle`, its runs and its first theorems.
2. `AgentRun`: the runtime against any model.
3. `Conversation` and `CredentialStore`: the read-wait-write handlers.
4. `Session`.
5. `Publication` with `RetrievalIndex`.
6. Proofs about `Conversation` and `Session`.
7. `AgentDefinitions` with `AgentRegistry`; `SourceStore`; `SemanticSearch`; `RunView`;
   `ConversationTitle`.
8. Proofs about `AgentDefinitions` and `AgentRun`.
9. `PrefixInduction`; proofs about `Publication` with `SemanticSearch`, `CredentialStore`,
   `SourceStore`, `ConversationTitle`, and of `OrphansAccounted`.
10. What the abstract specifications come to, as invariants of the detailed ones (as
    `DocumentsSeenWhole` for `RetrievalIndex`): for `AgentRegistry` and `DocumentLifecycle`.
11. The safety part of termination: a measure that every step of a run decreases.
