---------------------------- MODULE SourceStore ----------------------------
(***************************************************************************)
(* LocalStore.Put (storage/local.go) step by step, in Ingestion, where it  *)
(* is one step: the source is copied into a temporary file, which is then  *)
(* renamed, or removed when anything fails.  A process that crashes does   *)
(* neither.  Every Put has a temporary file and a key of its own.          *)
(*                                                                         *)
(* Of a file it is kept whether it was written to its end.                 *)
(***************************************************************************)
EXTENDS Ingestion

VARIABLES
    temporary,      \* the temporary file of each document: "none", "partial" or "whole"
    content         \* the file that was last under its key: the same

storeVars == <<vars, temporary, content>>

-----------------------------------------------------------------------------

StoreInit ==
    /\ Init
    /\ temporary = [d \in Documents |-> "none"]
    /\ content = [d \in Documents |-> "none"]

\* CreateTemp, and its deferred removal when Put returns.
CreateTemporary(r, d) ==
    /\ request[r].op = "put"
    /\ temporary[d] = "none"
    /\ temporary' = [temporary EXCEPT ![d] = "partial"]
    /\ UNCHANGED <<vars, content>>

\* Copy and Close succeed.
CopySource(r, d) ==
    /\ request[r].op = "put"
    /\ temporary[d] = "partial"
    /\ temporary' = [temporary EXCEPT ![d] = "whole"]
    /\ UNCHANGED <<vars, content>>

\* Mutant: the error of Copy is not looked at.
RenameUnchecked(r, d) ==
    /\ temporary[d] # "none"
    /\ PutObject(r)
    /\ temporary' = [temporary EXCEPT ![d] = "none"]
    /\ content' = [content EXCEPT ![d] = temporary[d]]

\* Rename; there is nothing left for the deferred removal.
Rename(r, d) ==
    /\ temporary[d] = "whole"
    /\ PutObject(r)
    /\ temporary' = [temporary EXCEPT ![d] = "none"]
    /\ content' = [content EXCEPT ![d] = temporary[d]]

\* Mutant: the temporary file is only removed after a rename.
AbortPutForgotten(r, d) ==
    /\ AbortUpload(r)
    /\ UNCHANGED <<temporary, content>>

\* Anything fails: the deferred removal, an error of which is ignored.
AbortPut(r, d) ==
    /\ AbortUpload(r)
    /\ \/ temporary' = [temporary EXCEPT ![d] = "none"]
       \/ "unlink" \in Faults /\ UNCHANGED temporary
    /\ UNCHANGED content

PutStep(r) ==
    \E d \in request[r].docs :
        CreateTemporary(r, d) \/ CopySource(r, d) \/ Rename(r, d) \/ AbortPut(r, d)

OtherStep(r) ==
    /\ InsertRow(r) \/ UndoPut(r) \/ DropBase(r) \/ UnlinkObject(r) \/ UnlinkFails(r)
    /\ UNCHANGED <<temporary, content>>

StoreNext ==
    \/ \E r \in Requests : PutStep(r) \/ OtherStep(r)
    \/ /\ UserStep \/ \E s \in Servers : WorkerStep(s) \/ Crash(s)
       /\ UNCHANGED <<temporary, content>>

StoreSpec == StoreInit /\ [][StoreNext]_storeVars

\* As in Ingestion; a Put is a part of its handler.
StoreFairSpec ==
    /\ StoreSpec
    /\ \A s \in Servers : WF_vars(WorkerStep(s))
    /\ \A r \in Requests : WF_storeVars(PutStep(r) \/ OtherStep(r))

-----------------------------------------------------------------------------
(* Properties                                                              *)

\* What a worker can open is what its owner sent, to the end: while a Put writes, when
\* its source breaks off, and when its process crashes, nothing is under the key of a
\* document, and nothing is ever written under it again.
SourcesWhole == \A d \in objects : content[d] = "whole"

\* A temporary file belongs to a Put that goes on; whatever fails in one, it takes its file
\* away.  Only a crash leaves it (nothing looks for ".upload-*" afterwards), or a removal
\* that fails.
TemporariesAccounted ==
    \A d \in Documents :
        \/ temporary[d] = "none"
        \/ \E r \in Requests : request[r].op = "put" /\ d \in request[r].docs
        \/ crashes > 0

=============================================================================
