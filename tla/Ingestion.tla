----------------------------- MODULE Ingestion -----------------------------
(***************************************************************************)
(* The document store of the supported runtime: the documents, chunks and  *)
(* audit tables of backend/runtime/database.py, the directory of uploaded  *)
(* files, the HTTP handlers of main.py that work on documents, and the     *)
(* ingestion worker of ingestion.py that runs in the same process.         *)
(*                                                                         *)
(* A step is the code between two awaits that let another coroutine run:   *)
(* one SQL read, one commit, one file operation.  Rows and files survive a *)
(* crash; what a coroutine holds in memory does not.                       *)
(*                                                                         *)
(* Abstractions.  The contents of a document is its identity under the     *)
(* duplicate check: ContentKey[d] stands for the pair (org_id, digest) of  *)
(* the upload that drew the identifier d.  All requests come from users    *)
(* allowed to make them.  The chunks of a document are present or not:     *)
(* the worker deletes and inserts all of them in one transaction.          *)
(***************************************************************************)
EXTENDS Naturals, FiniteSets

CONSTANTS
    Docs,          \* the identifiers that uid() may draw
    NoDoc,         \* the absence of an identifier
    Requests,      \* the HTTP requests served at one time
    ContentKey,    \* ContentKey[d] : organization and digest of an upload
    Logged,        \* the audited actions whose records are followed
    BatchLimit,    \* rows a poll of the queue returns at most
    MaxCrashes     \* crashes of the process that are explored

ASSUME NoDocAssumption      == NoDoc \notin Docs
ASSUME LoggedAssumption     == /\ {"uploaded", "deleted"} \subseteq Logged
                               /\ Logged \subseteq {"uploaded", "deleted",
                                                   "reindex", "downloaded"}
ASSUME BatchLimitAssumption == BatchLimit \in Nat \ {0}
ASSUME MaxCrashesAssumption == MaxCrashes \in Nat
ASSUME DocsAssumption       == IsFiniteSet(Docs)

VARIABLES
    status,        \* status[d] : the row's status, "absent" without a row
    error,         \* error[d]  : the row holds an error text
    chunks,        \* chunks[d] : the chunks of d are in the chunks table
    files,         \* the identifiers with a file in DATA/uploads
    torn,          \* those whose file was not written to its end
    audit,         \* audit[d]  : actions the audit table records about d
    req,           \* req[r]    : where request r is and what it has read
    wpc,           \* where the worker is
    cur,           \* the document in process_document
    batch,         \* identifiers of the last poll not yet taken
    recovering,    \* rows the start-up recovery has loaded
    crashes        \* crashes so far

db   == <<status, error, chunks, audit>>
work == <<wpc, cur, batch, recovering>>
disk == <<files, torn>>
vars == <<db, disk, req, work, crashes>>

BusyStatus == {"extracting", "chunking"}
Status     == {"absent", "queued", "indexed", "failed"} \union BusyStatus
RequestPc  == {"idle", "write", "upload", "delete", "unlink", "reindex",
               "download", "serve"}
WorkerPc   == {"down", "recover", "requeue", "poll", "load", "claim",
               "extract", "refresh", "mark", "replace", "rollback", "fail",
               "dead"}
\* Where process_document is suspended with a document in its hands.
Holding    == {"claim", "extract", "refresh", "mark", "replace", "rollback",
               "fail"}

Exists(d) == status[d] # "absent"
Busy(d)   == status[d] \in BusyStatus
Queued    == {d \in Docs : status[d] = "queued"}
Up        == wpc # "down"

Idle == [pc |-> "idle", doc |-> NoDoc, seen |-> "absent", seenError |-> FALSE]

TypeOK ==
    /\ status \in [Docs -> Status]
    /\ error \in [Docs -> BOOLEAN]
    /\ chunks \in [Docs -> BOOLEAN]
    /\ files \in SUBSET Docs
    /\ torn \in SUBSET Docs
    /\ audit \in [Docs -> SUBSET Logged]
    /\ req \in [Requests -> [pc : RequestPc, doc : Docs \union {NoDoc},
                             seen : Status, seenError : BOOLEAN]]
    /\ wpc \in WorkerPc
    /\ cur \in Docs \union {NoDoc}
    /\ batch \in SUBSET Docs
    /\ recovering \in SUBSET Docs
    /\ crashes \in 0..MaxCrashes

Init ==
    /\ status = [d \in Docs |-> "absent"]
    /\ error = [d \in Docs |-> FALSE]
    /\ chunks = [d \in Docs |-> FALSE]
    /\ files = {} /\ torn = {}
    /\ audit = [d \in Docs |-> {}]
    /\ req = [r \in Requests |-> Idle]
    /\ wpc = "recover"
    /\ cur = NoDoc
    /\ batch = {}
    /\ recovering = {}
    /\ crashes = 0

-----------------------------------------------------------------------------
(* The handlers of main.py.                                                *)

\* Request r is at pc and the process runs.
At(r, pc) == Up /\ req[r].pc = pc

\* Request r suspends at pc with the identifier d in its hands.
Suspend(r, pc, d) ==
    req' = [req EXCEPT ![r] = [Idle EXCEPT !.pc = pc, !.doc = d]]

Goto(r, pc) == req' = [req EXCEPT ![r].pc = pc]
Return(r)   == req' = [req EXCEPT ![r] = Idle]

Log(d, what) == audit' = [audit EXCEPT ![d] = @ \union ({what} \intersect Logged)]

\* Mutant: an identifier may be drawn while another request holds it.
Fresh_Shared(d) == ~Exists(d) /\ audit[d] = {} /\ d \notin files

\* An identifier that uid() has not returned yet.
Fresh(d) ==
    /\ ~Exists(d)
    /\ audit[d] = {}
    /\ d \notin files
    /\ \A r \in Requests : req[r].doc # d

Duplicate(d) == \E e \in Docs : Exists(e) /\ ContentKey[e] = ContentKey[d]

\* upload: the duplicate check, then the identifier is drawn.
UploadCheck(r, d) ==
    /\ At(r, "idle")
    /\ Fresh(d)
    /\ ~Duplicate(d)
    /\ Suspend(r, "write", d)
    /\ UNCHANGED <<db, disk, work, crashes>>

\* upload: path.write_bytes in a thread.
UploadWrite(r) ==
    /\ At(r, "write")
    /\ files' = files \union {req[r].doc}
    /\ Goto(r, "upload")
    /\ UNCHANGED <<db, torn, work, crashes>>

\* Mutant: the row is committed although the write has failed.
UploadWriteFails_Caught(r) ==
    /\ At(r, "write")
    /\ files' = files \union {req[r].doc}
    /\ torn' = torn \union {req[r].doc}
    /\ Goto(r, "upload")
    /\ UNCHANGED <<db, work, crashes>>

\* upload: write_bytes stands before the try.  When it raises, for a disk that
\* is full, nothing removes the file that it has opened and half written.
UploadWriteFails(r) ==
    /\ At(r, "write")
    /\ \/ UNCHANGED disk
       \/ /\ files' = files \union {req[r].doc}
          /\ torn' = torn \union {req[r].doc}
    /\ Return(r)
    /\ UNCHANGED <<db, work, crashes>>

\* Mutant: the row is committed without its audit record.
UploadCommit_Unlogged(r) ==
    /\ At(r, "upload")
    /\ status' = [status EXCEPT ![req[r].doc] = "queued"]
    /\ Return(r)
    /\ UNCHANGED <<error, chunks, audit, disk, work, crashes>>

\* upload: the row and its audit record are committed together.
UploadCommit(r) ==
    /\ At(r, "upload")
    /\ LET d == req[r].doc IN
       /\ status' = [status EXCEPT ![d] = "queued"]
       /\ Log(d, "uploaded")
    /\ Return(r)
    /\ UNCHANGED <<error, chunks, disk, work, crashes>>

\* upload: the commit raises and the file is unlinked.
UploadCommitFails(r) ==
    /\ At(r, "upload")
    /\ files' = files \ {req[r].doc}
    /\ Return(r)
    /\ UNCHANGED <<db, torn, work, crashes>>

\* remove_document: authorized_document finds the row.
DeleteLoad(r, d) ==
    /\ At(r, "idle")
    /\ Exists(d)
    /\ Suspend(r, "delete", d)
    /\ UNCHANGED <<db, disk, work, crashes>>

\* remove_document: the commit deletes the row, the foreign key its chunks.
\* A row that another request has deleted meanwhile is no error: the DELETE
\* matches nothing, and the audit record is still inserted.
DeleteCommit(r) ==
    /\ At(r, "delete")
    /\ LET d == req[r].doc IN
       /\ status' = [status EXCEPT ![d] = "absent"]
       /\ error' = [error EXCEPT ![d] = FALSE]
       /\ chunks' = [chunks EXCEPT ![d] = FALSE]
       /\ Log(d, "deleted")
    /\ Goto(r, "unlink")
    /\ UNCHANGED <<disk, work, crashes>>

\* Mutant: the handler returns without the unlink.
DeleteUnlink_Skipped(r) ==
    At(r, "unlink") /\ Return(r) /\ UNCHANGED <<db, disk, work, crashes>>

\* remove_document: unlink(missing_ok=True) after the commit.
DeleteUnlink(r) ==
    /\ At(r, "unlink")
    /\ files' = files \ {req[r].doc}
    /\ Return(r)
    /\ UNCHANGED <<db, torn, work, crashes>>

\* reindex: the status is checked on the row as it was read.
ReindexLoad(r, d) ==
    /\ At(r, "idle")
    /\ Exists(d)
    /\ ~Busy(d)
    /\ req' = [req EXCEPT ![r] = [pc |-> "reindex", doc |-> d,
                                  seen |-> status[d], seenError |-> error[d]]]
    /\ UNCHANGED <<db, disk, work, crashes>>

\* Mutant: the row is merged, and so inserted when it is gone.
ReindexCommit_Merges(r) ==
    /\ At(r, "reindex")
    /\ status' = [status EXCEPT ![req[r].doc] = "queued"]
    /\ error' = [error EXCEPT ![req[r].doc] = FALSE]
    /\ Log(req[r].doc, "reindex")
    /\ Return(r)
    /\ UNCHANGED <<chunks, disk, work, crashes>>

\* reindex: the UPDATE names only the columns whose value differs from the
\* one that was read.  With nothing to update only the audit record is
\* inserted; an UPDATE of a row that is gone raises, and nothing is written.
ReindexCommit(r) ==
    /\ At(r, "reindex")
    /\ LET d       == req[r].doc
           requeue == req[r].seen # "queued"
           clear   == req[r].seenError
       IN \/ /\ Exists(d) \/ ~(requeue \/ clear)
             /\ status' = [status EXCEPT ![d] = IF requeue THEN "queued" ELSE @]
             /\ error' = [error EXCEPT ![d] = @ /\ ~clear]
             /\ Log(d, "reindex")
          \/ /\ ~Exists(d) /\ (requeue \/ clear)
             /\ UNCHANGED <<status, error, audit>>
    /\ Return(r)
    /\ UNCHANGED <<chunks, disk, work, crashes>>

\* download: the row and the file are both there.
DownloadLoad(r, d) ==
    /\ At(r, "idle")
    /\ Exists(d)
    /\ d \in files
    /\ Suspend(r, "download", d)
    /\ UNCHANGED <<db, disk, work, crashes>>

\* download: the access is recorded before the first byte is sent.
DownloadCommit(r) ==
    /\ At(r, "download")
    /\ Log(req[r].doc, "downloaded")
    /\ Goto(r, "serve")
    /\ UNCHANGED <<status, error, chunks, disk, work, crashes>>

\* download: FileResponse opens the file, or finds it gone and fails.
DownloadServe(r) ==
    /\ At(r, "serve")
    /\ Return(r)
    /\ UNCHANGED <<db, disk, work, crashes>>

Arrive(r) ==
    \E d \in Docs : \/ UploadCheck(r, d) \/ DeleteLoad(r, d)
                    \/ ReindexLoad(r, d) \/ DownloadLoad(r, d)

Resume(r) ==
    \/ UploadWrite(r) \/ UploadWriteFails(r)
    \/ UploadCommit(r) \/ UploadCommitFails(r)
    \/ DeleteCommit(r) \/ DeleteUnlink(r)
    \/ ReindexCommit(r)
    \/ DownloadCommit(r) \/ DownloadServe(r)

Request(r) == Arrive(r) \/ Resume(r)

-----------------------------------------------------------------------------
(* The worker of ingestion.py.                                             *)

\* The worker goes on to another point with the same document.
Step(to) ==
    /\ wpc' = to
    /\ UNCHANGED <<cur, batch, recovering>>

\* process_document returns: on to the next identifier of the batch, if any.
Done ==
    /\ wpc' = IF batch = {} THEN "poll" ELSE "load"
    /\ cur' = NoDoc
    /\ UNCHANGED <<batch, recovering>>

\* An exception leaves worker(): its task ends, and nothing restarts it.
Die ==
    /\ wpc' = "dead"
    /\ cur' = NoDoc
    /\ batch' = {}
    /\ recovering' = {}

\* Mutant: rows that were being chunked are forgotten.
RecoverLoad_Half ==
    /\ wpc = "recover"
    /\ recovering' = {d \in Docs : status[d] = "extracting"}
    /\ wpc' = "requeue"
    /\ UNCHANGED <<db, disk, req, cur, batch, crashes>>

\* worker: rows that an earlier process left in work are loaded.
RecoverLoad ==
    /\ wpc = "recover"
    /\ recovering' = {d \in Docs : Busy(d)}
    /\ wpc' = "requeue"
    /\ UNCHANGED <<db, disk, req, cur, batch, crashes>>

\* worker: they go back to the queue in one commit, which raises when one
\* of them was deleted meanwhile.
RecoverCommit ==
    /\ wpc = "requeue"
    /\ \/ /\ \A d \in recovering : Exists(d)
          /\ status' = [d \in Docs |-> IF d \in recovering THEN "queued"
                                                           ELSE status[d]]
          /\ recovering' = {}
          /\ wpc' = "poll"
          /\ UNCHANGED <<cur, batch>>
       \/ /\ \E d \in recovering : ~Exists(d)
          /\ Die
          /\ UNCHANGED status
    /\ UNCHANGED <<error, chunks, audit, disk, req, crashes>>

\* worker: a poll that finds queued rows, in no stated order.
Poll ==
    /\ wpc = "poll"
    /\ \E ids \in SUBSET Queued :
          /\ ids # {}
          /\ \/ ids = Queued /\ Cardinality(ids) =< BatchLimit
             \/ Cardinality(ids) = BatchLimit
          /\ batch' = ids
    /\ wpc' = "load"
    /\ UNCHANGED <<db, disk, req, cur, recovering, crashes>>

\* process_document: a row that is gone or no longer queued is passed over.
Load ==
    /\ wpc = "load"
    /\ \E d \in batch :
          /\ batch' = batch \ {d}
          /\ IF status[d] = "queued"
             THEN wpc' = "claim" /\ cur' = d
             ELSE wpc' = (IF batch' = {} THEN "poll" ELSE "load")
                  /\ UNCHANGED cur
    /\ UNCHANGED <<db, disk, req, recovering, crashes>>

\* process_document: the commit that claims the row stands before the try.
Claim ==
    /\ wpc = "claim"
    /\ \/ /\ Exists(cur)
          /\ status' = [status EXCEPT ![cur] = "extracting"]
          /\ Step("extract")
       \/ ~Exists(cur) /\ Die /\ UNCHANGED status
    /\ UNCHANGED <<error, chunks, audit, disk, req, crashes>>

\* process_document: the parser runs in a thread.
Extract ==
    /\ wpc = "extract"
    /\ \/ cur \in files /\ Step("refresh")
       \/ Step("rollback")
    /\ UNCHANGED <<db, disk, req, crashes>>

\* process_document: the row is read again, and must still exist.
Refresh ==
    /\ wpc = "refresh"
    /\ \/ Exists(cur) /\ Step("mark")
       \/ ~Exists(cur) /\ Step("rollback")
    /\ UNCHANGED <<db, disk, req, crashes>>

Mark ==
    /\ wpc = "mark"
    /\ \/ /\ Exists(cur)
          /\ status' = [status EXCEPT ![cur] = "chunking"]
          /\ Step("replace")
       \/ ~Exists(cur) /\ Step("rollback") /\ UNCHANGED status
    /\ UNCHANGED <<error, chunks, audit, disk, req, crashes>>

\* Mutant: a stale error text survives a successful ingestion.
Replace_KeepsError ==
    /\ wpc = "replace"
    /\ Exists(cur)
    /\ status' = [status EXCEPT ![cur] = "indexed"]
    /\ chunks' = [chunks EXCEPT ![cur] = TRUE]
    /\ Done
    /\ UNCHANGED <<error, audit, disk, req, crashes>>

\* Mutant: the row is inserted again when it was deleted meanwhile.
Replace_Merges ==
    /\ wpc = "replace"
    /\ status' = [status EXCEPT ![cur] = "indexed"]
    /\ error' = [error EXCEPT ![cur] = FALSE]
    /\ chunks' = [chunks EXCEPT ![cur] = TRUE]
    /\ Done
    /\ UNCHANGED <<audit, disk, req, crashes>>

\* process_document: one transaction replaces the chunks and ends the work.
Replace ==
    /\ wpc = "replace"
    /\ Exists(cur)
    /\ status' = [status EXCEPT ![cur] = "indexed"]
    /\ error' = [error EXCEPT ![cur] = FALSE]
    /\ chunks' = [chunks EXCEPT ![cur] = TRUE]
    /\ Done
    /\ UNCHANGED <<audit, disk, req, crashes>>

\* process_document: chunking or that transaction raises.
ReplaceFails ==
    /\ wpc = "replace"
    /\ Step("rollback")
    /\ UNCHANGED <<db, disk, req, crashes>>

\* process_document: after the rollback the row is looked up once more.
Rollback ==
    /\ wpc = "rollback"
    /\ \/ Exists(cur) /\ Step("fail")
       \/ ~Exists(cur) /\ Done
    /\ UNCHANGED <<db, disk, req, crashes>>

\* process_document: the commit of the failure, inside the except clause.
Fail ==
    /\ wpc = "fail"
    /\ \/ /\ Exists(cur)
          /\ status' = [status EXCEPT ![cur] = "failed"]
          /\ error' = [error EXCEPT ![cur] = TRUE]
          /\ Done
       \/ ~Exists(cur) /\ Die /\ UNCHANGED <<status, error>>
    /\ UNCHANGED <<chunks, audit, disk, req, crashes>>

Worker ==
    \/ RecoverLoad \/ RecoverCommit \/ Poll \/ Load \/ Claim \/ Extract
    \/ Refresh \/ Mark \/ Replace \/ ReplaceFails \/ Rollback \/ Fail

-----------------------------------------------------------------------------
(* The process.                                                            *)

\* The process stops: coroutines are lost, rows and files are not.  A file
\* that was being written may stay behind half written.
Crash ==
    /\ Up
    /\ \E half \in SUBSET {req[r].doc : r \in {q \in Requests : At(q, "write")}} :
          /\ files' = files \union half
          /\ torn' = torn \union half
    /\ crashes < MaxCrashes
    /\ crashes' = crashes + 1
    /\ req' = [r \in Requests |-> Idle]
    /\ wpc' = "down"
    /\ cur' = NoDoc
    /\ batch' = {}
    /\ recovering' = {}
    /\ UNCHANGED db

\* The lifespan of a new process starts a new worker.
Restart ==
    /\ wpc = "down"
    /\ wpc' = "recover"
    /\ UNCHANGED <<db, disk, req, cur, batch, recovering, crashes>>

Next ==
    \/ \E r \in Requests : Request(r)
    \/ Worker
    \/ Crash
    \/ Restart

\* The event loop resumes a worker and a request that can go on, and the
\* supervisor restarts a process that has stopped.  Nothing obliges a client
\* to ask.
Fairness == /\ WF_vars(Worker)
            /\ \A r \in Requests : WF_vars(Resume(r))
            /\ WF_vars(Restart)

Spec == Init /\ [][Next]_vars /\ Fairness

-----------------------------------------------------------------------------
(* What must hold.                                                         *)

\* A row has its file, and all of it: a file is written to its end before its
\* row is committed, and unlinked only after the row is gone, so the worker
\* and a download find the file of every document that the library lists.
RowHasFile == \A d \in Docs : Exists(d) => d \in files \ torn

\* No document is stranded in work.  A row in "extracting" or "chunking" is
\* refused by reindex and never returned by the poll, so it must be in the
\* hands of the worker, or of its start-up recovery.
NoStrandedWork ==
    \A d \in Docs : Busy(d) =>
        \/ wpc \in {"down", "recover", "dead"}
        \/ wpc = "requeue" /\ d \in recovering
        \/ wpc \in Holding /\ d = cur

\* A document that search may use has its chunks and no error, whatever
\* re-indexing and removal did around its ingestion.
IndexedIsComplete ==
    \A d \in Docs : status[d] = "indexed" => chunks[d] /\ ~error[d]

\* Chunks are those of a document with a row: a worker that ends after a
\* removal leaves nothing behind that search could find.
NoChunksWithoutRow == \A d \in Docs : chunks[d] => Exists(d)

\* A file without a row is about to get one, or about to be unlinked, by a
\* request that is being served.  For good it is left behind by a crash, or by
\* a write that has raised: then it is torn, and was never in the library.
OrphanIsExplained ==
    \A d \in files : \/ Exists(d)
                     \/ crashes > 0
                     \/ d \in torn /\ audit[d] = {}
                     \/ \E r \in Requests : /\ req[r].doc = d
                                            /\ req[r].pc \in {"upload", "unlink"}

\* The audit table tells the life of every document: what is listed was
\* uploaded and not deleted, what was uploaded and is not listed was deleted.
AuditTellsLife ==
    \A d \in Docs : Exists(d) <=> /\ "uploaded" \in audit[d]
                                  /\ "deleted" \notin audit[d]

\* Removal is final: no late commit of the worker or of a stale request
\* brings back a row whose deletion was recorded.
RemovalIsFinal ==
    [][\A d \in Docs : "deleted" \in audit[d] => status'[d] = "absent"]_vars

Pending(d) == status[d] \in {"queued", "extracting", "chunking"}

\* A document comes to the queue.
Queues == \E d \in Docs : ~Pending(d) /\ Pending(d)'

\* Once no more documents come to the queue, by upload or re-indexing, those
\* that are in it are ingested, fail or are removed, through crashes, unless
\* the worker task has died.  While others keep coming a document may wait for
\* ever: a poll returns BatchLimit of the rows, in no stated order.
QueueDrains ==
    <>[][~Queues]_vars =>
        \A d \in Docs : Pending(d) ~> (~Pending(d) \/ wpc = "dead")

\* A queued document leaves the queue whatever happens to the others.
QueueIsServed == \A d \in Docs : Pending(d) ~> ~Pending(d)

\* The file of a removed document goes, when no crash comes in between.
RemovalErases ==
    \A d \in Docs : "deleted" \in audit[d] ~> (d \notin files \/ crashes > 0)

\* The life of a document that the rows and the audit table show.
StageOf ==
    [queued |-> "pending", extracting |-> "pending", chunking |-> "pending",
     indexed |-> "ready", failed |-> "failed"]

LifeOf(d) == IF Exists(d) THEN StageOf[status[d]]
             ELSE IF "deleted" \in audit[d] THEN "gone" ELSE "none"

Library == INSTANCE DocumentLifecycle WITH stage <- [d \in Docs |-> LifeOf(d)]

\* The store implements the life of documents that it promises.
LibrarySpec == Library!Spec
-----------------------------------------------------------------------------
(* Why it holds: the inductive invariant of IngestionProofs.               *)

\* What a request may assume about the document it holds.  An upload owns
\* its identifier alone and nothing is known of it elsewhere; the other
\* requests hold the identifier of a document that was uploaded.
RequestInv ==
    \A r \in Requests :
        LET d == req[r].doc IN
        /\ (req[r].pc = "idle") <=> (d = NoDoc)
        /\ req[r].pc \in {"write", "upload"} =>
              /\ status[d] = "absent"
              /\ audit[d] = {}
              /\ \A q \in Requests \ {r} : req[q].doc # d
        /\ req[r].pc = "write" => d \notin files
        /\ req[r].pc = "upload" => d \in files \ torn
        /\ req[r].pc \in {"delete", "reindex", "download", "serve"} =>
              "uploaded" \in audit[d]
        /\ req[r].pc = "unlink" => "deleted" \in audit[d]

\* A torn file is that of an upload that came to nothing.
TornInv == \A d \in torn : d \in files /\ audit[d] = {}

\* What the worker may assume: nobody else ends the work on its document.
WorkerInv ==
    /\ wpc \in Holding <=> cur # NoDoc
    /\ recovering # {} => wpc = "requeue"
    /\ \A d \in (recovering \union {cur}) \ {NoDoc} :
           status[d] \notin {"indexed", "failed"}

IInv ==
    /\ TypeOK
    /\ RequestInv
    /\ TornInv
    /\ WorkerInv
    /\ RowHasFile
    /\ NoStrandedWork
    /\ IndexedIsComplete
    /\ NoChunksWithoutRow
    /\ OrphanIsExplained
    /\ AuditTellsLife
=============================================================================
