--------------------------- MODULE LegacyDocuments ---------------------------
(***************************************************************************)
(* The document service and the processing worker of the multi-service     *)
(* deployment: an upload stores the file, inserts the row and publishes    *)
(* doc.uploaded before its transaction commits; a worker takes the         *)
(* message, extracts, chunks and saves; a deletion hides the row and       *)
(* removes the file.                                                       *)
(*                                                                         *)
(* PostgreSQL, the object store and RabbitMQ are taken at their word: a    *)
(* call succeeds or raises, uncommitted rows are invisible to others, an   *)
(* UPDATE waits for the transaction that holds its row, and a message that *)
(* was not settled is delivered again when its consumer goes away.         *)
(* doc.processed and doc.deleted have no queue bound to them; what they    *)
(* would start is outside this module.                                     *)
(***************************************************************************)
EXTENDS Naturals

CONSTANTS
    Docs,           \* documents; an upload always makes a new one
    Parts,          \* Parts[d]: how many chunks the file of d yields
    MaxCrashes      \* bound on lost workers

ASSUME PartsAssumption == Parts \in [Docs -> Nat] /\ MaxCrashes \in Nat

VARIABLES
    row,         \* documents: the committed row of each document
    objects,     \* the documents whose file is in the object store
    chunkRows,   \* document_chunks: how many rows each document has
    upload,      \* where the upload of a document is
    deletion,    \* where its deletion is
    queue,       \* the doc.uploaded messages that are ready
    job,         \* where the worker is with the message of a document
    crashes,     \* how often a worker went away, up to MaxCrashes
    unnoticed    \* documents of which an outcome never reached the row:
                 \* no message was sent, or the last UPDATE found no row or failed

docVars == <<row, objects, chunkRows, upload, deletion, queue, job, crashes, unnoticed>>

Absent == [status |-> "absent", is_deleted |-> FALSE, chunk_count |-> 0]
Pending == [Absent EXCEPT !.status = "pending"]
Decided == {"embedding", "failed"}
Status == {"absent", "pending", "processing", "chunking", "deleted"} \union Decided

DocInit ==
    /\ row = [d \in Docs |-> Absent]
    /\ objects = {}
    /\ chunkRows = [d \in Docs |-> 0]
    /\ upload = [d \in Docs |-> "new"]
    /\ deletion = [d \in Docs |-> "none"]
    /\ queue = {}
    /\ job = [d \in Docs |-> "idle"]
    /\ crashes = 0
    /\ unnoticed = {}

\* get_by_id finds the committed rows that are not deleted.
Found(d) == row[d].status # "absent" /\ ~row[d].is_deleted

\* get_download_url signs for a row it finds without asking the store;
\* get_status and get_chunks answer from the two tables.
Downloadable(d) == Found(d)
StatusShown(d) == row[d].status
ChunksShown(d) == IF Found(d) THEN chunkRows[d] ELSE 0

\* scan_file: a scanner that cannot be reached, or fails, finds nothing.
ScanResults == {"clean", "unavailable", "error", "infected"}
IsClean(result) == result # "infected"

\* The object store has the file, or has it no longer.
Uploaded(d) == objects \union {d}
Removed(d) == objects \ {d}

\* The transaction of a deletion holds the row from its UPDATE to its end.
Locked(d) == deletion[d] \in {"marked", "removed"}

---------------------------------------------------------------------------

\* Mutant of Store: an error of the object store is only logged.
Store_Lenient(d) ==
    /\ upload[d] = "new"
    /\ upload' = [upload EXCEPT ![d] = "stored"]
    /\ objects' \in {objects, Uploaded(d)}
    /\ UNCHANGED <<row, chunkRows, deletion, queue, job, crashes, unnoticed>>

\* upload_document up to the object store: a file that is too large, of a type
\* that is not allowed or infected is refused, and the store may fail.
Store(d) ==
    /\ upload[d] = "new"
    /\ \E result \in ScanResults :
          \/ IsClean(result) /\ upload' = [upload EXCEPT ![d] = "stored"] /\ objects' = Uploaded(d)
          \/ upload' = [upload EXCEPT ![d] = "refused"] /\ UNCHANGED objects
    /\ UNCHANGED <<row, chunkRows, deletion, queue, job, crashes, unnoticed>>

\* _publish_event: without a connection the event is left out.
PublishEvent(d) ==
    \/ queue' = queue \union {d} /\ UNCHANGED unnoticed
    \/ unnoticed' = unnoticed \union {d} /\ UNCHANGED queue

\* The row is flushed and the event published; an error of either rolls the row
\* back and leaves the file.
Publish(d) ==
    /\ upload[d] = "stored"
    /\ \/ upload' = [upload EXCEPT ![d] = "published"] /\ PublishEvent(d)
       \/ upload' = [upload EXCEPT ![d] = "refused"] /\ UNCHANGED <<queue, unnoticed>>
    /\ UNCHANGED <<row, objects, chunkRows, deletion, job, crashes>>

\* get_db_session commits when the handler has returned.
Commit(d) ==
    /\ upload[d] = "published"
    /\ \/ /\ upload' = [upload EXCEPT ![d] = "accepted"]
          /\ row' = [row EXCEPT ![d] = Pending]
       \/ /\ upload' = [upload EXCEPT ![d] = "refused"]
          /\ UNCHANGED row
    /\ UNCHANGED <<objects, chunkRows, deletion, queue, job, crashes, unnoticed>>

---------------------------------------------------------------------------
\* delete_document: soft_delete in an open transaction. A second deletion
\* waits for the first and then finds the row deleted, or begins anew.
Mark(d) ==
    /\ Found(d) /\ ~Locked(d)
    /\ deletion' = [deletion EXCEPT ![d] = "marked"]
    /\ UNCHANGED <<row, objects, chunkRows, upload, queue, job, crashes, unnoticed>>

\* The file is removed on a best effort.
RemoveObject(d) ==
    /\ deletion[d] = "marked"
    /\ deletion' = [deletion EXCEPT ![d] = "removed"]
    /\ objects' \in {objects, Removed(d)}
    /\ UNCHANGED <<row, chunkRows, upload, queue, job, crashes, unnoticed>>

\* doc.deleted is published and the transaction commits; when either fails the
\* row is as it was before, and the file is not brought back.
EndDeletion(d) ==
    /\ deletion[d] = "removed"
    /\ \/ /\ deletion' = [deletion EXCEPT ![d] = "done"]
          /\ row' = [row EXCEPT ![d].status = "deleted", ![d].is_deleted = TRUE]
       \/ /\ deletion' = [deletion EXCEPT ![d] = "undone"]
          /\ UNCHANGED row
    /\ UNCHANGED <<objects, chunkRows, upload, queue, job, crashes, unnoticed>>

---------------------------------------------------------------------------
\* A worker receives a message.
Receive(d) ==
    /\ d \in queue /\ job[d] = "idle"
    /\ queue' = queue \ {d}
    /\ job' = [job EXCEPT ![d] = "received"]
    /\ UNCHANGED <<row, objects, chunkRows, upload, deletion, crashes, unnoticed>>

\* _update_status: the row with that id, deleted or not, or no row at all.
StatusSet(d, status) ==
    IF row[d].status = "absent" THEN row ELSE [row EXCEPT ![d].status = status]

\* A status that ends a pass and finds no row is lost.
Missed(d) == IF row[d].status = "absent" THEN unnoticed \union {d} ELSE unnoticed

\* _update_status, and on with the next step of _process_document; an error of
\* the database ends the processing.
UpdateStatus(d, from, status, to) ==
    /\ job[d] = from /\ ~Locked(d)
    /\ \/ /\ row' = StatusSet(d, status)
          /\ job' = [job EXCEPT ![d] = to]
          /\ unnoticed' = IF to = "settled" THEN Missed(d) ELSE unnoticed
       \/ /\ job' = [job EXCEPT ![d] = "failing"]
          /\ UNCHANGED <<row, unnoticed>>
    /\ UNCHANGED <<objects, chunkRows, upload, deletion, queue, crashes>>

Begin(d) == UpdateStatus(d, "received", "processing", "fetching")
StartChunking(d) == UpdateStatus(d, "extracted", "chunking", "saving")

\* The file is fetched, its text extracted, recognised and cleaned: the page
\* that cannot be recognised stays as it is, any other error ends it.
Extract(d) ==
    /\ job[d] = "fetching"
    /\ \/ d \in objects /\ job' = [job EXCEPT ![d] = "extracted"]
       \/ job' = [job EXCEPT ![d] = "failing"]
    /\ UNCHANGED <<row, objects, chunkRows, upload, deletion, queue, crashes, unnoticed>>

\* _save_chunks: every chunk has a new id, and needs the row of its document.
SaveChunks(d) ==
    /\ Parts[d] > 0 => row[d].status # "absent"
    /\ chunkRows' = [chunkRows EXCEPT ![d] = @ + Parts[d]]

\* _update_document_stats.
WithStats(d) ==
    [StatusSet(d, "chunking") EXCEPT ![d].chunk_count = IF row[d].status = "absent" THEN @ ELSE Parts[d]]

\* Mutant of Save: the figures have a transaction of their own, after an error of
\* which the step is repeated.
Save_Apart(d) ==
    /\ job[d] = "saving" /\ ~Locked(d) /\ row[d].status # "absent"
    /\ SaveChunks(d)
    /\ \/ row' = WithStats(d) /\ job' = [job EXCEPT ![d] = "saved"]
       \/ UNCHANGED <<row, job>>
    /\ UNCHANGED <<objects, upload, deletion, queue, crashes, unnoticed>>

\* Chunks and figures in one transaction.
Save(d) ==
    /\ job[d] = "saving" /\ ~Locked(d)
    /\ \/ /\ SaveChunks(d)
          /\ row' = WithStats(d)
          /\ job' = [job EXCEPT ![d] = "saved"]
       \/ /\ job' = [job EXCEPT ![d] = "failing"]
          /\ UNCHANGED <<row, chunkRows>>
    /\ UNCHANGED <<objects, upload, deletion, queue, crashes, unnoticed>>

\* doc.processed is published, or not, and the last status of a pass written.
HandOver(d) == UpdateStatus(d, "saved", "embedding", "settled")

\* Mutants of Fail: the failure is logged and not written, or the document is
\* processed again until it can be written.
Fail_Logged(d) ==
    /\ job[d] = "failing" /\ ~Locked(d)
    /\ job' = [job EXCEPT ![d] = "settled"]
    /\ UNCHANGED <<row, objects, chunkRows, upload, deletion, queue, crashes, unnoticed>>
Fail_Retried(d) ==
    /\ job[d] = "failing" /\ ~Locked(d)
    /\ \/ /\ row' = StatusSet(d, "failed") /\ unnoticed' = Missed(d)
          /\ job' = [job EXCEPT ![d] = "settled"]
       \/ /\ job' = [job EXCEPT ![d] = "received"]
          /\ UNCHANGED <<row, unnoticed>>
    /\ UNCHANGED <<objects, chunkRows, upload, deletion, queue, crashes>>

\* The handler of _handle_message writes the failure; when this fails too the
\* message is rejected.
Fail(d) ==
    /\ job[d] = "failing" /\ ~Locked(d)
    /\ job' = [job EXCEPT ![d] = "settled"]
    /\ \/ row' = StatusSet(d, "failed") /\ unnoticed' = Missed(d)
       \/ unnoticed' = unnoticed \union {d} /\ UNCHANGED row
    /\ UNCHANGED <<objects, chunkRows, upload, deletion, queue, crashes>>

\* The message is settled, whatever became of it.
Settle(d) ==
    /\ job[d] = "settled"
    /\ job' = [job EXCEPT ![d] = "idle"]
    /\ UNCHANGED <<row, objects, chunkRows, upload, deletion, queue, crashes, unnoticed>>

\* A worker goes away and the messages it held are delivered again.
WorkerLost ==
    \E held \in SUBSET {d \in Docs : job[d] # "idle"} :
        /\ held # {} /\ crashes < MaxCrashes
        /\ job' = [d \in Docs |-> IF d \in held THEN "idle" ELSE job[d]]
        /\ queue' = queue \union held
        /\ crashes' = crashes + 1
        /\ UNCHANGED <<row, objects, chunkRows, upload, deletion, unnoticed>>

---------------------------------------------------------------------------
Deleting(d) == RemoveObject(d) \/ EndDeletion(d)
Working(d) == Begin(d) \/ Extract(d) \/ StartChunking(d) \/ Save(d) \/ HandOver(d)
              \/ Fail(d) \/ Settle(d)

DocNext ==
    \/ \E d \in Docs :
        \/ Store(d) \/ Publish(d) \/ Commit(d)
        \/ Mark(d) \/ Deleting(d)
        \/ Receive(d) \/ Working(d)
    \/ WorkerLost

DocTypeOK ==
    /\ row \in [Docs -> [status: Status, is_deleted: BOOLEAN, chunk_count: Nat]]
    /\ objects \subseteq Docs /\ queue \subseteq Docs /\ unnoticed \subseteq Docs
    /\ chunkRows \in [Docs -> Nat]
    /\ upload \in [Docs -> {"new", "stored", "published", "accepted", "refused"}]
    /\ deletion \in [Docs -> {"none", "marked", "removed", "done", "undone"}]
    /\ job \in [Docs -> {"idle", "received", "fetching", "extracted", "saving", "saved",
                         "failing", "settled"}]
    /\ crashes \in 0..MaxCrashes

\* A document that can be downloaded has its file, unless someone began to delete
\* it: upload_document stores the file before the row can be seen, and only
\* delete_document removes it.
FileBehindRow ==
    \A d \in Docs : Downloadable(d) /\ d \notin objects => deletion[d] # "none"

\* Once the message of a document is settled and nobody holds the row, its
\* status says how it ended, unless the outcome could not reach the row: no
\* step of _process_document leaves a document in processing or chunking.  One
\* that was handed over for embedding has every chunk that its row counts.
EndIsRecorded ==
    \A d \in Docs : Found(d) =>
        /\ d \notin queue /\ job[d] = "idle" =>
              StatusShown(d) \in Decided \/ d \in unnoticed
        /\ StatusShown(d) = "embedding" =>
              row[d].chunk_count = Parts[d] /\ ChunksShown(d) >= Parts[d]

\* Chunks are saved once per delivery, and a message is delivered again only
\* after a worker went away: a failure settles the message.
SavedOncePerDelivery ==
    \A d \in Docs : chunkRows[d] <= Parts[d] * (1 + crashes)

\* Every message that was published is settled in the end.
MessagesAreSettled ==
    \A d \in Docs : d \in queue ~> d \notin queue /\ job[d] = "idle"
=============================================================================
