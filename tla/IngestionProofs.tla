-------------------------- MODULE IngestionProofs --------------------------
(***************************************************************************)
(* Proofs about Ingestion, for every set of identifiers and of requests    *)
(* and every bound.                                                        *)
(***************************************************************************)
EXTENDS Ingestion, TLAPS

\* The initial state has the types of TypeOK.
LEMMA InitTypeOK == Init => TypeOK
  BY LoggedAssumption, MaxCrashesAssumption
  DEF Init, TypeOK, Idle, Status, BusyStatus, RequestPc, WorkerPc

\* Audit records and requests keep their types, whatever is recorded or
\* wherever a request goes on.
LEMMA LogTyped ==
    ASSUME audit \in [Docs -> SUBSET Logged], NEW d, NEW what, Log(d, what)
    PROVE  audit' \in [Docs -> SUBSET Logged]
  BY DEF Log

LEMMA GotoTyped ==
    ASSUME TypeOK, NEW r \in Requests, NEW pc \in RequestPc, Goto(r, pc)
    PROVE  req' \in [Requests -> [pc : RequestPc, doc : Docs \union {NoDoc},
                                  seen : Status, seenError : BOOLEAN]]
  BY DEF TypeOK, Goto

\* No handler leaves the types.
LEMMA RequestTypeOK ==
    ASSUME TypeOK, RequestInv, NEW r \in Requests, Request(r)
    PROVE  TypeOK'
<1> USE DEF TypeOK, db, disk, work, Idle, Status, BusyStatus, RequestPc, Suspend,
            Goto, Return, Log, At
<1>1. ASSUME NEW d \in Docs, UploadCheck(r, d) PROVE TypeOK'
  BY <1>1 DEF UploadCheck
<1>2. ASSUME NEW d \in Docs, DeleteLoad(r, d) PROVE TypeOK'
  BY <1>2 DEF DeleteLoad
<1>3. ASSUME NEW d \in Docs, ReindexLoad(r, d) PROVE TypeOK'
  BY <1>3 DEF ReindexLoad
<1>4. ASSUME NEW d \in Docs, DownloadLoad(r, d) PROVE TypeOK'
  BY <1>4 DEF DownloadLoad
<1>5. CASE UploadWrite(r)
  BY <1>5 DEF UploadWrite, RequestInv
<1>6. CASE UploadCommit(r)
  BY <1>6 DEF UploadCommit
<1>7. CASE UploadCommitFails(r)
  BY <1>7 DEF UploadCommitFails
<1>8. CASE DeleteCommit(r)
  <2>1. status' \in [Docs -> Status] /\ audit' \in [Docs -> SUBSET Logged]
    BY <1>8 DEF DeleteCommit
  <2>2. error' \in [Docs -> BOOLEAN] /\ chunks' \in [Docs -> BOOLEAN]
    BY <1>8 DEF DeleteCommit
  <2> QED
    BY <1>8, <2>1, <2>2 DEF DeleteCommit
<1>9. CASE DeleteUnlink(r)
  BY <1>9 DEF DeleteUnlink
<1>10. CASE ReindexCommit(r)
  <2>1. status' \in [Docs -> Status]
    BY <1>10 DEF ReindexCommit
  <2>2. error' \in [Docs -> BOOLEAN]
    BY <1>10 DEF ReindexCommit
  <2>3. audit' \in [Docs -> SUBSET Logged]
    BY <1>10 DEF ReindexCommit
  <2> QED
    BY <1>10, <2>1, <2>2, <2>3 DEF ReindexCommit
<1>11. CASE DownloadCommit(r)
  <2>1. audit' \in [Docs -> SUBSET Logged]
    BY <1>11, LogTyped DEF DownloadCommit
  <2>2. "serve" \in RequestPc /\ Goto(r, "serve")
    BY <1>11 DEF DownloadCommit
  <2>3. req' \in [Requests -> [pc : RequestPc, doc : Docs \union {NoDoc},
                              seen : Status, seenError : BOOLEAN]]
    <3> HIDE DEF RequestPc, Status, Goto, TypeOK
    <3> QED
      BY <2>2, GotoTyped
  <2> QED
    BY <1>11, <2>1, <2>3 DEF DownloadCommit
<1>12. CASE DownloadServe(r)
  BY <1>12 DEF DownloadServe
<1>13. CASE UploadWriteFails(r)
  BY <1>13 DEF UploadWriteFails, RequestInv
<1> QED
  BY <1>1, <1>2, <1>3, <1>4, <1>5, <1>6, <1>7, <1>8, <1>9, <1>10, <1>11,
     <1>12, <1>13 DEF Request, Arrive, Resume

\* Nor does the worker.
LEMMA WorkerTypeOK == TypeOK /\ WorkerInv /\ Worker => TypeOK'
<1> SUFFICES ASSUME TypeOK, WorkerInv, Worker PROVE TypeOK'
  OBVIOUS
<1> USE DEF TypeOK, db, disk, Status, BusyStatus, WorkerPc, Step, Done, Die
<1>1. CASE RecoverLoad
  BY <1>1 DEF RecoverLoad
<1>2. CASE RecoverCommit
  BY <1>2 DEF RecoverCommit
<1>3. CASE Poll
  BY <1>3 DEF Poll, Queued
<1>4. CASE Load
  BY <1>4 DEF Load
<1>5. CASE Claim
  BY <1>5 DEF Claim
<1>6. CASE Extract
  BY <1>6 DEF Extract
<1>7. CASE Refresh
  BY <1>7 DEF Refresh
<1>8. CASE Mark
  BY <1>8 DEF Mark
<1>9. CASE Replace
  BY <1>9 DEF Replace
<1>10. CASE ReplaceFails
  BY <1>10 DEF ReplaceFails
<1>11. CASE Rollback
  BY <1>11 DEF Rollback
<1>12. CASE Fail
  BY <1>12 DEF Fail
<1> QED
  BY <1>1, <1>2, <1>3, <1>4, <1>5, <1>6, <1>7, <1>8, <1>9, <1>10, <1>11,
     <1>12 DEF Worker

\* Types survive every step of the system.
LEMMA NextTypeOK == TypeOK /\ RequestInv /\ WorkerInv /\ [Next]_vars => TypeOK'
<1> SUFFICES ASSUME TypeOK, RequestInv, WorkerInv, [Next]_vars PROVE TypeOK'
  OBVIOUS
<1>1. CASE Crash
  <2>1. PICK half \in SUBSET {req[r].doc : r \in {q \in Requests : At(q, "write")}} :
           files' = files \union half /\ torn' = torn \union half
    BY <1>1 DEF Crash
  <2>2. half \subseteq Docs
    BY <2>1 DEF TypeOK, RequestInv, At
  <2> QED
    BY <1>1, <2>1, <2>2, MaxCrashesAssumption
    DEF Crash, TypeOK, db, Idle, RequestPc, WorkerPc, Status
<1>2. CASE Restart
  BY <1>2 DEF Restart, TypeOK, db, disk, WorkerPc
<1>3. CASE UNCHANGED vars
  BY <1>3 DEF vars, db, disk, work, TypeOK
<1> QED
  BY <1>1, <1>2, <1>3, RequestTypeOK, WorkerTypeOK DEF Next

-----------------------------------------------------------------------------
(* The inductive invariant.                                                *)

LEMMA InitIInv == Init => IInv
  BY InitTypeOK, NoDocAssumption
  DEF Init, IInv, RequestInv, TornInv, WorkerInv, RowHasFile, NoStrandedWork,
      IndexedIsComplete, NoChunksWithoutRow, OrphanIsExplained,
      AuditTellsLife, Idle, Exists, Busy, BusyStatus, Holding

\* No handler breaks the inductive invariant.
LEMMA RequestIInv ==
    ASSUME IInv, NEW r \in Requests, Request(r)
    PROVE  IInv'
<1> USE NoDocAssumption, LoggedAssumption
    DEF IInv, RequestInv, TornInv, WorkerInv, RowHasFile, NoStrandedWork,
        IndexedIsComplete, NoChunksWithoutRow, OrphanIsExplained,
        AuditTellsLife, Exists, Busy, BusyStatus
<1>0. TypeOK'
  BY RequestTypeOK
<1> USE DEF TypeOK, db, disk, work, Idle, Suspend, Goto, Return, Log, At, Up
<1>1. ASSUME NEW d \in Docs, UploadCheck(r, d) PROVE IInv'
  BY <1>0, <1>1 DEF UploadCheck, Fresh
<1>2. ASSUME NEW d \in Docs, DeleteLoad(r, d) PROVE IInv'
  BY <1>0, <1>2 DEF DeleteLoad
<1>3. ASSUME NEW d \in Docs, ReindexLoad(r, d) PROVE IInv'
  BY <1>0, <1>3 DEF ReindexLoad
<1>4. ASSUME NEW d \in Docs, DownloadLoad(r, d) PROVE IInv'
  BY <1>0, <1>4 DEF DownloadLoad
<1>5. CASE UploadWrite(r)
  BY <1>0, <1>5 DEF UploadWrite
<1>6. CASE UploadCommit(r)
  BY <1>0, <1>6 DEF UploadCommit
<1>7. CASE UploadCommitFails(r)
  BY <1>0, <1>7 DEF UploadCommitFails
<1>8. CASE DeleteCommit(r)
  BY <1>0, <1>8 DEF DeleteCommit
<1>9. CASE DeleteUnlink(r)
  BY <1>0, <1>9 DEF DeleteUnlink
<1>10. CASE ReindexCommit(r)
  BY <1>0, <1>10 DEF ReindexCommit
<1>11. CASE DownloadCommit(r)
  BY <1>0, <1>11 DEF DownloadCommit
<1>12. CASE DownloadServe(r)
  BY <1>0, <1>12 DEF DownloadServe
<1>13. CASE UploadWriteFails(r)
  BY <1>0, <1>13 DEF UploadWriteFails
<1> QED
  BY <1>1, <1>2, <1>3, <1>4, <1>5, <1>6, <1>7, <1>8, <1>9, <1>10, <1>11,
     <1>12, <1>13 DEF Request, Arrive, Resume

\* Nor does the worker.
LEMMA WorkerIInv == IInv /\ Worker => IInv'
<1> SUFFICES ASSUME IInv, Worker PROVE IInv'
  OBVIOUS
<1> USE NoDocAssumption
    DEF IInv, RequestInv, TornInv, WorkerInv, RowHasFile, NoStrandedWork,
        IndexedIsComplete, NoChunksWithoutRow, OrphanIsExplained,
        AuditTellsLife, Exists, Busy, BusyStatus, Holding
<1>0. TypeOK'
  BY WorkerTypeOK
<1> USE DEF TypeOK, db, disk, Step, Done, Die
<1>1. CASE RecoverLoad
  BY <1>0, <1>1 DEF RecoverLoad
<1>2. CASE RecoverCommit
  BY <1>0, <1>2 DEF RecoverCommit
<1>3. CASE Poll
  BY <1>0, <1>3 DEF Poll
<1>4. CASE Load
  BY <1>0, <1>4 DEF Load
<1>5. CASE Claim
  BY <1>0, <1>5 DEF Claim
<1>6. CASE Extract
  BY <1>0, <1>6 DEF Extract
<1>7. CASE Refresh
  BY <1>0, <1>7 DEF Refresh
<1>8. CASE Mark
  BY <1>0, <1>8 DEF Mark
<1>9. CASE Replace
  BY <1>0, <1>9 DEF Replace
<1>10. CASE ReplaceFails
  BY <1>0, <1>10 DEF ReplaceFails
<1>11. CASE Rollback
  BY <1>0, <1>11 DEF Rollback
<1>12. CASE Fail
  BY <1>0, <1>12 DEF Fail
<1> QED
  BY <1>1, <1>2, <1>3, <1>4, <1>5, <1>6, <1>7, <1>8, <1>9, <1>10, <1>11,
     <1>12 DEF Worker

LEMMA NextIInv == IInv /\ [Next]_vars => IInv'
<1> SUFFICES ASSUME IInv, [Next]_vars PROVE IInv'
  OBVIOUS
<1>0. TypeOK'
  BY NextTypeOK DEF IInv
<1> USE NoDocAssumption
    DEF IInv, RequestInv, TornInv, WorkerInv, RowHasFile, NoStrandedWork,
        IndexedIsComplete, NoChunksWithoutRow, OrphanIsExplained,
        AuditTellsLife, Exists, Busy
<1>1. CASE Crash
  <2>1. PICK half \in SUBSET {req[r].doc : r \in {q \in Requests : At(q, "write")}} :
           files' = files \union half /\ torn' = torn \union half
    BY <1>1 DEF Crash
  <2>2. /\ crashes' > 0 /\ wpc' = "down" /\ cur' = NoDoc /\ recovering' = {}
        /\ \A r \in Requests : req'[r] = Idle
        /\ UNCHANGED <<status, error, chunks, audit>>
    BY <1>1, MaxCrashesAssumption DEF Crash, TypeOK, db
  <2>3. \A d \in half : status[d] = "absent" /\ audit[d] = {}
    BY <2>1 DEF At
  <2>4. RequestInv' /\ TornInv' /\ WorkerInv'
    BY <2>1, <2>2, <2>3 DEF Idle, Holding
  <2>5. RowHasFile' /\ OrphanIsExplained' /\ AuditTellsLife'
    BY <2>1, <2>2, <2>3
  <2>6. NoStrandedWork' /\ IndexedIsComplete' /\ NoChunksWithoutRow'
    BY <2>2
  <2> QED
    BY <1>0, <2>4, <2>5, <2>6
<1>2. CASE Restart
  BY <1>0, <1>2 DEF Restart, db, disk, Holding
<1>3. CASE UNCHANGED vars
  BY <1>0, <1>3 DEF vars, db, disk, work
<1> QED
  BY <1>1, <1>2, <1>3, RequestIInv, WorkerIInv DEF Next

\* The inductive invariant holds in every reachable state, with any number
\* of concurrent requests, documents and crashes.
THEOREM Invariance == Spec => []IInv
  BY InitIInv, NextIInv, PTL DEF Spec

\* The variables keep their types.
THEOREM TypeCorrect == Spec => []TypeOK
  BY Invariance, PTL DEF IInv

\* Every row has its file: the order of file and database operations in
\* upload and remove_document is right for any interleaving and any crash.
THEOREM RowsHaveFiles == Spec => []RowHasFile
  BY Invariance, PTL DEF IInv

\* No document is stranded in "extracting" or "chunking".
THEOREM NoneStranded == Spec => []NoStrandedWork
  BY Invariance, PTL DEF IInv

\* What search may return has its chunks; what is gone has none.
THEOREM SearchIsSound == Spec => [](IndexedIsComplete /\ NoChunksWithoutRow)
  BY Invariance, PTL DEF IInv

\* A file without a row is in the hands of a request, or was left by a crash
\* or by a write that raised before the document was in the library.
THEOREM FilesAreOwned == Spec => []OrphanIsExplained
  BY Invariance, PTL DEF IInv

\* The audit table agrees with the documents table.
THEOREM AuditAgrees == Spec => []AuditTellsLife
  BY Invariance, PTL DEF IInv

-----------------------------------------------------------------------------
(* What a step may never do.                                               *)

\* Audit records are never removed.
LEMMA AuditGrows ==
    TypeOK /\ [Next]_vars => \A d \in Docs : audit[d] \subseteq audit'[d]
<1> SUFFICES ASSUME TypeOK, [Next]_vars, NEW d \in Docs
             PROVE  audit[d] \subseteq audit'[d]
  OBVIOUS
<1> USE DEF TypeOK, db, disk, Log
<1>1. ASSUME NEW r \in Requests, Request(r) PROVE audit[d] \subseteq audit'[d]
  BY <1>1
  DEF Request, Arrive, Resume, UploadCheck, DeleteLoad, ReindexLoad,
      DownloadLoad,
      UploadWrite, UploadWriteFails, UploadCommit, UploadCommitFails, DeleteCommit,
      DeleteUnlink, ReindexCommit, DownloadCommit, DownloadServe
<1>2. CASE Worker
  BY <1>2
  DEF Worker, RecoverLoad, RecoverCommit, Poll, Load, Claim, Extract,
      Refresh, Mark, Replace, ReplaceFails, Rollback, Fail
<1>3. CASE Crash \/ Restart \/ UNCHANGED vars
  BY <1>3 DEF Crash, Restart, vars
<1> QED
  BY <1>1, <1>2, <1>3 DEF Next

\* Removal is final: an identifier whose deletion is recorded has no row
\* after any later step, so no stale request or worker brings it back.
THEOREM Final == Spec => RemovalIsFinal
<1>1. IInv /\ IInv' /\ [Next]_vars
        => \A d \in Docs : "deleted" \in audit[d] => status'[d] = "absent"
  BY AuditGrows DEF IInv, AuditTellsLife, Exists
<1> QED
  BY <1>1, Invariance, PTL DEF Spec, RemovalIsFinal

-----------------------------------------------------------------------------
(* The store implements DocumentLifecycle.                                 *)

Life == [d \in Docs |-> LifeOf(d)]

\* What a step of the store may do to the life of one document.
Transition(d) ==
    \/ LifeOf(d)' = LifeOf(d)
    \/ LifeOf(d) = "none" /\ LifeOf(d)' = "pending"
    \/ LifeOf(d) = "pending" /\ LifeOf(d)' \in {"ready", "failed"}
    \/ LifeOf(d) \in {"ready", "failed"} /\ LifeOf(d)' = "pending"
    \/ LifeOf(d) \in {"pending", "ready", "failed"} /\ LifeOf(d)' = "gone"

\* Such a step on one document is a step of the library, or none.
LEMMA TransitionIsStep ==
    ASSUME NEW d \in Docs, Transition(d),
           \A e \in Docs \ {d} : LifeOf(e)' = LifeOf(e)
    PROVE  [Library!Next]_Life
<1>1. Life' = [Life EXCEPT ![d] = LifeOf(d)'] /\ Life[d] = LifeOf(d)
  BY DEF Life
<1>2. CASE LifeOf(d)' = LifeOf(d)
  BY <1>1, <1>2 DEF Life
<1>3. CASE LifeOf(d)' # LifeOf(d)
  <2>1. Library!Add(d) \/ Library!Settle(d) \/ Library!Requeue(d)
                      \/ Library!Remove(d)
    BY <1>1, <1>3
    DEF Transition, Life, Library!Add, Library!Settle, Library!Requeue,
        Library!Remove, Library!Moves
  <2> QED
    BY <2>1 DEF Library!Next
<1> QED
  BY <1>2, <1>3

\* The life that each status of a row shows.
LEMMA StageValues ==
    /\ StageOf["queued"] = "pending"
    /\ StageOf["extracting"] = "pending"
    /\ StageOf["chunking"] = "pending"
    /\ StageOf["indexed"] = "ready"
    /\ StageOf["failed"] = "failed"
  BY DEF StageOf

\* A step that leaves the life of every document alone.
LEMMA LifeStays ==
    ASSUME \A d \in Docs : LifeOf(d)' = LifeOf(d)
    PROVE  [Library!Next]_Life
  BY DEF Life

\* A step that leaves the tables alone leaves the life of documents alone.
LEMMA TablesStay == UNCHANGED db => [Library!Next]_Life
  BY LifeStays DEF db, LifeOf, Exists

\* A handler's step is a step of the abstract library, or none.
LEMMA RequestImplements ==
    ASSUME IInv, IInv', NEW r \in Requests, Request(r)
    PROVE  [Library!Next]_Life
<1> USE LoggedAssumption
    DEF IInv, TypeOK, RequestInv, AuditTellsLife, Exists, Status, BusyStatus,
        At
<1>1. CASE UploadCommit(r)
  <2>1. PICK d \in Docs : d = req[r].doc
    BY <1>1 DEF UploadCommit
  <2>2. /\ status[d] = "absent" /\ "deleted" \notin audit[d]
        /\ status'[d] = "queued" /\ "deleted" \notin audit'[d]
    BY <1>1, <2>1 DEF UploadCommit, Log
  <2>3. Transition(d)
    BY <2>2, StageValues DEF Transition, LifeOf
  <2>4. \A e \in Docs \ {d} : LifeOf(e)' = LifeOf(e)
    BY <1>1, <2>1 DEF UploadCommit, LifeOf, Log
  <2> QED
    BY <2>3, <2>4, TransitionIsStep
<1>2. CASE DeleteCommit(r)
  <2>1. PICK d \in Docs : d = req[r].doc
    BY <1>2 DEF DeleteCommit
  <2>2. /\ status[d] \in Status /\ "deleted" \in audit'[d]
        /\ "deleted" \in audit[d] <=> status[d] = "absent"
    BY <1>2, <2>1 DEF DeleteCommit, Log
  <2>3. Transition(d)
    BY <2>2, StageValues DEF Transition, LifeOf
  <2>4. \A e \in Docs \ {d} : LifeOf(e)' = LifeOf(e)
    BY <1>2, <2>1 DEF DeleteCommit, LifeOf, Log
  <2> QED
    BY <2>3, <2>4, TransitionIsStep
<1>3. CASE ReindexCommit(r)
  <2>1. PICK d \in Docs : d = req[r].doc
    BY <1>3 DEF ReindexCommit
  <2>2. /\ "deleted" \in audit'[d] <=> "deleted" \in audit[d]
        /\ \/ status'[d] = status[d]
           \/ status[d] # "absent" /\ status'[d] = "queued"
    BY <1>3, <2>1 DEF ReindexCommit, Log
  <2>3. status[d] \in Status
    BY <2>1
  <2>4. Transition(d)
    BY <2>1, <2>2, <2>3, StageValues DEF Transition, LifeOf
  <2>5. \A e \in Docs \ {d} : LifeOf(e)' = LifeOf(e)
    BY <1>3, <2>1 DEF ReindexCommit, LifeOf, Log
  <2> QED
    BY <2>4, <2>5, TransitionIsStep
<1>4. CASE DownloadCommit(r)
  BY <1>4, LifeStays DEF DownloadCommit, Log, LifeOf
<1> QED
  BY <1>1, <1>2, <1>3, <1>4, TablesStay
  DEF Request, Arrive, Resume, UploadCheck, DeleteLoad, ReindexLoad,
      DownloadLoad,
      UploadWrite, UploadWriteFails, UploadCommitFails, DeleteUnlink, DownloadServe

\* A step of the worker settles a document, or is none of the library's.
LEMMA WorkerImplements == IInv /\ IInv' /\ Worker => [Library!Next]_Life
<1> SUFFICES ASSUME IInv, IInv', Worker PROVE [Library!Next]_Life
  OBVIOUS
<1> USE DEF IInv, TypeOK, WorkerInv, AuditTellsLife, Exists, Status,
            BusyStatus
<1>1. CASE RecoverCommit
  <2>1. ASSUME NEW d \in Docs PROVE LifeOf(d)' = LifeOf(d)
    <3>1. \/ status'[d] = status[d]
          \/ /\ status[d] \in {"queued", "extracting", "chunking"}
             /\ status'[d] = "queued"
      BY <1>1, NoDocAssumption DEF RecoverCommit
    <3> QED
      BY <1>1, <3>1, StageValues DEF RecoverCommit, LifeOf
  <2> QED
    BY <2>1, LifeStays
<1>2. CASE Claim
  BY <1>2, LifeStays, StageValues DEF Claim, Holding, LifeOf
<1>3. CASE Mark
  BY <1>3, LifeStays, StageValues DEF Mark, Holding, LifeOf
<1>4. CASE Replace
  <2>1. PICK d \in Docs : d = cur
    BY <1>4 DEF Replace, Holding
  <2>2. /\ status[d] \in {"absent", "queued", "extracting", "chunking"}
        /\ \/ status'[d] = status[d]
           \/ status[d] # "absent" /\ status'[d] = "indexed"
        /\ audit' = audit
        /\ "deleted" \in audit[d] => status'[d] = "absent"
    BY <1>4, <2>1 DEF Replace, Holding
  <2>3. Transition(d)
    BY <2>2, StageValues DEF Transition, LifeOf
  <2>4. \A e \in Docs \ {d} : LifeOf(e)' = LifeOf(e)
    BY <1>4, <2>1 DEF Replace, LifeOf
  <2> QED
    BY <2>3, <2>4, TransitionIsStep
<1>5. CASE Fail
  <2>1. PICK d \in Docs : d = cur
    BY <1>5 DEF Fail, Holding
  <2>2. /\ status[d] \in {"absent", "queued", "extracting", "chunking"}
        /\ \/ status'[d] = status[d]
           \/ status[d] # "absent" /\ status'[d] = "failed"
        /\ audit' = audit
        /\ "deleted" \in audit[d] => status'[d] = "absent"
    BY <1>5, <2>1 DEF Fail, Holding
  <2>3. Transition(d)
    BY <2>2, StageValues DEF Transition, LifeOf
  <2>4. \A e \in Docs \ {d} : LifeOf(e)' = LifeOf(e)
    BY <1>5, <2>1 DEF Fail, LifeOf
  <2> QED
    BY <2>3, <2>4, TransitionIsStep
<1> QED
  BY <1>1, <1>2, <1>3, <1>4, <1>5, TablesStay
  DEF Worker, RecoverLoad, Poll, Load, Extract, Refresh, ReplaceFails,
      Rollback

\* The document store implements the promised life of documents: whatever
\* requests, the worker and crashes interleave, each document is added
\* once, settles only while pending, and never returns once removed.
THEOREM Implements == Spec => LibrarySpec
<1>1. Init => Library!Init
  BY StageValues DEF Init, Library!Init, LifeOf, Exists
<1>2. IInv /\ IInv' /\ [Next]_vars => [Library!Next]_Life
  <2> SUFFICES ASSUME IInv, IInv', [Next]_vars PROVE [Library!Next]_Life
    OBVIOUS
  <2>1. CASE Crash \/ Restart \/ UNCHANGED vars
    BY <2>1, TablesStay DEF Crash, Restart, vars
  <2> QED
    BY <2>1, RequestImplements, WorkerImplements DEF Next
<1> QED
  BY <1>1, <1>2, Invariance, PTL DEF Spec, LibrarySpec, Library!Spec, Life
=============================================================================
