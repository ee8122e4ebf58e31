------------------------------ MODULE AuditLog ------------------------------
(***************************************************************************)
(* The audit service: its worker moves messages from RabbitMQ into an      *)
(* asyncio.Queue and acknowledges them; a flusher drains that queue into   *)
(* batches and inserts them; exports copy what is stored into files.       *)
(*                                                                         *)
(* RabbitMQ delivers again what was not acknowledged when a connection is  *)
(* lost.  The handlers of the lost connection go on: what they put into    *)
(* the queue of the process is inserted.                                   *)
(***************************************************************************)
EXTENDS Naturals, Sequences, FiniteSets, SequencesExt

CONSTANTS
    Events,         \* audit events, each published once
    QueueSize,      \* maxsize of the queue
    BatchSize,      \* bulk_insert_batch_size
    PartSize,       \* rows of one partition of the stream of an export
    MaxLosses       \* bound on lost connections, kills and stops

ASSUME AuditAssumption ==
    /\ {QueueSize, BatchSize, PartSize} \subseteq Nat \ {0}
    /\ MaxLosses \in Nat

VARIABLES
    message,     \* where the message of each event is
    late,        \* the handlers of a lost connection that still wait for room
    buffer,      \* the asyncio.Queue
    batch,       \* what the flusher has taken
    flusher,     \* where the flusher is
    due,         \* whether the flush interval has elapsed since the last flush
    running,     \* the flag the signal handler clears
    logRows,     \* audit_logs: the rows of each event, every parse with a new id
    refused,     \* the events that did not validate or whose batch failed
    forsaken,    \* the events that were in memory when their process went away
    losses,      \* lost connections, kills and stops so far, up to MaxLosses
    export       \* the job of an export

auditVars == <<message, late, buffer, batch, flusher, due, running, logRows, refused,
               forsaken, losses, export>>

NoExport == [status |-> "none", asked |-> {}, cursor |-> {}, file |-> {}]
Rows == {r \in Events \X (1..MaxLosses + 1) : r[2] <= logRows[r[1]]}

AuditInit ==
    /\ message = [e \in Events |-> "new"]
    /\ late = {} /\ buffer = <<>> /\ batch = <<>>
    /\ flusher = "round" /\ due = FALSE /\ running = TRUE
    /\ logRows = [e \in Events |-> 0]
    /\ refused = {} /\ forsaken = {} /\ losses = 0
    /\ export = NoExport

---------------------------------------------------------------------------
\* Some service publishes an event.
Emit(e) ==
    /\ message[e] = "new"
    /\ message' = [message EXCEPT ![e] = "ready"]
    /\ UNCHANGED <<late, buffer, batch, flusher, due, running, logRows, refused, forsaken,
                   losses, export>>

\* A message comes to _on_message; one that cannot be parsed is acknowledged
\* and dropped.
Deliver(e) ==
    /\ message[e] = "ready" /\ flusher # "ended"
    /\ \/ /\ message' = [message EXCEPT ![e] = "parsed"]
          /\ UNCHANGED refused
       \/ /\ message' = [message EXCEPT ![e] = "acked"]
          /\ refused' = refused \union {e}
    /\ UNCHANGED <<late, buffer, batch, flusher, due, running, logRows, forsaken, losses,
                   export>>

\* queue.put, which waits while the queue is full.
Put(e) ==
    /\ Len(buffer) < QueueSize /\ flusher # "ended"
    /\ \/ /\ message[e] = "parsed"
          /\ message' = [message EXCEPT ![e] = "put"]
          /\ UNCHANGED late
       \/ /\ e \in late
          /\ late' = late \ {e}
          /\ UNCHANGED message
    /\ buffer' = Append(buffer, e)
    /\ UNCHANGED <<batch, flusher, due, running, logRows, refused, forsaken, losses, export>>

\* message.process acknowledges when its block is left.
Ack(e) ==
    /\ message[e] = "put"
    /\ message' = [message EXCEPT ![e] = "acked"]
    /\ UNCHANGED <<late, buffer, batch, flusher, due, running, logRows, refused, forsaken,
                   losses, export>>

Unsettled == {e \in Events : message[e] \in {"parsed", "put"}}
Redelivered == [e \in Events |-> IF e \in Unsettled THEN "ready" ELSE message[e]]

\* The connection is lost; connect_robust opens another one.
LoseConnection ==
    /\ losses < MaxLosses /\ Unsettled # {}
    /\ losses' = losses + 1
    /\ message' = Redelivered
    /\ late' = late \union {e \in Events : message[e] = "parsed"}
    /\ UNCHANGED <<buffer, batch, flusher, due, running, logRows, refused, forsaken, export>>

---------------------------------------------------------------------------
\* The flush interval elapses.
Elapse ==
    /\ ~due /\ due' = TRUE
    /\ UNCHANGED <<message, late, buffer, batch, flusher, running, logRows, refused,
                   forsaken, losses, export>>

\* How many items a round takes: no more than the batch has room for.
Taken == IF Len(buffer) < BatchSize - Len(batch) THEN Len(buffer) ELSE BatchSize - Len(batch)

FlushNow(items) == Len(items) >= BatchSize \/ (items # <<>> /\ due)

\* One round of _flusher_loop up to its await.
Round ==
    /\ flusher = "round" /\ (running \/ buffer # <<>>)
    /\ batch' = batch \o SubSeq(buffer, 1, Taken)
    /\ buffer' = SubSeq(buffer, Taken + 1, Len(buffer))
    /\ flusher' = IF FlushNow(batch') THEN "flush" ELSE "round"
    /\ UNCHANGED <<message, late, due, running, logRows, refused, forsaken, losses, export>>

\* Mutant of Leave: what the flusher holds is not flushed at the end.
Leave_NoFlush ==
    /\ flusher = "round" /\ ~running /\ buffer = <<>>
    /\ flusher' = "flushed"
    /\ UNCHANGED <<message, late, buffer, batch, due, running, logRows, refused, forsaken,
                   losses, export>>

\* The loop ends: nothing is queued and the worker was told to stop.
Leave ==
    /\ flusher = "round" /\ ~running /\ buffer = <<>>
    /\ flusher' = "last"
    /\ UNCHANGED <<message, late, buffer, batch, due, running, logRows, refused, forsaken,
                   losses, export>>

\* bulk_insert of some items.  Rows whose id is taken are passed over, but an
\* event that is delivered again is parsed anew and has another id.
Inserted(items) == [e \in Events |-> logRows[e] + Cardinality({i \in DOMAIN items : items[i] = e})]

\* _flush_batch: all rows are inserted and committed, or the error is logged.
\* Either way the loop goes on with an empty batch.
Flush ==
    /\ flusher \in {"flush", "last"}
    /\ \/ /\ logRows' = Inserted(batch)
          /\ UNCHANGED refused
       \/ /\ batch # <<>>
          /\ refused' = refused \union ToSet(batch)
          /\ UNCHANGED logRows
    /\ batch' = <<>> /\ due' = FALSE
    /\ flusher' = IF flusher = "flush" THEN "round" ELSE "flushed"
    /\ UNCHANGED <<message, late, buffer, running, forsaken, losses, export>>

\* SIGTERM: the consumer goes on until the flusher is done.
Signal ==
    /\ running /\ losses < MaxLosses
    /\ running' = FALSE /\ losses' = losses + 1
    /\ UNCHANGED <<message, late, buffer, batch, flusher, due, logRows, refused, forsaken,
                   export>>

\* The connection closes after the flusher; what was put since is lost.
Close ==
    /\ flusher = "flushed" /\ flusher' = "ended"
    /\ message' = Redelivered
    /\ late' = {} /\ buffer' = <<>> /\ batch' = <<>>
    /\ forsaken' = forsaken \union ToSet(buffer)
    /\ UNCHANGED <<due, running, logRows, refused, losses, export>>

\* The process is killed.
Kill ==
    /\ flusher # "ended" /\ losses < MaxLosses
    /\ losses' = losses + 1
    /\ flusher' = "ended" /\ message' = Redelivered
    /\ late' = {} /\ buffer' = <<>> /\ batch' = <<>>
    /\ forsaken' = forsaken \union ToSet(buffer) \union ToSet(batch)
    /\ UNCHANGED <<due, running, logRows, refused, export>>

\* The container starts the worker again.
Start ==
    /\ flusher = "ended"
    /\ flusher' = "round" /\ running' = TRUE /\ due' = FALSE
    /\ UNCHANGED <<message, late, buffer, batch, logRows, refused, forsaken, losses, export>>

---------------------------------------------------------------------------
ExportUnchanged == UNCHANGED <<message, late, buffer, batch, flusher, due, running, logRows,
                               refused, forsaken, losses>>

\* initiate_export answers with the job and leaves the work to a task.
Ask ==
    /\ export.status = "none"
    /\ export' = [export EXCEPT !.status = "pending", !.asked = Rows]
    /\ ExportUnchanged

\* _run_export: makedirs stands outside the try, so that its error leaves the
\* job running; the statement of the stream sees the rows of that moment.
Run ==
    /\ export.status = "pending"
    /\ \/ export' = [export EXCEPT !.status = "running", !.cursor = Rows]
       \/ export' = [export EXCEPT !.status = "stuck"]
    /\ ExportUnchanged

\* The next partition of the stream is written.
Write ==
    /\ export.status = "running" /\ export.cursor # {}
    /\ \E part \in SUBSET export.cursor :
        /\ Cardinality(part) = IF Cardinality(export.cursor) < PartSize
                               THEN Cardinality(export.cursor) ELSE PartSize
        /\ export' = [export EXCEPT !.cursor = @ \ part, !.file = @ \union part]
    /\ ExportUnchanged

\* The stream ends, or any step of it raises.
EndExport ==
    /\ export.status = "running"
    /\ \/ export.cursor = {} /\ export' = [export EXCEPT !.status = "completed"]
       \/ export' = [export EXCEPT !.status = "failed"]
    /\ ExportUnchanged

---------------------------------------------------------------------------
Consume == \E e \in Events : Deliver(e) \/ Put(e) \/ Ack(e)
Flushing == Round \/ Leave \/ Flush \/ Close \/ Start
Exporting == Run \/ Write \/ EndExport

AuditNext ==
    \/ \E e \in Events : Emit(e)
    \/ Consume \/ LoseConnection
    \/ Elapse \/ Flushing \/ Signal \/ Kill
    \/ Ask \/ Exporting

AuditTypeOK ==
    /\ message \in [Events -> {"new", "ready", "parsed", "put", "acked"}]
    /\ late \subseteq Events
    /\ buffer \in Seq(Events) /\ Len(buffer) <= QueueSize
    /\ batch \in Seq(Events) /\ Len(batch) <= BatchSize
    /\ flusher \in {"round", "flush", "last", "flushed", "ended"}
    /\ {due, running} \subseteq BOOLEAN
    /\ logRows \in [Events -> 0..MaxLosses + 1]
    /\ refused \subseteq Events /\ forsaken \subseteq Events
    /\ losses \in 0..MaxLosses
    /\ export.status \in {"none", "pending", "running", "stuck", "completed", "failed"}

\* An event that was acknowledged is stored or on its way, unless it did not
\* validate, its batch failed, its process was killed, or it came in between
\* the last flush of a shutdown and the end of its connection.
AckedIsKept ==
    \A e \in Events :
        message[e] = "acked" =>
            \/ e \in ToSet(buffer) \union ToSet(batch)
            \/ logRows[e] > 0
            \/ e \in refused \union forsaken

\* An export that is reported as completed has every row that was stored when
\* it was asked for.
ExportIsWhole == export.status = "completed" => export.asked \subseteq export.file

\* What was queued leaves the process: a batch that does not fill is flushed
\* when the interval has elapsed.
QueuedIsFlushed ==
    \A e \in Events : (e \in ToSet(buffer) ~> e \notin ToSet(buffer) \union ToSet(batch))
=============================================================================
