-------------------------------- MODULE Chat --------------------------------
(***************************************************************************)
(* Answers of the supported runtime: send_message of                       *)
(* backend/runtime/main.py and its generator events(), which streams an    *)
(* answer to a client and stores it when it ends; the messages endpoint,   *)
(* which shows stored answers; and what goes on beside them: conversations *)
(* and documents are removed, clients leave, providers fail, the process   *)
(* stops.                                                                  *)
(*                                                                         *)
(* A stream is one POST of a question.  Its generator is suspended either  *)
(* at a yield, while the event goes to the client, or at an await.  A      *)
(* client that leaves meets it in one of both: at an await, as a           *)
(* CancelledError; at a yield, as the GeneratorExit of a generator that is *)
(* closed, which no except clause of events() catches.                     *)
(*                                                                         *)
(* Abstractions.  An answer is its number of tokens, with the fact that    *)
(* the provider finished it.  The sources of an answer are the documents   *)
(* whose excerpts it carries.  The process is up again as soon as it       *)
(* stopped.                                                                *)
(***************************************************************************)
EXTENDS Naturals

CONSTANTS
    Streams,       \* questions asked, and the assistant messages they create
    Convs,         \* conversations
    ConvOf,        \* ConvOf[s] : the conversation the question belongs to
    Docs,          \* documents that search may find
    Views,         \* requests to show a conversation
    Configured,    \* a model provider is configured
    MaxTokens,     \* tokens of the longest answer
    MaxCrashes     \* crashes of the process that are explored

ASSUME ConvOfAssumption     == ConvOf \in [Streams -> Convs]
ASSUME ConfiguredAssumption == Configured \in BOOLEAN
ASSUME MaxTokensAssumption  == MaxTokens \in Nat \ {0}
ASSUME CrashBoundAssumption == MaxCrashes \in Nat

VARIABLES
    convs,         \* conversations that exist
    listed,        \* documents that exist and are indexed
    msg,           \* msg[s]    : the assistant's row
    outcome,       \* outcome[s]: audit records "chat.<status>" of the stream
    stream,        \* stream[s] : the generator
    client,        \* client[s] : what the asking client has seen
    view,          \* view[v]   : a request of the messages endpoint
    crashes

vars == <<convs, listed, msg, outcome, stream, client, view, crashes>>

Final     == {"completed", "cancelled", "failed"}
MsgStatus == {"none", "generating", "removed"} \union Final
StreamPc  == {"new", "commit", "start", "yield", "await", "finally", "store",
              "closed"}
Event     == {"meta", "sources", "token", "only", "error", "done"}

NoMsg    == [status |-> "none", tokens |-> 0, sources |-> {}]
NoStream == [pc |-> "new", event |-> "meta", answer |-> 0,
             status |-> "completed", sources |-> {}, whole |-> FALSE,
             closing |-> FALSE]
NoClient == [there |-> TRUE, heard |-> 0, told |-> "none"]
NoView   == [pc |-> "idle", rows |-> {}, gone |-> {}, shown |-> {}]

Messages   == [status : MsgStatus, tokens : 0..MaxTokens,
               sources : SUBSET Docs]
Generators == [pc : StreamPc, event : Event, answer : 0..MaxTokens,
               status : Final, sources : SUBSET Docs, whole : BOOLEAN,
               closing : BOOLEAN]
Clients    == [there : BOOLEAN, heard : 0..MaxTokens,
               told : Final \union {"none"}]
Replies    == [pc : {"idle", "rows", "replied"}, rows : SUBSET Docs,
               gone : SUBSET Docs, shown : SUBSET Docs]

TypeOK ==
    /\ convs \in SUBSET Convs
    /\ listed \in SUBSET Docs
    /\ msg \in [Streams -> Messages]
    /\ outcome \in [Streams -> SUBSET Final]
    /\ stream \in [Streams -> Generators]
    /\ client \in [Streams -> Clients]
    /\ view \in [Views -> Replies]
    /\ crashes \in 0..MaxCrashes

Init ==
    /\ convs = Convs
    /\ listed = Docs
    /\ msg = [s \in Streams |-> NoMsg]
    /\ outcome = [s \in Streams |-> {}]
    /\ stream = [s \in Streams |-> NoStream]
    /\ client = [s \in Streams |-> NoClient]
    /\ view = [v \in Views |-> NoView]
    /\ crashes = 0

Stored(s) == msg[s].status \notin {"none", "removed"}

-----------------------------------------------------------------------------
(* The handler and its generator.                                          *)

At(s, pc) == stream[s].pc = pc

Goto(s, pc) == stream' = [stream EXCEPT ![s].pc = pc]

Yield(s, event) ==
    stream' = [stream EXCEPT ![s] = [@ EXCEPT !.pc = "yield", !.event = event]]

\* Control leaves the try of events() with this status: the finally is next.
Leave(s, status, closing) ==
    stream' = [stream EXCEPT ![s] = [@ EXCEPT !.pc = "finally",
                                              !.status = status,
                                              !.closing = closing]]

\* The generator yields an error event, with the status failed.
Report(s) ==
    stream' = [stream EXCEPT ![s] = [@ EXCEPT !.pc = "yield",
                                              !.event = "error",
                                              !.status = "failed"]]

\* send_message: the conversation is authorized and documents are searched.
Ask(s) ==
    /\ At(s, "new")
    /\ ConvOf[s] \in convs
    /\ \E hits \in SUBSET listed :
          stream' = [stream EXCEPT ![s] = [@ EXCEPT !.pc = "commit",
                                                    !.sources = hits]]
    /\ UNCHANGED <<convs, listed, msg, outcome, client, view, crashes>>

\* send_message: question and empty answer are committed together, which
\* fails when the conversation is gone.
Begin(s) ==
    /\ At(s, "commit")
    /\ \/ /\ ConvOf[s] \in convs
          /\ msg' = [msg EXCEPT ![s].status = "generating"]
          /\ Goto(s, "start")
       \/ /\ ConvOf[s] \notin convs
          /\ Goto(s, "closed")
          /\ UNCHANGED msg
    /\ UNCHANGED <<convs, listed, outcome, client, view, crashes>>

\* StreamingResponse takes the first event.
Open(s) ==
    /\ At(s, "start")
    /\ Yield(s, "meta")
    /\ UNCHANGED <<convs, listed, msg, outcome, client, view, crashes>>

\* The client that is there has received the event.
Hears(s) ==
    IF ~client[s].there THEN UNCHANGED client
    ELSE CASE stream[s].event = "done" ->
                client' = [client EXCEPT ![s].told = stream[s].status]
           [] stream[s].event \in {"token", "only"} ->
                client' = [client EXCEPT ![s].heard = stream[s].answer]
           [] OTHER -> UNCHANGED client

\* events: the generator goes on after a yield.
Resume(s) ==
    /\ At(s, "yield")
    /\ Hears(s)
    /\ LET event    == stream[s].event
           generate == stream[s].sources # {} /\ Configured
       IN \/ event = "meta" /\ Yield(s, "sources")
          \/ event = "sources" /\ generate /\ Goto(s, "await")
          \/ /\ event = "sources" /\ ~generate
             /\ stream' = [stream EXCEPT ![s] = [@ EXCEPT !.event = "only",
                                                          !.answer = 1,
                                                          !.whole = TRUE]]
          \/ event = "token" /\ Goto(s, "await")
          \/ event \in {"only", "error"} /\ Goto(s, "finally")
          \/ event = "done" /\ Goto(s, "closed")
    /\ UNCHANGED <<convs, listed, msg, outcome, view, crashes>>

\* events: the provider produces a token, and no disconnect is noticed.
Token(s) ==
    /\ At(s, "await")
    /\ stream[s].answer < MaxTokens
    /\ stream' = [stream EXCEPT ![s] = [@ EXCEPT !.pc = "yield",
                                                 !.event = "token",
                                                 !.answer = stream[s].answer + 1]]
    /\ UNCHANGED <<convs, listed, msg, outcome, client, view, crashes>>

\* events: after the loop, the citations of the answer are valid, or not.
Checked(s, status, whole) ==
    \/ stream' = [stream EXCEPT ![s] = [@ EXCEPT !.pc = "finally",
                                                 !.status = status,
                                                 !.whole = whole]]
    \/ stream' = [stream EXCEPT ![s] = [@ EXCEPT !.pc = "yield",
                                                 !.event = "error",
                                                 !.status = "failed",
                                                 !.whole = whole]]

\* events: the provider ends a completed answer.
Finish(s) ==
    /\ At(s, "await")
    /\ stream[s].answer > 0
    /\ Checked(s, "completed", TRUE)
    /\ UNCHANGED <<convs, listed, msg, outcome, client, view, crashes>>

\* events: is_disconnected answers true, with the next token in hand.
Notice(s) ==
    /\ At(s, "await")
    /\ ~client[s].there
    /\ Checked(s, "cancelled", FALSE)
    /\ UNCHANGED <<convs, listed, msg, outcome, client, view, crashes>>

\* events: the provider raises, or 120 seconds are over at an await.
ProviderFails(s) ==
    /\ At(s, "await")
    /\ Report(s)
    /\ UNCHANGED <<convs, listed, msg, outcome, client, view, crashes>>

\* The response is cancelled while the generator awaits the provider.
Cancel(s) ==
    /\ At(s, "await")
    /\ ~client[s].there
    /\ Leave(s, "cancelled", TRUE)
    /\ UNCHANGED <<convs, listed, msg, outcome, client, view, crashes>>

\* The response ends while its generator is at a yield: the generator is
\* closed there, with the status it has.  Before the first event there is
\* nothing to close, and after "done" nothing left to run.
Close(s) ==
    \/ At(s, "yield") /\ stream[s].event # "done"
       /\ Leave(s, stream[s].status, TRUE)
    \/ At(s, "yield") /\ stream[s].event = "done" /\ Goto(s, "closed")
    \/ At(s, "start") /\ Goto(s, "closed")

Drop(s) ==
    /\ ~client[s].there
    /\ Close(s)
    /\ UNCHANGED <<convs, listed, msg, outcome, client, view, crashes>>

\* Mutant: the generator that is cancelled at a yield goes on to "done".
SlowClient_GoesOn(s) ==
    /\ At(s, "yield")
    /\ stream[s].event = "token"
    /\ Leave(s, stream[s].status, FALSE)
    /\ Hears(s)
    /\ UNCHANGED <<convs, listed, msg, outcome, view, crashes>>

\* The 120 seconds are over while a token waits for a slow client: the task
\* is cancelled outside the generator, and no timeout is seen inside.  The
\* client is there, with the token or without it, and its response ends.
SlowClient(s) ==
    /\ At(s, "yield")
    /\ stream[s].event = "token"
    /\ Leave(s, stream[s].status, TRUE)
    /\ Hears(s) \/ UNCHANGED client
    /\ UNCHANGED <<convs, listed, msg, outcome, view, crashes>>

\* Mutant: persist() is awaited without a shield.
Shield_Missing(s) ==
    /\ stream[s].pc \in {"finally", "store"}
    /\ ~client[s].there
    /\ Goto(s, "closed")
    /\ UNCHANGED <<convs, listed, msg, outcome, client, view, crashes>>

\* The response is cancelled in the finally: persist() is shielded.
Shield(s) ==
    /\ stream[s].pc \in {"finally", "store"}
    /\ ~client[s].there
    /\ ~stream[s].closing
    /\ stream' = [stream EXCEPT ![s].closing = TRUE]
    /\ UNCHANGED <<convs, listed, msg, outcome, client, view, crashes>>

\* After the finally: "done", unless the generator is being closed.
AfterFinally(s) == IF stream[s].closing THEN Goto(s, "closed")
                                        ELSE Yield(s, "done")

\* Mutant: "done" is sent before the answer is stored.
PersistLoad_Skipped(s) ==
    /\ At(s, "finally")
    /\ AfterFinally(s)
    /\ UNCHANGED <<convs, listed, msg, outcome, client, view, crashes>>

\* persist: the row is read, and nothing is stored when it is gone.
PersistLoad(s) ==
    /\ At(s, "finally")
    /\ \/ Stored(s) /\ Goto(s, "store")
       \/ ~Stored(s) /\ AfterFinally(s)
    /\ UNCHANGED <<convs, listed, msg, outcome, client, view, crashes>>

\* Mutant: the audit record is forgotten.
PersistCommit_Unaudited(s) ==
    /\ At(s, "store")
    /\ Stored(s)
    /\ msg' = [msg EXCEPT ![s] = [status |-> stream[s].status,
                                  tokens |-> stream[s].answer,
                                  sources |-> stream[s].sources]]
    /\ AfterFinally(s)
    /\ UNCHANGED <<convs, listed, outcome, client, view, crashes>>

\* persist: answer, status, sources and audit record in one commit, which
\* raises when the row was removed after it was read.
PersistCommit(s) ==
    /\ At(s, "store")
    /\ \/ /\ Stored(s)
          /\ msg' = [msg EXCEPT ![s] = [status |-> stream[s].status,
                                        tokens |-> stream[s].answer,
                                        sources |-> stream[s].sources]]
          /\ outcome' = [outcome EXCEPT ![s] = @ \union {stream[s].status}]
          /\ AfterFinally(s)
       \/ ~Stored(s) /\ Goto(s, "closed") /\ UNCHANGED <<msg, outcome>>
    /\ UNCHANGED <<convs, listed, client, view, crashes>>

Advance(s) ==
    \/ Begin(s) \/ Open(s) \/ Resume(s) \/ Token(s) \/ Finish(s)
    \/ Notice(s) \/ ProviderFails(s) \/ Cancel(s) \/ Drop(s) \/ SlowClient(s)
    \/ Shield(s) \/ PersistLoad(s) \/ PersistCommit(s)

-----------------------------------------------------------------------------
(* What goes on beside a stream.                                           *)

\* The client closes its connection.
Disconnect(s) ==
    /\ client[s].there
    /\ stream[s].pc \notin {"new", "closed"}
    /\ client' = [client EXCEPT ![s].there = FALSE]
    /\ UNCHANGED <<convs, listed, msg, outcome, stream, view, crashes>>

\* remove_conversation: the foreign key removes the messages.
RemoveConversation(c) ==
    /\ c \in convs
    /\ convs' = convs \ {c}
    /\ msg' = [s \in Streams |->
                  IF ConvOf[s] = c /\ Stored(s)
                  THEN [NoMsg EXCEPT !.status = "removed"] ELSE msg[s]]
    /\ UNCHANGED <<listed, outcome, stream, client, view, crashes>>

\* remove_document commits.
RemoveDocument(d) ==
    /\ d \in listed
    /\ listed' = listed \ {d}
    /\ UNCHANGED <<convs, msg, outcome, stream, client, view, crashes>>

\* messages: the rows of a conversation are read.
ViewRows(v, c) ==
    /\ view[v].pc = "idle"
    /\ c \in convs
    /\ view' = [view EXCEPT ![v] =
          [pc |-> "rows",
           rows |-> UNION {msg[s].sources :
                              s \in {q \in Streams : ConvOf[q] = c}},
           gone |-> Docs \ listed,
           shown |-> {}]]
    /\ UNCHANGED <<convs, listed, msg, outcome, stream, client, crashes>>

\* Mutant: the stored sources are shown as they are.
ViewReply_Unfiltered(v) ==
    /\ view[v].pc = "rows"
    /\ view' = [view EXCEPT ![v].pc = "replied", ![v].shown = view[v].rows]
    /\ UNCHANGED <<convs, listed, msg, outcome, stream, client, crashes>>

\* messages: the documents that exist are read, and the sources filtered.
ViewReply(v) ==
    /\ view[v].pc = "rows"
    /\ view' = [view EXCEPT ![v].pc = "replied",
                            ![v].shown = view[v].rows \intersect listed]
    /\ UNCHANGED <<convs, listed, msg, outcome, stream, client, crashes>>

\* The process stops: generators end without their finally.
Crash ==
    /\ crashes < MaxCrashes
    /\ crashes' = crashes + 1
    /\ stream' = [s \in Streams |->
                     IF At(s, "new") THEN stream[s]
                                     ELSE [stream[s] EXCEPT !.pc = "closed"]]
    /\ client' = [s \in Streams |->
                     IF At(s, "new") THEN client[s]
                                     ELSE [client[s] EXCEPT !.there = FALSE]]
    /\ view' = [v \in Views |-> IF view[v].pc = "rows" THEN NoView ELSE view[v]]
    /\ UNCHANGED <<convs, listed, msg, outcome>>

Next ==
    \/ \E s \in Streams : Ask(s) \/ Advance(s) \/ Disconnect(s)
    \/ \E c \in Convs : RemoveConversation(c)
    \/ \E d \in Docs : RemoveDocument(d)
    \/ \E v \in Views : (\E c \in Convs : ViewRows(v, c)) \/ ViewReply(v)
    \/ Crash

\* A stream that can go on does: the provider has timeouts, and a client
\* takes what it is sent or is found gone.
Fairness == \A s \in Streams : WF_vars(Advance(s))

Spec == Init /\ [][Next]_vars /\ Fairness

-----------------------------------------------------------------------------
(* What must hold.                                                         *)

StoredAsTold(s) ==
    client[s].told # "none" /\ Stored(s) =>
        msg[s].status = client[s].told /\ msg[s].tokens = client[s].heard

\* What a client was told is what is stored: when "done" with a status has
\* arrived, the row has that status and the very tokens that were sent,
\* unless the conversation was removed.
DoneMeansStored == \A s \in Streams : StoredAsTold(s)

ToldIsWhole(s) ==
    /\ client[s].told = "completed" =>
          stream[s].whole /\ client[s].heard = stream[s].answer
    /\ msg[s].status = "completed" /\ ~stream[s].whole =>
          client[s].told = "none" /\ stream[s].closing

\* A client that is told of a completed answer has received all that the
\* provider made, and the provider had come to its end.  A short answer may
\* still be stored as completed (CompletedIsWhole), for a client that left or
\* was too slow for the 120 seconds; but only of a generator that was closed,
\* and then the client, there or not, is not told that it is completed.
ShortIsNotTold == \A s \in Streams : ToldIsWhole(s)

\* An answer marked completed is the whole answer of the provider.
CompletedIsWhole ==
    \A s \in Streams : msg[s].status = "completed" => stream[s].whole

Audited(s) ==
    /\ msg[s].status \in Final => outcome[s] = {msg[s].status}
    /\ msg[s].status \in {"none", "generating"} => outcome[s] = {}

\* Every stored end of an answer has its audit record, and only that one.
OutcomeIsAudited == \A s \in Streams : Audited(s)

\* Sources of a document that was deleted before the request are not shown,
\* also when the answer that cites it is stored while the request runs.
DeletedIsNotShown ==
    \A v \in Views : view[v].shown \intersect view[v].gone = {}

\* The end of an answer is never rewritten, only removed.
EndIsFinal ==
    [][\A s \in Streams : msg[s].status \in Final =>
          msg'[s] = msg[s] \/ msg'[s].status = "removed"]_vars

\* A stream that has sent its first event stores an end of its answer.
OpenedEnds ==
    \A s \in Streams :
        stream[s].pc \in {"yield", "await", "finally", "store"} ~>
            (msg[s].status \in Final \union {"removed"} \/ crashes > 0)

-----------------------------------------------------------------------------
(* Why it holds: the inductive invariant of ChatProofs.                    *)

Sending(s, events) == At(s, "yield") /\ stream[s].event \in events

\* The generator runs, and has not stored anything yet.
Running(s) == \/ stream[s].pc \in {"start", "await", "finally", "store"}
              \/ Sending(s, Event \ {"done"})

\* The row follows the generator.
RowInv(s) ==
    /\ stream[s].pc \in {"new", "commit"} => msg[s].status = "none"
    /\ Running(s) => msg[s].status \in {"generating", "removed"}
    /\ Sending(s, {"done"}) /\ Stored(s) =>
          /\ msg[s].status = stream[s].status
          /\ msg[s].tokens = stream[s].answer

\* A client that is there has heard what was yielded before, until the
\* generator is closed.
HeardInv(s) ==
    /\ client[s].told # "none" => At(s, "closed")
    /\ client[s].there /\ ~stream[s].closing /\ ~Sending(s, {"token", "only"}) =>
          client[s].heard = stream[s].answer

\* Only a generator that was closed ends a short answer as completed.
ShortInv(s) ==
    /\ Sending(s, {"error"}) => stream[s].status # "completed"
    /\ Sending(s, {"only"}) => stream[s].whole
    /\ stream[s].closing => stream[s].pc \in {"finally", "store", "closed"}
    /\ stream[s].pc \in {"finally", "store"} \/ Sending(s, {"done"}) =>
          \/ stream[s].status # "completed"
          \/ stream[s].whole
          \/ stream[s].closing

StreamInv(s) == /\ RowInv(s) /\ HeardInv(s) /\ ShortInv(s)
                /\ StoredAsTold(s) /\ ToldIsWhole(s) /\ Audited(s)

\* A document that was gone when a view began stays gone.
ViewInv == \A v \in Views : view[v].gone \intersect listed = {}

ChatInv ==
    /\ TypeOK
    /\ \A s \in Streams : StreamInv(s)
    /\ ViewInv
    /\ DeletedIsNotShown
=============================================================================
