------------------------------ MODULE ChatPage ------------------------------
(***************************************************************************)
(* One visit of the page Chat in components/workspace/Workspace.tsx, with  *)
(* the requests that it has sent and what the API of backend/runtime       *)
(* answers.                                                                *)
(*                                                                         *)
(* A step of the page is an event handler up to its first await, or the    *)
(* code between two awaits; React shows the state that a step leaves       *)
(* before it takes the next event.  A request is carried out by the API at *)
(* some time after it was sent, its answer arrives at some time after      *)
(* that, in any order, and either may fail instead.                        *)
(*                                                                         *)
(* Abstractions.  A turn is a question with its answer: the page and the   *)
(* API add them together.  The content and the sources of an answer are    *)
(* the number of token and sources events that made it.  A done event is   *)
(* its status.  The list of conversations, which each answer to            *)
(* loadConversations replaces, holds conversations that have existed.      *)
(* A page that has been left shows nothing: what its requests still do to  *)
(* its state is never seen.  lost is history: the load that the last       *)
(* selection started did not arrive where it belongs.                      *)
(***************************************************************************)
EXTENDS Naturals, Sequences, FiniteSets, SequencesExt

CONSTANTS
    Convs,         \* conversations that may come to exist
    NoConv,        \* the absence of one
    Questions,     \* questions that the user may ask, each once
    Earlier,       \* those asked before the page was opened
    MaxParts,      \* events of an answer before its end
    MaxEvents      \* bound: selections, removals and questions

ASSUME NoConvAssumption   == NoConv \notin Convs
ASSUME EarlierAssumption  == Earlier \subseteq Questions /\ IsFiniteSet(Earlier)
ASSUME QuestionAssumption == Questions # {} /\ MaxParts \in Nat

VARIABLES
    mounted,       \* the page has not been left
    active,        \* state of the page
    messages,      \* the turns that are shown
    busy,
    error,         \* an error is shown
    loadVersion,
    submission,    \* what submit is waiting for
    loads,         \* requests for the messages of a conversation
    removals,      \* requests to delete a conversation
    lost,
    saved,         \* the conversations of the API
    answers,       \* its generators: what they have saved and sent
    spent          \* what the user has done so far

pageVars == <<mounted, active, messages, busy, error, loadVersion, lost>>
apiVars  == <<saved, answers>>
chatVars == <<pageVars, apiVars, submission, loads, removals, spent>>

\* Where a submission has a controller of its own.
Fetching == {"posting", "refused", "reading"}

Final  == {"completed", "failed", "cancelled"}
Status == Final \union {"generating"}
Event  == Final \union {"part", "error"}
Turn   == [q : Questions, conv : Convs, status : Status, parts : 0..MaxParts, mine : BOOLEAN]
Conv   == [state : {"none", "open", "deleted"}, rows : Seq(Questions)]
Answer == [state : {"none", "open", "ended"}, status : Status,
           parts : 0..MaxParts, wire : Seq(Event)]

ChatTypeOK ==
    /\ mounted \in BOOLEAN /\ busy \in BOOLEAN /\ error \in BOOLEAN /\ lost \in BOOLEAN
    /\ active \in Convs \union {NoConv}
    /\ messages \in Seq(Turn)
    /\ loadVersion \in Nat
    /\ submission \in [pc : {"idle", "creating", "created", "rejected"} \union Fetching,
                       q : Questions, conv : Convs \union {NoConv},
                       aborted : BOOLEAN, handled : Nat]
    /\ loads \in SUBSET [version : Nat, conv : Convs, state : {"sent", "ok", "failed"},
                         turns : Seq(Turn)]
    /\ removals \in SUBSET [conv : Convs, wasActive : BOOLEAN,
                            state : {"sent", "ok", "failed"}]
    /\ saved \in [Convs -> Conv]
    /\ answers \in [Questions -> Answer]
    /\ spent \in [events : Nat, asked : SUBSET Questions]

NoSubmission == [pc |-> "idle", q |-> CHOOSE q \in Questions : TRUE, conv |-> NoConv,
                 aborted |-> FALSE, handled |-> 0]
NoAnswer  == [state |-> "none", status |-> "generating", parts |-> 0, wire |-> <<>>]
Answered == [state |-> "ended", status |-> "completed", parts |-> MaxParts, wire |-> <<>>]

\* The conversation of the earlier questions.
First == CHOOSE c \in Convs : TRUE

\* The page has mounted.  Earlier questions are in one conversation, with
\* their answers.
ChatInit ==
    /\ mounted = TRUE /\ busy = FALSE /\ error = FALSE /\ lost = FALSE
    /\ active = NoConv /\ messages = <<>>
    /\ loadVersion = 0
    /\ submission = NoSubmission
    /\ loads = {} /\ removals = {}
    /\ \E open \in SUBSET Convs :
          saved = [c \in Convs |->
                     [state |-> IF c \in open \union {First} THEN "open" ELSE "none",
                      rows  |-> IF c = First THEN SetToSeq(Earlier) ELSE <<>>]]
    /\ answers = [q \in Questions |-> IF q \in Earlier THEN Answered ELSE NoAnswer]
    /\ spent = [events |-> 0, asked |-> Earlier]

-----------------------------------------------------------------------------
(* Selecting conversations.                                                *)

\* The controls of the list, of the composer, and the button in it that
\* takes the place of Send while busy.
ListEnabled     == mounted /\ ~busy
ComposerEnabled == mounted /\ ~busy
StopShown       == mounted /\ busy

\* A conversation may be listed once it exists, and a late answer may list
\* it when it has been deleted.
Listed(c) == saved[c].state # "none"

\* select: the selection shows at once, the messages when they arrive.
Select(c) ==
    /\ ListEnabled /\ Listed(c)
    /\ spent.events < MaxEvents /\ spent' = [spent EXCEPT !.events = @ + 1]
    /\ loadVersion' = loadVersion + 1
    /\ active' = c
    /\ error' = FALSE
    /\ loads' = loads \union {[version |-> loadVersion + 1, conv |-> c,
                               state |-> "sent", turns |-> <<>>]}
    /\ UNCHANGED <<mounted, messages, busy, lost, apiVars,
                   submission, removals>>

\* Mutant: whatever arrives is shown.
LoadReturn_Unversioned(r) ==
    /\ r \in loads /\ r.state # "sent"
    /\ loads' = loads \ {r}
    /\ IF r.state = "ok" THEN messages' = r.turns ELSE UNCHANGED messages
    /\ error' = (error \/ r.state = "failed")
    /\ lost' = IF r.version = loadVersion THEN r.state = "failed" \/ active # r.conv ELSE lost
    /\ UNCHANGED <<mounted, active, busy, loadVersion, apiVars,
                   submission, removals, spent>>

\* select, after its await: messages of the last selection are shown, an
\* error of any.
LoadReturn(r) ==
    /\ r \in loads /\ r.state # "sent"
    /\ loads' = loads \ {r}
    /\ IF r.state = "ok" /\ r.version = loadVersion THEN messages' = r.turns ELSE UNCHANGED messages
    /\ error' = (error \/ r.state = "failed")
    /\ lost' = IF r.version = loadVersion THEN r.state = "failed" \/ active # r.conv ELSE lost
    /\ UNCHANGED <<mounted, active, busy, loadVersion, apiVars,
                   submission, removals, spent>>

\* The button and the option for a new conversation.
NewConversation ==
    /\ ListEnabled
    /\ spent.events < MaxEvents /\ spent' = [spent EXCEPT !.events = @ + 1]
    /\ loadVersion' = loadVersion + 1
    /\ active' = NoConv /\ messages' = <<>> /\ error' = FALSE /\ lost' = FALSE
    /\ UNCHANGED <<mounted, busy, apiVars, submission, loads, removals>>

\* remove: active is remembered as it is when the user clicks.
Delete(c) ==
    /\ ListEnabled /\ Listed(c)
    /\ spent.events < MaxEvents /\ spent' = [spent EXCEPT !.events = @ + 1]
    /\ removals' = removals \union {[conv |-> c, wasActive |-> active = c, state |-> "sent"]}
    /\ UNCHANGED <<pageVars, apiVars, submission, loads>>

\* remove, after its await: the selection is cleared, whatever it is now.
RemoveReturn(r) ==
    /\ r \in removals /\ r.state # "sent"
    /\ removals' = removals \ {r}
    /\ IF r.state = "ok" /\ r.wasActive
       THEN active' = NoConv /\ messages' = <<>> /\ lost' = FALSE
       ELSE UNCHANGED <<active, messages, lost>>
    /\ error' = (error \/ r.state = "failed")
    /\ UNCHANGED <<mounted, busy, loadVersion, apiVars, submission, loads, spent>>

-----------------------------------------------------------------------------
(* Asking a question.                                                      *)

Pending == \E r \in loads : r.version = loadVersion

NewTurn(q, c) == [q |-> q, conv |-> c, status |-> "generating", parts |-> 0, mine |-> TRUE]

\* submit, up to its first await.
Submit(q) ==
    /\ ComposerEnabled
    /\ q \notin spent.asked /\ spent.events < MaxEvents
    /\ spent' = [events |-> spent.events + 1, asked |-> spent.asked \union {q}]
    /\ busy' = TRUE /\ error' = FALSE
    /\ loadVersion' = loadVersion + 1
    /\ submission' = [NoSubmission EXCEPT !.q = q, !.conv = active,
                                          !.pc = IF active = NoConv THEN "creating" ELSE "posting"]
    /\ messages' = IF active = NoConv THEN messages ELSE Append(messages, NewTurn(q, active))
    /\ lost' = (lost \/ Pending)
    /\ UNCHANGED <<mounted, active, apiVars, loads, removals>>

\* submit goes on with the conversation that was created for the question.
Created ==
    LET c == submission.conv IN
    /\ submission.pc = "created"
    /\ submission' = [submission EXCEPT !.pc = "posting"]
    /\ IF mounted THEN active' = c /\ messages' = <<NewTurn(submission.q, c)>> /\ lost' = FALSE
       ELSE UNCHANGED <<active, messages, lost>>
    /\ UNCHANGED <<mounted, busy, error, loadVersion, apiVars,
                   loads, removals, spent>>

\* How many of the events of a stream from one to another are parts.
PartsOf(wire, from, to) == Cardinality({i \in from .. to : wire[i] = "part"})

\* What a turn shows after the events from + 1 .. to of its stream.
Applied(t, wire, from, to) ==
    LET ends == {i \in from + 1 .. to : wire[i] \in Final}
    IN [t EXCEPT !.parts  = @ + PartsOf(wire, from + 1, to),
                 !.status = IF ends = {} THEN @ ELSE wire[CHOOSE i \in ends : TRUE]]

Shown(t, wire, from, to) ==
    IF t.mine /\ t.q = submission.q THEN Applied(t, wire, from, to) ELSE t

\* readStream reads what n more frames complete, and handles them.
Read(n) ==
    LET wire == answers[submission.q].wire
        to   == submission.handled + n
    IN /\ submission.pc = "reading" /\ ~submission.aborted
       /\ n > 0 /\ to <= Len(wire)
       /\ submission' = [submission EXCEPT !.handled = to]
       /\ messages' = [i \in DOMAIN messages |-> Shown(messages[i], wire, submission.handled, to)]
       /\ error' = (error \/ \E i \in submission.handled + 1 .. to : wire[i] = "error")
       /\ UNCHANGED <<mounted, active, busy, loadVersion, lost, apiVars,
                      loads, removals, spent>>

\* A done event was among the frames.
Completed ==
    \E i \in 1 .. submission.handled : answers[submission.q].wire[i] \in Final

\* The end of submit: its catch, without an error for an abort, and its
\* finally.
Settle(failed) ==
    /\ submission' = NoSubmission
    /\ busy' = FALSE
    /\ error' = (error \/ failed)
    /\ messages' = [i \in DOMAIN messages |->
                       [messages[i] EXCEPT !.status = IF @ = "generating" THEN "cancelled" ELSE @]]
    /\ UNCHANGED <<mounted, active, loadVersion, lost, apiVars,
                   loads, removals, spent>>

\* Mutant: an answer with an error skips the finally.
Refused_Returns ==
    /\ submission.pc \in {"rejected", "refused"} /\ ~submission.aborted
    /\ submission' = NoSubmission
    /\ error' = TRUE
    /\ UNCHANGED <<mounted, active, messages, busy, loadVersion, lost, apiVars,
                   loads, removals, spent>>

\* The API has answered with an error, or has not been reached.
Refused == submission.pc \in {"rejected", "refused"} /\ ~submission.aborted /\ Settle(TRUE)

\* read rejects because the connection was lost.
ConnectionLost == submission.pc = "reading" /\ ~submission.aborted /\ Settle(TRUE)

\* Mutant: a stream that ends is taken for a whole one.
StreamEnds_Trusting ==
    /\ submission.pc = "reading" /\ ~submission.aborted
    /\ answers[submission.q].state = "ended"
    /\ submission.handled = Len(answers[submission.q].wire)
    /\ Settle(FALSE)

\* The stream is over: without a done event it ended early.
StreamEnds ==
    /\ submission.pc = "reading" /\ ~submission.aborted
    /\ answers[submission.q].state = "ended"
    /\ submission.handled = Len(answers[submission.q].wire)
    /\ Settle(~Completed)

\* The button Stop: the controller is that of the last fetch, so that a
\* conversation that is being created is not stopped.
Stop ==
    /\ StopShown /\ submission.pc \in Fetching
    /\ submission' = [submission EXCEPT !.aborted = TRUE]
    /\ UNCHANGED <<pageVars, apiVars, loads, removals, spent>>

\* fetch or read rejects with an AbortError.
Aborted ==
    /\ submission.pc # "idle" /\ submission.aborted
    /\ Settle(FALSE)

\* The page is left and its state is gone: its cleanup aborts the last
\* fetch.  A question whose conversation is being created is asked anyway.
Leave ==
    /\ mounted
    /\ mounted' = FALSE
    /\ active' = NoConv /\ messages' = <<>> /\ error' = FALSE /\ lost' = FALSE
    /\ loads' = {}
    /\ submission' = [submission EXCEPT !.aborted = @ \/ submission.pc \in Fetching]
    /\ UNCHANGED <<busy, loadVersion, apiVars, removals, spent>>

-----------------------------------------------------------------------------
(* The API.                                                                *)

\* A request that reads is answered with what is saved now, or fails.
ServeLoad(r) ==
    LET rows  == saved[r.conv].rows
        turns == [i \in DOMAIN rows |-> [q |-> rows[i], conv |-> r.conv,
                     status |-> answers[rows[i]].status, parts |-> answers[rows[i]].parts,
                     mine |-> FALSE]]
    IN /\ r \in loads /\ r.state = "sent"
       /\ \/ /\ saved[r.conv].state = "open"
             /\ loads' = (loads \ {r}) \union {[r EXCEPT !.state = "ok", !.turns = turns]}
          \/ loads' = (loads \ {r}) \union {[r EXCEPT !.state = "failed"]}
       /\ UNCHANGED <<pageVars, apiVars, submission, removals, spent>>

\* A conversation is deleted with its messages.
ServeRemove(r) ==
    /\ r \in removals /\ r.state = "sent"
    /\ \/ /\ saved[r.conv].state = "open"
          /\ removals' = (removals \ {r}) \union {[r EXCEPT !.state = "ok"]}
          /\ saved' = [saved EXCEPT ![r.conv] = [state |-> "deleted", rows |-> <<>>]]
       \/ /\ removals' = (removals \ {r}) \union {[r EXCEPT !.state = "failed"]}
          /\ UNCHANGED saved
    /\ UNCHANGED <<pageVars, answers, submission, loads, spent>>

ServeCreate ==
    /\ submission.pc = "creating"
    /\ \/ \E c \in Convs :
             /\ saved[c].state = "none"
             /\ saved' = [saved EXCEPT ![c].state = "open"]
             /\ submission' = [submission EXCEPT !.pc = "created", !.conv = c]
       \/ submission' = [submission EXCEPT !.pc = "rejected"] /\ UNCHANGED saved
    /\ UNCHANGED <<pageVars, answers, loads, removals, spent>>

\* send_message, up to the response: question and answer are saved.
ServePost ==
    LET c == submission.conv IN
    /\ submission.pc = "posting"
    /\ \/ /\ saved[c].state = "open"
          /\ saved' = [saved EXCEPT ![c].rows = Append(@, submission.q)]
          /\ answers' = [answers EXCEPT ![submission.q].state = "open"]
          /\ submission' = [submission EXCEPT !.pc = "reading"]
       \/ submission' = [submission EXCEPT !.pc = "refused"] /\ UNCHANGED apiVars
    /\ UNCHANGED <<pageVars, loads, removals, spent>>

Parts(wire) == PartsOf(wire, 1, Len(wire))

\* send_message: sources or a token.
Generate(q) ==
    /\ answers[q].state = "open" /\ Parts(answers[q].wire) < MaxParts
    /\ answers' = [answers EXCEPT ![q].wire = Append(@, "part")]
    /\ UNCHANGED <<pageVars, saved, submission, loads, removals, spent>>

\* persist: what is left of the answer when the generator ends, unless its
\* conversation has been deleted.
Persisted(q, status) ==
    IF \E c \in Convs : \E i \in DOMAIN saved[c].rows : saved[c].rows[i] = q
    THEN [answers[q] EXCEPT !.state = "ended", !.status = status,
                            !.parts = Parts(answers[q].wire)]
    ELSE [answers[q] EXCEPT !.state = "ended"]

Ending(status) == IF status = "failed" THEN <<"error", status>> ELSE <<status>>

\* Mutant: done is sent before the answer has been saved, which may fail.
Finish_Early(q, status) ==
    /\ answers[q].state = "open"
    /\ \/ answers' = [answers EXCEPT ![q] = [Persisted(q, status) EXCEPT !.wire = @ \o Ending(status)]]
       \/ answers' = [answers EXCEPT ![q] = [@ EXCEPT !.state = "ended", !.wire = @ \o Ending(status)]]
    /\ UNCHANGED <<pageVars, saved, submission, loads, removals, spent>>

\* send_message: the answer is saved with its status before done is sent.
Finish(q, status) ==
    /\ answers[q].state = "open"
    /\ answers' = [answers EXCEPT ![q] = [Persisted(q, status) EXCEPT !.wire = @ \o Ending(status)]]
    /\ UNCHANGED <<pageVars, saved, submission, loads, removals, spent>>

\* send_message: the connection breaks, or the page has aborted it: what there
\* is of the answer is saved, if the API lives; as cancelled or, when the
\* citations are invalid, as failed, but as completed when the generator is
\* closed at a yield.
Break(q) ==
    /\ answers[q].state = "open"
    /\ \E row \in {Persisted(q, status) : status \in Final}
                  \union {[answers[q] EXCEPT !.state = "ended"]} :
           answers' = [answers EXCEPT ![q] = row]
    /\ UNCHANGED <<pageVars, saved, submission, loads, removals, spent>>

-----------------------------------------------------------------------------
User ==
    \/ \E c \in Convs : Select(c)
    \/ NewConversation
    \/ \E c \in Convs : Delete(c)
    \/ \E q \in Questions : Submit(q)
    \/ Stop
    \/ Leave

Page ==
    \/ \E r \in loads : LoadReturn(r)
    \/ \E r \in removals : RemoveReturn(r)
    \/ Created \/ Refused \/ StreamEnds \/ Aborted
    \/ \E n \in 1 .. MaxParts + 2 : Read(n)

Api ==
    \/ \E r \in loads : ServeLoad(r)
    \/ \E r \in removals : ServeRemove(r)
    \/ ServeCreate \/ ServePost
    \/ \E q \in Questions : Generate(q) \/ Break(q) \/ \E s \in {"completed", "failed"} : Finish(q, s)

ChatNext == User \/ Page \/ Api \/ ConnectionLost

ChatSpec == ChatInit /\ [][ChatNext]_chatVars /\ WF_chatVars(Page) /\ WF_chatVars(Api)

-----------------------------------------------------------------------------
(* What must hold.                                                         *)

\* The turns that are shown are those of the conversation that is selected,
\* unless its messages are still to come, or did not arrive where they
\* belong: the load failed, a question overtook it, or the removal of the
\* conversation that was selected before cleared the selection.
ShowsSelected ==
    mounted => \/ lost \/ Pending
               \/ \A i \in DOMAIN messages : messages[i].conv = active

\* An answer that is shown as completed has been saved as it is shown, or
\* its conversation has been deleted.
CompletedIsSaved ==
    \A i \in DOMAIN messages :
        messages[i].status = "completed" /\ saved[messages[i].conv].state = "open" =>
            /\ answers[messages[i].q].status = "completed"
            /\ messages[i].parts = answers[messages[i].q].parts

\* When a question comes to its end, its done event has been handled, the
\* user has stopped it or left the page, or an error is shown.
EarlyEndIsTold ==
    [][busy /\ ~busy' => Completed \/ submission.aborted \/ error']_chatVars

\* A question comes to its end, whatever the API and the network do.
QuestionsEnd == busy ~> ~busy
=============================================================================
