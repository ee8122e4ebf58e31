----------------------------- MODULE ChatProofs -----------------------------
(***************************************************************************)
(* Proofs about Chat, for any streams, conversations, documents and views, *)
(* answers of any length, and any number of crashes.                       *)
(***************************************************************************)
EXTENDS Chat, TLAPS

-----------------------------------------------------------------------------
(* Types.                                                                  *)

\* The values that the actions assign belong to their types.
LEMMA Members ==
    /\ "commit" \in StreamPc /\ "start" \in StreamPc /\ "yield" \in StreamPc
    /\ "await" \in StreamPc /\ "finally" \in StreamPc /\ "store" \in StreamPc
    /\ "closed" \in StreamPc
    /\ "meta" \in Event /\ "sources" \in Event /\ "token" \in Event
    /\ "only" \in Event /\ "error" \in Event /\ "done" \in Event
    /\ "completed" \in Final /\ "cancelled" \in Final /\ "failed" \in Final
  BY DEF StreamPc, Event, Final

\* A token more, or the only one, is within the bound.
LEMMA Counts ==
    /\ 1 \in 0..MaxTokens
    /\ \A n \in 0..MaxTokens : n < MaxTokens => n + 1 \in 0..MaxTokens
  BY MaxTokensAssumption

Typed == stream \in [Streams -> Generators]

\* The ways to move a generator keep its type.
LEMMA Moves ==
    ASSUME Typed, NEW s \in Streams
    PROVE  /\ \A pc \in StreamPc : Goto(s, pc) => Typed'
           /\ \A event \in Event : Yield(s, event) => Typed'
           /\ \A status \in Final, closing \in BOOLEAN :
                 Leave(s, status, closing) => Typed'
           /\ Report(s) => Typed'
<1> USE Members DEF Typed, Generators
<1>1. ASSUME NEW pc \in StreamPc, Goto(s, pc) PROVE Typed'
  BY <1>1 DEF Goto
<1>2. ASSUME NEW event \in Event, Yield(s, event) PROVE Typed'
  BY <1>2 DEF Yield
<1>3. ASSUME NEW status \in Final, NEW closing \in BOOLEAN,
             Leave(s, status, closing)
      PROVE  Typed'
  BY <1>3 DEF Leave
<1>4. CASE Report(s)
  BY <1>4 DEF Report
<1> QED
  BY <1>1, <1>2, <1>3, <1>4

LEMMA CheckedTyped ==
    ASSUME Typed, NEW s \in Streams, NEW status \in Final,
           NEW whole \in BOOLEAN, Checked(s, status, whole)
    PROVE  Typed'
<1> USE Members DEF Typed, Generators
<1>1. CASE stream' = [stream EXCEPT ![s] = [@ EXCEPT !.pc = "finally",
                                            !.status = status,
                                            !.whole = whole]]
  BY <1>1
<1>2. CASE stream' = [stream EXCEPT ![s] = [@ EXCEPT !.pc = "yield",
                                            !.event = "error",
                                            !.status = "failed",
                                            !.whole = whole]]
  BY <1>2
<1> QED
  BY <1>1, <1>2 DEF Checked

LEMMA AdvanceTyped ==
    ASSUME Typed, NEW s \in Streams, Advance(s)
    PROVE  Typed'
<1>0. stream[s].status \in Final
  BY DEF Typed, Generators
<1>1. CASE Begin(s)
  BY <1>1, Moves, Members DEF Begin
<1>2. CASE Open(s)
  BY <1>2, Moves, Members DEF Open
<1>3. CASE Resume(s)
  <2>1. CASE stream' = [stream EXCEPT ![s] = [@ EXCEPT !.event = "only",
                                              !.answer = 1, !.whole = TRUE]]
    BY <2>1, Counts, Members DEF Typed, Generators
  <2> QED
    BY <1>3, <2>1, Moves, Members DEF Resume
<1>4. CASE Token(s)
  <2>0. stream[s].answer \in 0..MaxTokens /\ stream[s].answer < MaxTokens
    BY <1>4 DEF Token, Typed, Generators
  <2> DEFINE n == stream[s].answer + 1
  <2>1. n \in 0..MaxTokens
    BY <2>0, MaxTokensAssumption
  <2>2. stream' = [stream EXCEPT ![s] = [@ EXCEPT !.pc = "yield",
                                            !.event = "token", !.answer = n]]
    BY <1>4 DEF Token
  <2> HIDE DEF n
  <2> QED
    BY <2>1, <2>2, Members DEF Typed, Generators
<1>5. CASE Finish(s) \/ Notice(s)
  BY <1>5, CheckedTyped, Members DEF Finish, Notice
<1>6. CASE ProviderFails(s)
  BY <1>6, Moves, Members DEF ProviderFails
<1>7. CASE Cancel(s) \/ SlowClient(s)
  BY <1>0, <1>7, Moves, Members DEF Cancel, SlowClient
<1>8. CASE Drop(s)
  BY <1>0, <1>8, Moves, Members DEF Drop, Close
<1>9. CASE Shield(s)
  BY <1>9 DEF Shield, Typed, Generators
<1>10. CASE PersistLoad(s) \/ PersistCommit(s)
  BY <1>10, Moves, Members DEF PersistLoad, PersistCommit, AfterFinally
<1> QED
  BY <1>1, <1>2, <1>3, <1>4, <1>5, <1>6, <1>7, <1>8, <1>9, <1>10 DEF Advance

\* Every step of a stream keeps the types of all variables.
LEMMA AdvanceTypeOK ==
    ASSUME TypeOK, NEW s \in Streams, Advance(s)
    PROVE  TypeOK'
<1>1. stream' \in [Streams -> Generators]
  BY AdvanceTyped DEF TypeOK, Typed
<1>2. stream[s].status \in Final /\ stream[s].answer \in 0..MaxTokens
        /\ stream[s].sources \in SUBSET Docs
  BY DEF TypeOK, Generators
<1>3. client' \in [Streams -> Clients]
  <2>1. CASE Resume(s)
    <3>1. \/ client' = client
          \/ client' = [client EXCEPT ![s].told = stream[s].status]
          \/ client' = [client EXCEPT ![s].heard = stream[s].answer]
      BY <2>1 DEF Resume, Hears
    <3>2. client \in [Streams -> Clients]
      BY DEF TypeOK
    <3>3. CASE client' = client
      BY <3>2, <3>3
    <3>4. CASE client' = [client EXCEPT ![s].told = stream[s].status]
      BY <1>2, <3>2, <3>4 DEF Clients
    <3>5. CASE client' = [client EXCEPT ![s].heard = stream[s].answer]
      BY <1>2, <3>2, <3>5 DEF Clients
    <3> QED
      BY <3>1, <3>3, <3>4, <3>5
  <2>2. CASE SlowClient(s)
    <3>1. \/ client' = client
          \/ client' = [client EXCEPT ![s].heard = stream[s].answer]
      BY <2>2 DEF SlowClient, Hears
    <3>2. client \in [Streams -> Clients]
      BY DEF TypeOK
    <3>3. CASE client' = [client EXCEPT ![s].heard = stream[s].answer]
      BY <1>2, <3>2, <3>3 DEF Clients
    <3> QED
      BY <3>1, <3>2, <3>3
  <2> QED
    BY <2>1, <2>2
    DEF Advance, Begin, Open, Token, Finish, Notice, ProviderFails, Cancel,
        Drop, Shield, PersistLoad, PersistCommit, TypeOK
<1>4. msg' \in [Streams -> Messages] /\ outcome' \in [Streams -> SUBSET Final]
  <2>1. CASE Begin(s)
    BY <2>1 DEF TypeOK, Begin, Messages, MsgStatus
  <2>2. CASE PersistCommit(s)
    <3>1. msg \in [Streams -> Messages] /\ outcome \in [Streams -> SUBSET Final]
      BY DEF TypeOK
    <3> DEFINE row == [status  |-> stream[s].status,
                       tokens  |-> stream[s].answer,
                       sources |-> stream[s].sources]
    <3>2. row \in Messages
      BY <1>2 DEF Messages, MsgStatus
    <3>3. \/ msg' = [msg EXCEPT ![s] = row] \/ msg' = msg
      BY <2>2 DEF PersistCommit
    <3>4. \/ outcome' = [outcome EXCEPT ![s] = @ \union {stream[s].status}]
          \/ outcome' = outcome
      BY <2>2 DEF PersistCommit
    <3> HIDE DEF row
    <3>5. msg' \in [Streams -> Messages]
      BY <3>1, <3>2, <3>3
    <3>6. outcome' \in [Streams -> SUBSET Final]
      BY <1>2, <3>1, <3>4
    <3> QED
      BY <3>5, <3>6
  <2> QED
    BY <2>1, <2>2
    DEF Advance, Open, Resume, Token, Finish, Notice, ProviderFails, Cancel,
        Drop, SlowClient, Shield, PersistLoad, TypeOK
<1> QED
  BY <1>1, <1>3, <1>4
  DEF TypeOK, Advance, Begin, Open, Resume, Token, Finish, Notice,
      ProviderFails, Cancel, Drop, SlowClient, Shield, PersistLoad,
      PersistCommit

-----------------------------------------------------------------------------
(* What a step of stream s does to s, field by field.                      *)

\* What a stream, its row, its client and its audit records are decides
\* about its invariant.
LEMMA Untouched ==
    ASSUME NEW q \in Streams, StreamInv(q), stream'[q] = stream[q],
           client'[q] = client[q], msg'[q] = msg[q], outcome'[q] = outcome[q]
    PROVE  StreamInv(q)'
  BY DEF StreamInv, RowInv, HeardInv, ShortInv, StoredAsTold, ToldIsWhole,
         Audited, Running, Sending, Stored, At

\* The other streams, and their rows, clients and audit records, stay.
LEMMA OthersStay ==
    ASSUME TypeOK, NEW s \in Streams, Advance(s), NEW q \in Streams, q # s,
           StreamInv(q)
    PROVE  StreamInv(q)'
<1>1. stream'[q] = stream[q]
  BY DEF TypeOK, Advance, Begin, Open, Resume, Token, Finish, Notice,
         ProviderFails, Cancel, Drop, Close, SlowClient, Shield, PersistLoad,
         PersistCommit, AfterFinally, Goto, Yield, Leave, Report, Checked
<1>2. client'[q] = client[q]
  BY DEF TypeOK, Advance, Begin, Open, Resume, Hears, Token, Finish, Notice,
         ProviderFails, Cancel, Drop, SlowClient, Shield, PersistLoad,
         PersistCommit
<1>3. msg'[q] = msg[q] /\ outcome'[q] = outcome[q]
  BY DEF TypeOK, Advance, Begin, Open, Resume, Token, Finish, Notice,
         ProviderFails, Cancel, Drop, SlowClient, Shield, PersistLoad,
         PersistCommit
<1> QED
  BY <1>1, <1>2, <1>3, Untouched

\* The generator of s after a step.
Now(s, pc, event, answer, status, whole, closing) ==
    /\ stream'[s].pc = pc
    /\ stream'[s].event = event
    /\ stream'[s].answer = answer
    /\ stream'[s].status = status
    /\ stream'[s].whole = whole
    /\ stream'[s].closing = closing

LEMMA Effects ==
    ASSUME Typed, NEW s \in Streams
    PROVE  /\ \A pc : Goto(s, pc) =>
                 Now(s, pc, stream[s].event, stream[s].answer,
                     stream[s].status, stream[s].whole, stream[s].closing)
           /\ \A event : Yield(s, event) =>
                 Now(s, "yield", event, stream[s].answer,
                     stream[s].status, stream[s].whole, stream[s].closing)
           /\ \A status, closing : Leave(s, status, closing) =>
                 Now(s, "finally", stream[s].event, stream[s].answer,
                     status, stream[s].whole, closing)
           /\ Report(s) => Now(s, "yield", "error", stream[s].answer,
                               "failed", stream[s].whole, stream[s].closing)
           /\ \A status, whole : Checked(s, status, whole) =>
                 \/ Now(s, "finally", stream[s].event, stream[s].answer,
                        status, whole, stream[s].closing)
                 \/ Now(s, "yield", "error", stream[s].answer, "failed", whole,
                        stream[s].closing)
<1> USE DEF Typed, Generators, Now
<1>1. ASSUME NEW pc, Goto(s, pc)
      PROVE  Now(s, pc, stream[s].event, stream[s].answer, stream[s].status,
                 stream[s].whole, stream[s].closing)
  BY <1>1 DEF Goto
<1>2. ASSUME NEW event, Yield(s, event)
      PROVE  Now(s, "yield", event, stream[s].answer, stream[s].status,
                 stream[s].whole, stream[s].closing)
  BY <1>2 DEF Yield
<1>3. ASSUME NEW status, NEW closing, Leave(s, status, closing)
      PROVE  Now(s, "finally", stream[s].event, stream[s].answer, status,
                 stream[s].whole, closing)
  BY <1>3 DEF Leave
<1>4. ASSUME Report(s)
      PROVE  Now(s, "yield", "error", stream[s].answer, "failed",
                 stream[s].whole, stream[s].closing)
  BY <1>4 DEF Report
<1>5. ASSUME NEW status, NEW whole, Checked(s, status, whole)
      PROVE  \/ Now(s, "finally", stream[s].event, stream[s].answer, status,
                    whole, stream[s].closing)
             \/ Now(s, "yield", "error", stream[s].answer, "failed", whole,
                    stream[s].closing)
  <2>1. CASE stream' = [stream EXCEPT ![s] = [@ EXCEPT !.pc = "finally",
                                              !.status = status,
                                              !.whole = whole]]
    BY <2>1
  <2>2. CASE stream' = [stream EXCEPT ![s] = [@ EXCEPT !.pc = "yield",
                                              !.event = "error",
                                              !.status = "failed",
                                              !.whole = whole]]
    BY <2>2
  <2> QED
    BY <1>5, <2>1, <2>2 DEF Checked
<1> HIDE DEF Typed, Generators, Now
<1> QED
  BY <1>1, <1>2, <1>3, <1>4, <1>5

\* A step of one stream keeps the invariant of that stream.
LEMMA AdvanceStreamInv ==
    ASSUME TypeOK, NEW s \in Streams, StreamInv(s), Advance(s)
    PROVE  StreamInv(s)'
<1>0. Typed
  BY DEF TypeOK, Typed
<1> DEFINE Kept == msg' = msg /\ outcome' = outcome /\ client' = client
<1> USE DEF StreamInv, RowInv, HeardInv, ShortInv, StoredAsTold, ToldIsWhole,
            Audited, Running, Sending, Stored, At, Now, Event, Final
<1>1. CASE Begin(s)
  <2>1. CASE Goto(s, "closed") /\ msg' = msg
    BY <1>0, <1>1, <2>1, Effects DEF Begin
  <2>2. CASE /\ Goto(s, "start")
             /\ msg' = [msg EXCEPT ![s].status = "generating"]
    <3>1. msg'[s].status = "generating"
      BY <2>2 DEF TypeOK, Messages
    <3>2. Now(s, "start", stream[s].event, stream[s].answer, stream[s].status,
              stream[s].whole, stream[s].closing)
      BY <1>0, <2>2, Effects
    <3> QED
      BY <1>1, <3>1, <3>2 DEF Begin
  <2> QED
    BY <1>1, <2>1, <2>2 DEF Begin
<1>2. CASE Open(s)
  BY <1>0, <1>2, Effects DEF Open
<1>3. CASE Resume(s)
  <2>1. client \in [Streams -> Clients]
    BY DEF TypeOK
  <2>2. /\ client'[s].there = client[s].there
        /\ client[s].told = "none" /\ client'[s].told # "none" =>
              /\ stream[s].event = "done"
              /\ client'[s].told = stream[s].status
              /\ client[s].there
        /\ client[s].told # "none" => client'[s].told # "none"
        /\ client[s].there /\ Sending(s, {"token", "only"}) =>
              client'[s].heard = stream[s].answer
        /\ ~Sending(s, {"token", "only"}) => client'[s].heard = client[s].heard
    BY <1>3, <2>1 DEF Resume, Hears, Clients
  <2> DEFINE event == stream[s].event
  <2>3. \/ event = "meta" /\ Yield(s, "sources")
        \/ event = "sources" /\ Goto(s, "await")
        \/ /\ event = "sources"
           /\ stream' = [stream EXCEPT ![s] = [@ EXCEPT !.event = "only",
                                               !.answer = 1, !.whole = TRUE]]
        \/ event = "token" /\ Goto(s, "await")
        \/ event \in {"only", "error"} /\ Goto(s, "finally")
        \/ event = "done" /\ Goto(s, "closed")
    BY <1>3 DEF Resume
  <2>4. \/ event = "meta" /\ Now(s, "yield", "sources", stream[s].answer,
                               stream[s].status, stream[s].whole,
                               stream[s].closing)
        \/ event \in {"sources", "token"}
           /\ Now(s, "await", event, stream[s].answer, stream[s].status,
                  stream[s].whole, stream[s].closing)
        \/ event = "sources"
           /\ Now(s, "yield", "only", 1, stream[s].status, TRUE, stream[s].closing)
        \/ event \in {"only", "error"}
           /\ Now(s, "finally", event, stream[s].answer, stream[s].status,
                  stream[s].whole, stream[s].closing)
        \/ event = "done"
           /\ Now(s, "closed", event, stream[s].answer, stream[s].status,
                  stream[s].whole, stream[s].closing)
    <3>1. CASE stream' = [stream EXCEPT ![s] = [@ EXCEPT !.event = "only",
                                                !.answer = 1, !.whole = TRUE]]
               /\ event = "sources"
      <4>1. Now(s, "yield", "only", 1, stream[s].status, TRUE, stream[s].closing)
        BY <1>0, <1>3, <3>1 DEF Resume, Typed, Generators
      <4> QED
        BY <3>1, <4>1
    <3> QED
      BY <1>0, <2>3, <3>1, Effects
  <2>5. At(s, "yield") /\ msg' = msg /\ outcome' = outcome
    BY <1>3 DEF Resume
  <2>6. RowInv(s)'
    BY <2>4, <2>5
  <2>7. HeardInv(s)' /\ StoredAsTold(s)'
    BY <2>2, <2>4, <2>5
  <2>8. ShortInv(s)'
    BY <2>2, <2>4, <2>5
  <2>9. ToldIsWhole(s)' /\ Audited(s)'
    BY <2>2, <2>4, <2>5
  <2> QED
    BY <2>6, <2>7, <2>8, <2>9
<1>4. CASE Token(s)
  <2>1. /\ stream'[s].pc = "yield"
        /\ stream'[s].event = "token"
        /\ stream'[s].status = stream[s].status
        /\ stream'[s].whole = stream[s].whole
        /\ stream'[s].closing = stream[s].closing
    BY <1>0, <1>4 DEF Token, Typed, Generators
  <2> QED
    BY <1>4, <2>1 DEF Token
<1>5. CASE Finish(s)
  BY <1>0, <1>5, Effects DEF Finish
<1>13. CASE Notice(s)
  BY <1>0, <1>13, Effects DEF Notice
<1>6. CASE ProviderFails(s)
  BY <1>0, <1>6, Effects DEF ProviderFails
<1>7. CASE Cancel(s)
  BY <1>0, <1>7, Effects DEF Cancel
<1>8. CASE Drop(s)
  <2>1. \/ /\ Sending(s, Event \ {"done"})
           /\ Now(s, "finally", stream[s].event, stream[s].answer,
                  stream[s].status, stream[s].whole, TRUE)
        \/ Now(s, "closed", stream[s].event, stream[s].answer,
               stream[s].status, stream[s].whole, stream[s].closing)
    <3>1. CASE At(s, "yield") /\ stream[s].event # "done"
      <4>1. stream[s].event \in Event
        BY <1>0 DEF Typed, Generators
      <4>2. Leave(s, stream[s].status, TRUE)
        BY <1>8, <3>1 DEF Drop, Close
      <4>3. Now(s, "finally", stream[s].event, stream[s].answer,
                stream[s].status, stream[s].whole, TRUE)
        BY <1>0, <4>2, Effects
      <4> QED
        BY <3>1, <4>1, <4>3
    <3>2. CASE ~(At(s, "yield") /\ stream[s].event # "done")
      BY <1>0, <1>8, <3>2, Effects DEF Drop, Close
    <3> QED
      BY <3>1, <3>2
  <2>2. /\ msg' = msg /\ outcome' = outcome /\ client' = client
        /\ ~client[s].there
    BY <1>8 DEF Drop
  <2>3. RowInv(s)' /\ HeardInv(s)'
    BY <2>1, <2>2
  <2>4. ShortInv(s)'
    BY <2>1, <2>2
  <2>5. ToldIsWhole(s)'
    BY <2>1, <2>2
  <2>6. StoredAsTold(s)' /\ Audited(s)'
    BY <2>2
  <2> QED
    BY <2>3, <2>4, <2>5, <2>6
<1>9. CASE SlowClient(s)
  <2>1. Now(s, "finally", stream[s].event, stream[s].answer, stream[s].status,
            stream[s].whole, TRUE)
    BY <1>0, <1>9, Effects DEF SlowClient
  <2>2. client \in [Streams -> Clients]
    BY DEF TypeOK
  <2>3. /\ client'[s].there = client[s].there
        /\ client'[s].told = client[s].told
        /\ At(s, "yield")
        /\ Sending(s, Event \ {"done"})
    <3>1. CASE UNCHANGED client
      BY <1>9, <3>1 DEF SlowClient
    <3>2. CASE client' = [client EXCEPT ![s].heard = stream[s].answer]
      BY <1>9, <2>2, <3>2 DEF SlowClient, Clients
    <3> QED
      BY <1>9, <3>1, <3>2 DEF SlowClient, Hears
  <2>4. client[s].told = "none"
    BY <2>3
  <2>5. msg' = msg /\ outcome' = outcome
    BY <1>9 DEF SlowClient
  <2>6. RowInv(s)' /\ HeardInv(s)'
    BY <2>1, <2>3, <2>4, <2>5
  <2>7. ShortInv(s)' /\ ToldIsWhole(s)'
    BY <2>1, <2>3, <2>4, <2>5
  <2> QED
    BY <2>3, <2>4, <2>5, <2>6, <2>7
<1>10. CASE Shield(s)
  BY <1>0, <1>10 DEF Shield, Typed, Generators
<1>11. CASE PersistLoad(s)
  BY <1>0, <1>11, Effects DEF PersistLoad, AfterFinally
<1>12. CASE PersistCommit(s)
  <2>1. msg \in [Streams -> Messages] /\ outcome \in [Streams -> SUBSET Final]
    BY DEF TypeOK
  <2>2. CASE Stored(s)
    <3>1. /\ msg'[s].status = stream[s].status
          /\ msg'[s].tokens = stream[s].answer
          /\ outcome'[s] = outcome[s] \union {stream[s].status}
      BY <1>12, <2>1, <2>2 DEF PersistCommit
    <3>2. \/ /\ stream[s].closing
             /\ Now(s, "closed", stream[s].event, stream[s].answer,
                    stream[s].status, stream[s].whole, TRUE)
          \/ /\ ~stream[s].closing
             /\ Now(s, "yield", "done", stream[s].answer, stream[s].status,
                    stream[s].whole, FALSE)
      BY <1>0, <1>12, <2>2, Effects DEF PersistCommit, AfterFinally
    <3>3. stream[s].status \in Final
      BY <1>0 DEF Typed, Generators
    <3> QED
      BY <1>12, <2>2, <3>1, <3>2, <3>3 DEF PersistCommit
  <2>3. CASE ~Stored(s)
    BY <1>0, <1>12, <2>3, Effects DEF PersistCommit
  <2> QED
    BY <2>2, <2>3
<1> QED
  BY <1>1, <1>2, <1>3, <1>4, <1>5, <1>13, <1>6, <1>7, <1>8, <1>9, <1>10,
     <1>11, <1>12 DEF Advance

-----------------------------------------------------------------------------
(* What goes on beside the streams.                                        *)

LEMMA AskInv ==
    ASSUME TypeOK, NEW s \in Streams, Ask(s), \A q \in Streams : StreamInv(q)
    PROVE  TypeOK' /\ \A q \in Streams : StreamInv(q)'
<1>1. PICK hits \in SUBSET listed :
         stream' = [stream EXCEPT ![s] = [@ EXCEPT !.pc = "commit",
                                                   !.sources = hits]]
  BY DEF Ask
<1>2. stream \in [Streams -> Generators] /\ hits \in SUBSET Docs
  BY DEF TypeOK
<1>3. stream' \in [Streams -> Generators]
  BY <1>1, <1>2, Members DEF Generators
<1>4. TypeOK'
  BY <1>3 DEF TypeOK, Ask
<1>5. /\ stream'[s].pc = "commit"
      /\ stream'[s].answer = stream[s].answer
      /\ stream'[s].status = stream[s].status
      /\ stream'[s].whole = stream[s].whole
      /\ stream'[s].closing = stream[s].closing
  BY <1>1, <1>2 DEF Generators
<1>6. StreamInv(s)'
  BY <1>5
  DEF Ask, StreamInv, RowInv, HeardInv, ShortInv, StoredAsTold, ToldIsWhole,
      Audited, Running, Sending, Stored, At, Final
<1>7. ASSUME NEW q \in Streams, q # s PROVE StreamInv(q)'
  BY <1>1, <1>2, <1>7, Untouched DEF Ask
<1> QED
  BY <1>4, <1>6, <1>7

LEMMA DisconnectInv ==
    ASSUME TypeOK, NEW s \in Streams, Disconnect(s),
           \A q \in Streams : StreamInv(q)
    PROVE  TypeOK' /\ \A q \in Streams : StreamInv(q)'
<1>1. client \in [Streams -> Clients]
  BY DEF TypeOK
<1>2. TypeOK'
  <2>1. client' \in [Streams -> Clients]
    BY <1>1 DEF Disconnect, Clients
  <2> QED
    BY <2>1 DEF TypeOK, Disconnect
<1>3. /\ client'[s].there = FALSE
      /\ client'[s].heard = client[s].heard
      /\ client'[s].told = client[s].told
  BY <1>1 DEF Disconnect, Clients
<1>4. StreamInv(s)'
  BY <1>3
  DEF Disconnect, StreamInv, RowInv, HeardInv, ShortInv, StoredAsTold,
      ToldIsWhole, Audited, Running, Sending, Stored, At
<1>5. ASSUME NEW q \in Streams, q # s PROVE StreamInv(q)'
  BY <1>1, <1>5, Untouched DEF Disconnect
<1> QED
  BY <1>2, <1>4, <1>5

\* A row that is removed owes nothing to anyone.
LEMMA RemoveConversationInv ==
    ASSUME TypeOK, NEW c \in Convs, RemoveConversation(c),
           \A q \in Streams : StreamInv(q)
    PROVE  TypeOK' /\ \A q \in Streams : StreamInv(q)'
<1>1. msg \in [Streams -> Messages]
  BY DEF TypeOK
<1> DEFINE row == [NoMsg EXCEPT !.status = "removed"]
<1>2. row \in Messages /\ row.status = "removed"
  BY MaxTokensAssumption DEF NoMsg, Messages, MsgStatus
<1>3. ASSUME NEW q \in Streams PROVE msg'[q] = row \/ msg'[q] = msg[q]
  BY DEF RemoveConversation
<1>4. ASSUME NEW q \in Streams
      PROVE  (msg'[q] = row /\ Stored(q)) \/ msg'[q] = msg[q]
  BY DEF RemoveConversation
<1> HIDE DEF row
<1>5. TypeOK'
  <2>1. msg' \in [Streams -> Messages]
    BY <1>1, <1>2, <1>3 DEF RemoveConversation
  <2> QED
    BY <2>1 DEF TypeOK, RemoveConversation
<1>6. ASSUME NEW q \in Streams PROVE StreamInv(q)'
  <2>1. CASE msg'[q] = row /\ Stored(q)
    BY <1>2, <2>1
    DEF RemoveConversation, StreamInv, RowInv, HeardInv, ShortInv,
        StoredAsTold, ToldIsWhole, Audited, Running, Sending, Stored, At, Final
  <2>2. CASE msg'[q] = msg[q]
    BY <2>2, Untouched DEF RemoveConversation
  <2> QED
    BY <1>4, <2>1, <2>2
<1> QED
  BY <1>5, <1>6

LEMMA CrashInv ==
    ASSUME TypeOK, Crash, \A q \in Streams : StreamInv(q)
    PROVE  TypeOK' /\ \A q \in Streams : StreamInv(q)'
<1>1. /\ stream \in [Streams -> Generators]
      /\ client \in [Streams -> Clients]
      /\ view \in [Views -> Replies]
  BY DEF TypeOK
<1>2. ASSUME NEW q \in Streams
      PROVE  \/ stream'[q] = stream[q] /\ client'[q] = client[q]
             \/ /\ ~At(q, "new")
                /\ stream'[q] = [stream[q] EXCEPT !.pc = "closed"]
                /\ client'[q] = [client[q] EXCEPT !.there = FALSE]
  BY DEF Crash
<1>3. TypeOK'
  <2>1. stream' \in [Streams -> Generators]
    BY <1>1, Members DEF Crash, Generators
  <2>2. client' \in [Streams -> Clients]
    BY <1>1 DEF Crash, Clients
  <2>3. view' \in [Views -> Replies]
    BY <1>1 DEF Crash, Replies, NoView
  <2>4. crashes' \in 0..MaxCrashes
    BY CrashBoundAssumption DEF TypeOK, Crash
  <2> QED
    BY <2>1, <2>2, <2>3, <2>4 DEF TypeOK, Crash
<1>4. ASSUME NEW q \in Streams PROVE StreamInv(q)'
  <2>1. CASE stream'[q] = stream[q] /\ client'[q] = client[q]
    BY <2>1, Untouched DEF Crash
  <2>2. CASE /\ ~At(q, "new")
             /\ stream'[q] = [stream[q] EXCEPT !.pc = "closed"]
             /\ client'[q] = [client[q] EXCEPT !.there = FALSE]
    <3>1. /\ stream'[q].pc = "closed"
          /\ stream'[q].whole = stream[q].whole
          /\ stream'[q].closing = stream[q].closing
      BY <1>1, <2>2 DEF Generators
    <3>2. /\ client'[q].there = FALSE
          /\ client'[q].told = client[q].told
          /\ client'[q].heard = client[q].heard
      BY <1>1, <2>2 DEF Clients
    <3> QED
      BY <3>1, <3>2
      DEF Crash, StreamInv, RowInv, HeardInv, ShortInv, StoredAsTold,
          ToldIsWhole, Audited, Running, Sending, Stored, At
  <2> QED
    BY <1>2, <2>1, <2>2
<1> QED
  BY <1>3, <1>4

\* Removals and requests to show a conversation.
LEMMA ViewSteps ==
    ASSUME TypeOK, ViewInv, DeletedIsNotShown,
           \/ \E d \in Docs : RemoveDocument(d)
           \/ \E v \in Views : (\E c \in Convs : ViewRows(v, c)) \/ ViewReply(v)
    PROVE  TypeOK' /\ ViewInv' /\ DeletedIsNotShown'
<1>1. view \in [Views -> Replies] /\ listed \in SUBSET Docs
  BY DEF TypeOK
<1>2. CASE \E d \in Docs : RemoveDocument(d)
  BY <1>2 DEF RemoveDocument, TypeOK, ViewInv, DeletedIsNotShown
<1>3. ASSUME NEW v \in Views, NEW c \in Convs, ViewRows(v, c)
      PROVE  TypeOK' /\ ViewInv' /\ DeletedIsNotShown'
  <2> DEFINE rows == UNION {msg[s].sources :
                               s \in {q \in Streams : ConvOf[q] = c}}
             reply == [pc |-> "rows", rows |-> rows, gone |-> Docs \ listed,
                       shown |-> {}]
  <2>1. rows \in SUBSET Docs
    BY DEF TypeOK, Messages
  <2>2. view' = [view EXCEPT ![v] = reply]
    BY <1>3 DEF ViewRows
  <2> HIDE DEF rows
  <2>3. view' \in [Views -> Replies]
    BY <1>1, <2>1, <2>2 DEF Replies
  <2>4. TypeOK'
    BY <1>3, <2>3 DEF TypeOK, ViewRows
  <2>5. \A w \in Views : view'[w] = view[w] \/ view'[w] = reply
    BY <1>1, <2>2
  <2>6. ViewInv' /\ DeletedIsNotShown'
    BY <1>3, <2>5 DEF ViewInv, DeletedIsNotShown, ViewRows
  <2> QED
    BY <2>4, <2>6
<1>4. ASSUME NEW v \in Views, ViewReply(v)
      PROVE  TypeOK' /\ ViewInv' /\ DeletedIsNotShown'
  <2>1. view' \in [Views -> Replies]
    BY <1>1, <1>4 DEF ViewReply, Replies
  <2>2. TypeOK'
    BY <1>4, <2>1 DEF TypeOK, ViewReply
  <2>3. \A w \in Views :
           /\ view'[w].gone = view[w].gone
           /\ view'[w].shown \in {view[w].shown, view[w].rows \intersect listed}
    BY <1>1, <1>4 DEF ViewReply, Replies
  <2>4. ViewInv' /\ DeletedIsNotShown'
    BY <1>4, <2>3 DEF ViewInv, DeletedIsNotShown, ViewReply
  <2> QED
    BY <2>2, <2>4
<1> QED
  BY <1>2, <1>3, <1>4

-----------------------------------------------------------------------------
(* The theorems.                                                           *)

\* ChatInv is an invariant: a row, its generator, its client and its audit
\* records agree at every step of events() and of what goes on beside it.
THEOREM Invariance == Spec => []ChatInv
<1>1. Init => ChatInv
  <2> SUFFICES ASSUME Init PROVE ChatInv
    OBVIOUS
  <2>1. TypeOK
    <3>1. NoMsg \in Messages /\ NoClient \in Clients /\ NoView \in Replies
      BY MaxTokensAssumption
      DEF NoMsg, Messages, MsgStatus, NoClient, Clients, NoView, Replies
    <3>2. NoStream \in Generators
      BY MaxTokensAssumption, Members
      DEF NoStream, Generators, StreamPc
    <3> QED
      BY <3>1, <3>2, CrashBoundAssumption DEF TypeOK, Init
  <2>2. ASSUME NEW s \in Streams PROVE StreamInv(s)
    <3>1. /\ stream[s] = NoStream /\ client[s] = NoClient
          /\ msg[s] = NoMsg /\ outcome[s] = {}
      BY DEF Init
    <3> QED
      BY <3>1
      DEF NoStream, NoClient, NoMsg, StreamInv, RowInv, HeardInv, ShortInv,
          StoredAsTold, ToldIsWhole, Audited, Running, Sending, Stored, At,
          Final
  <2>3. ViewInv /\ DeletedIsNotShown
    BY DEF Init, NoView, ViewInv, DeletedIsNotShown
  <2> QED
    BY <2>1, <2>2, <2>3 DEF ChatInv
<1>2. ChatInv /\ [Next]_vars => ChatInv'
  <2> SUFFICES ASSUME ChatInv, [Next]_vars PROVE ChatInv'
    OBVIOUS
  <2>0. /\ TypeOK /\ ViewInv /\ DeletedIsNotShown
        /\ \A q \in Streams : StreamInv(q)
    BY DEF ChatInv
  <2> DEFINE Kept == TypeOK' /\ \A q \in Streams : StreamInv(q)'
  <2>1. ASSUME NEW s \in Streams, Ask(s) PROVE ChatInv'
    <3>1. Kept
      BY <2>0, <2>1, AskInv
    <3> QED
      BY <2>0, <2>1, <3>1 DEF Ask, ChatInv, ViewInv, DeletedIsNotShown
  <2>2. ASSUME NEW s \in Streams, Advance(s) PROVE ChatInv'
    <3>1. TypeOK'
      BY <2>0, <2>2, AdvanceTypeOK
    <3>2. \A q \in Streams : StreamInv(q)'
      BY <2>0, <2>2, AdvanceStreamInv, OthersStay
    <3>3. view' = view /\ listed' = listed
      BY <2>2
      DEF Advance, Begin, Open, Resume, Token, Finish, Notice, ProviderFails,
          Cancel, Drop, SlowClient, Shield, PersistLoad, PersistCommit
    <3> QED
      BY <2>0, <3>1, <3>2, <3>3 DEF ChatInv, ViewInv, DeletedIsNotShown
  <2>3. ASSUME NEW s \in Streams, Disconnect(s) PROVE ChatInv'
    <3>1. Kept
      BY <2>0, <2>3, DisconnectInv
    <3> QED
      BY <2>0, <2>3, <3>1 DEF Disconnect, ChatInv, ViewInv, DeletedIsNotShown
  <2>4. ASSUME NEW c \in Convs, RemoveConversation(c) PROVE ChatInv'
    <3>1. Kept
      BY <2>0, <2>4, RemoveConversationInv
    <3> QED
      BY <2>0, <2>4, <3>1
      DEF RemoveConversation, ChatInv, ViewInv, DeletedIsNotShown
  <2>5. ASSUME \/ \E d \in Docs : RemoveDocument(d)
               \/ \E v \in Views :
                     (\E c \in Convs : ViewRows(v, c)) \/ ViewReply(v)
        PROVE  ChatInv'
    <3>1. TypeOK' /\ ViewInv' /\ DeletedIsNotShown'
      BY <2>0, <2>5, ViewSteps
    <3>2. \A q \in Streams : StreamInv(q)'
      BY <2>0, <2>5, Untouched DEF RemoveDocument, ViewRows, ViewReply
    <3> QED
      BY <3>1, <3>2 DEF ChatInv
  <2>6. CASE Crash
    <3>1. Kept
      BY <2>0, <2>6, CrashInv
    <3>2. ViewInv' /\ DeletedIsNotShown'
      BY <2>0, <2>6 DEF Crash, ViewInv, DeletedIsNotShown, NoView
    <3> QED
      BY <3>1, <3>2 DEF ChatInv
  <2>7. CASE UNCHANGED vars
    <3>1. Kept
      BY <2>0, <2>7, Untouched DEF vars, TypeOK
    <3> QED
      BY <2>0, <2>7, <3>1 DEF vars, ChatInv, ViewInv, DeletedIsNotShown
  <2> QED
    BY <2>1, <2>2, <2>3, <2>4, <2>5, <2>6, <2>7 DEF Next
<1> QED
  BY <1>1, <1>2, PTL DEF Spec

\* Every variable keeps its type.
THEOREM TypeCorrect == Spec => []TypeOK
  BY Invariance, PTL DEF ChatInv

\* What "done" told a client is what is stored, for streams of any length.
THEOREM ToldIsStored == Spec => []DoneMeansStored
<1>1. ChatInv => DoneMeansStored
  BY DEF ChatInv, StreamInv, DoneMeansStored
<1> QED
  BY <1>1, Invariance, PTL

\* No client, however slow, is told that a short answer is completed; and one
\* that is stored as completed is the answer of a generator that was closed.
THEOREM ShortAnswers == Spec => []ShortIsNotTold
<1>1. ChatInv => ShortIsNotTold
  BY DEF ChatInv, StreamInv, ShortIsNotTold
<1> QED
  BY <1>1, Invariance, PTL

\* The audit log has exactly one record of a stored end, with its status.
THEOREM AuditAgrees == Spec => []OutcomeIsAudited
<1>1. ChatInv => OutcomeIsAudited
  BY DEF ChatInv, StreamInv, OutcomeIsAudited
<1> QED
  BY <1>1, Invariance, PTL

\* No document deleted before the request is cited in a shown answer.
THEOREM SourcesExist == Spec => []DeletedIsNotShown
  BY Invariance, PTL DEF ChatInv

\* Once an answer has ended, no step rewrites it: only the removal of its
\* conversation does away with it.
THEOREM EndsAreFinal == Spec => EndIsFinal
<1> DEFINE Keeps(s) == msg[s].status \in Final =>
                          msg'[s] = msg[s] \/ msg'[s].status = "removed"
<1>1. ChatInv /\ [Next]_vars => [\A s \in Streams : Keeps(s)]_vars
  <2> SUFFICES ASSUME ChatInv, Next, NEW q \in Streams PROVE Keeps(q)
    OBVIOUS
  <2>1. msg \in [Streams -> Messages]
    BY DEF ChatInv, TypeOK
  <2>2. RowInv(q)
    BY DEF ChatInv, StreamInv
  <2>3. ASSUME NEW s \in Streams, Begin(s) \/ PersistCommit(s) PROVE Keeps(q)
    <3>1. CASE s = q
      BY <2>2, <2>3, <3>1
      DEF Begin, PersistCommit, RowInv, Running, At, Stored, Final
    <3>2. CASE s # q
      BY <2>1, <2>3, <3>2 DEF Begin, PersistCommit
    <3> QED
      BY <3>1, <3>2
  <2>4. ASSUME NEW c \in Convs, RemoveConversation(c) PROVE Keeps(q)
    BY <2>4 DEF RemoveConversation, NoMsg
  <2>5. CASE msg' = msg
    BY <2>5
  <2> HIDE DEF Keeps
  <2> QED
    BY <2>3, <2>4, <2>5
    DEF Next, Advance, Ask, Open, Resume, Token, Finish, Notice,
        ProviderFails, Cancel, Drop, SlowClient, Shield, PersistLoad,
        Disconnect, RemoveDocument, ViewRows, ViewReply, Crash
<1> QED
  BY <1>1, Invariance, PTL DEF Spec, EndIsFinal
=============================================================================
