------------------------- MODULE LegacyAccessProofs -------------------------
(***************************************************************************)
(* Theorems about LegacyAccess: the gateway, the shared limiter, the auth  *)
(* service and the user service, for any requests, routes, limits, tokens  *)
(* and keys.  Each part has an inductive invariant of its own; the end     *)
(* puts them together for the specification of the run.                    *)
(***************************************************************************)
EXTENDS LegacyAccess, FiniteSetTheorems, TLAPS

---------------------------------------------------------------------------
(* The gateway.                                                            *)

Ats == {"new", "stamped", "admitted", "probing", "calling", "opening", "streaming", "answered"}
Marks == {"none", "half", "whole"}
Answers == {"none", "ok", "ended", "error", "healthy", "degraded", "unhealthy", "413", "429", "502", "504"} \union Replies

CallType ==
    [at : Ats, route : Routes, by : Callers, stamp : Nat, counted : Int, tries : Nat, heard : SUBSET Replies,
     sentDone : BOOLEAN, marker : Marks, dones : Nat, pieces : Nat, quoted : BOOLEAN, answer : Answers]

\* A request and what it has heard of its service, where it stands.
CallInv(c) ==
    /\ c.answer = "none" <=> c.at # "answered"
    /\ c.at \in {"new", "stamped", "admitted", "probing", "opening"} => c.tries = 0
    /\ c.at = "calling" => c.tries < MaxTries
    /\ c.tries <= MaxTries
    /\ c.tries > 0 \/ c.at \in {"calling", "opening", "streaming"}
           => RoleFits(c.route, c.by) /\ CheckFits(c.route, c.by)
    /\ c.at # "answered" => c.heard \subseteq Retried
    /\ c.at \in {"new", "stamped", "admitted", "probing", "calling", "opening"} => c.dones = 0 /\ ~c.sentDone /\ ~c.quoted
    /\ c.sentDone => c.quoted \/ c.dones > 0

\* What it is answered.
AnswerInv(c) ==
    c.at = "answered" =>
        /\ c.answer \in {"ended", "error"} => c.quoted \/ c.dones > 0
        /\ c.answer = "ok" => c.heard \intersect Bodies # {} \/ c.route.op = "auth.forgot"
        /\ c.answer \in Refusals /\ c.tries > 0 => c.answer \in c.heard
        /\ "ok" \in c.heard => c.answer = "ok"

\* The set in Redis has every request that was counted not long ago.
SetInv(r) ==
    LET c == call[r] IN
    /\ c.stamp <= clock
    /\ c.at \in {"new", "stamped"} => c.counted = -1
    /\ c.at = "stamped" => clock - c.stamp <= MaxStall
    /\ c.counted = -1 \/ (c.counted \in 0..clock /\ c.counted - c.stamp <= MaxStall /\ c.counted + Window < expires)
    /\ c.counted >= 0 /\ clock - (Window - MaxStall) < c.counted => <<r, c.stamp>> \in hits

GatewayTypes ==
    /\ load \in DOMAIN Loads /\ clock \in 0..MaxClock[load]
    /\ hits \subseteq Requests \X (0..MaxClock[load]) /\ expires \in Nat
    /\ call \in [Requests -> CallType]

GatewayInv ==
    /\ GatewayTypes
    /\ \A r \in Requests : CallInv(call[r]) /\ AnswerInv(call[r]) /\ SetInv(r)
    /\ AdmittedInWindow

\* Those who were counted and passed in the time as long as the window before t.
Admitted(t) == {r \in Requests : call[r].counted \in 0..t /\ call[r].counted > t - (Window - MaxStall)}

LEMMA GatewayNumbers ==
    /\ Limit \in Nat /\ Limit > 0 /\ Window \in Nat /\ Window > 0 /\ MaxTries \in Nat /\ MaxTries > 0
    /\ MaxStall \in Nat /\ MaxPieces \in Nat /\ IsFiniteSet(Requests)
    /\ MaxClock \in [DOMAIN Loads -> Nat]
BY GatewayAssumption

LEMMA NoCallIs ==
    /\ NoCall \in CallType /\ NoCall.at = "new" /\ NoCall.answer = "none" /\ NoCall.tries = 0
    /\ NoCall.heard = {} /\ NoCall.dones = 0 /\ ~NoCall.sentDone /\ ~NoCall.quoted
    /\ NoCall.stamp = 0 /\ NoCall.counted = -1
<1>1. PICK x \in HealthRoutes : x = CHOOSE y \in HealthRoutes : TRUE
  BY DEF HealthRoutes
<1>2. x \in Routes
  BY <1>1 DEF Routes
<1>3. NoCall.route = x
  BY <1>1 DEF NoCall
<1>4. [role |-> "none", own |-> FALSE] \in Callers
  BY DEF Callers
<1> DEFINE rec == [at |-> "new", route |-> x, by |-> [role |-> "none", own |-> FALSE],
           stamp |-> 0, counted |-> -1, tries |-> 0, heard |-> {},
           sentDone |-> FALSE, marker |-> "none", dones |-> 0, pieces |-> 0, quoted |-> FALSE,
           answer |-> "none"]
<1>a. NoCall = rec
  BY <1>1 DEF NoCall
<1>b. rec \in CallType
  BY <1>2, <1>4 DEF CallType, Ats, Marks, Answers
<1>5. NoCall \in CallType
  BY <1>a, <1>b
<1> QED
  BY <1>5 DEF NoCall

LEMMA GatewayInitInv == GatewayInit => GatewayInv
<1> SUFFICES ASSUME GatewayInit PROVE GatewayInv
  OBVIOUS
<1> USE GatewayNumbers
<1>1. GatewayTypes
  BY NoCallIs DEF GatewayInit, GatewayTypes
<1>2. ASSUME NEW r \in Requests PROVE CallInv(call[r]) /\ AnswerInv(call[r]) /\ SetInv(r)
  <2>1. call[r] = NoCall /\ clock = 0
    BY DEF GatewayInit
  <2>2. CallInv(NoCall) /\ AnswerInv(NoCall)
    BY NoCallIs DEF CallInv, AnswerInv
  <2>3. SetInv(r)
    BY <2>1, NoCallIs DEF SetInv
  <2> QED
    BY <2>1, <2>2, <2>3
<1>3. AdmittedInWindow
  <2>1. ASSUME NEW t \in 0..clock PROVE Cardinality(Admitted(t)) <= Limit
    <3>1. Admitted(t) = {}
      BY NoCallIs DEF Admitted, GatewayInit
    <3> QED
      BY <3>1, FS_EmptySet
  <2> QED
    BY <2>1 DEF AdmittedInWindow, Admitted
<1> QED
  BY <1>1, <1>2, <1>3 DEF GatewayInv

\* A set that is counted does not depend on what else a step changes.
LEMMA SameCounted ==
    ASSUME AdmittedInWindow, GatewayTypes, clock' = clock,
           \A q \in Requests : call'[q].counted = call[q].counted
    PROVE  AdmittedInWindow'
<1> SUFFICES ASSUME NEW t \in 0..clock PROVE Cardinality(Admitted(t)') <= Limit
  BY DEF AdmittedInWindow, Admitted
<1>1. Admitted(t)' = Admitted(t)
  BY DEF Admitted
<1>2. Cardinality(Admitted(t)) <= Limit
  BY DEF AdmittedInWindow, Admitted
<1> QED
  BY <1>1, <1>2

\* A step of a request that has been counted or passed uncounted.
LEMMA LaterStep ==
    ASSUME GatewayInv, NEW r \in Requests, UNCHANGED <<load, clock, hits, expires>>,
           NEW n \in CallType, call' = [call EXCEPT ![r] = n],
           n.stamp = call[r].stamp, n.counted = call[r].counted, n.at \notin {"new", "stamped"},
           CallInv(n), AnswerInv(n)
    PROVE  GatewayInv'
<1> USE GatewayNumbers
<1>1. GatewayTypes'
  BY DEF GatewayInv, GatewayTypes
<1>2. \A q \in Requests : call'[q] = IF q = r THEN n ELSE call[q]
  BY DEF GatewayInv, GatewayTypes
<1>3. ASSUME NEW q \in Requests PROVE (CallInv(call[q]) /\ AnswerInv(call[q]))'
  <2>1. CallInv(call'[q]) /\ AnswerInv(call'[q])
    BY <1>2 DEF GatewayInv
  <2> QED
    BY <2>1 DEF CallInv, AnswerInv
<1>4. ASSUME NEW q \in Requests PROVE SetInv(q)'
  BY <1>2 DEF GatewayInv, SetInv
<1>5. AdmittedInWindow'
  BY <1>2, SameCounted DEF GatewayInv
<1> QED
  BY <1>1, <1>3, <1>4, <1>5 DEF GatewayInv

LEMMA AuthorizeInv == ASSUME GatewayInv, NEW r \in Requests, Authorize(r) PROVE GatewayInv'
<1> USE GatewayNumbers
<1> DEFINE c == call[r]
<1>1. /\ c \in CallType /\ call \in [Requests -> CallType] /\ CallInv(c) /\ AnswerInv(c)
      /\ c.at = "admitted" /\ UNCHANGED <<load, clock, hits, expires>>
  BY DEF GatewayInv, GatewayTypes, Authorize
<1>2. c.tries = 0 /\ "ok" \notin c.heard /\ c.dones = 0 /\ ~c.sentDone /\ ~c.quoted
  BY <1>1 DEF CallInv, CallType, Retried
<1>3. ASSUME NEW a \in {"400", "401", "403", "413"}, call' = Answer(r, a) PROVE GatewayInv'
  <2> DEFINE n == [c EXCEPT !.at = "answered", !.answer = a]
  <2>1. call' = [call EXCEPT ![r] = n]
    BY <1>1, <1>3 DEF Answer
  <2>2. n \in CallType
    BY <1>1 DEF CallType, Ats, Answers, Replies, Refusals
  <2>3. CallInv(n) /\ AnswerInv(n)
    BY <1>1, <1>2 DEF CallInv, AnswerInv, CallType
  <2> HIDE DEF n
  <2>4. n.stamp = c.stamp /\ n.counted = c.counted /\ n.at = "answered"
    BY <1>1 DEF n, CallType
  <2> QED
    BY <1>1, <2>1, <2>2, <2>3, <2>4, LaterStep
<1>4. ASSUME NEW a \in {"opening", "calling"}, call' = [call EXCEPT ![r].at = a],
             RoleFits(c.route, c.by), CheckFits(c.route, c.by)
      PROVE GatewayInv'
  <2> DEFINE n == [c EXCEPT !.at = a]
  <2>1. call' = [call EXCEPT ![r] = n]
    BY <1>1, <1>4
  <2>2. n \in CallType
    BY <1>1 DEF CallType, Ats
  <2>3. CallInv(n) /\ AnswerInv(n)
    BY <1>1, <1>2, <1>4 DEF CallInv, AnswerInv, CallType
  <2> HIDE DEF n
  <2>4. n.stamp = c.stamp /\ n.counted = c.counted /\ n.at = a
    BY <1>1 DEF n, CallType
  <2> QED
    BY <1>1, <2>1, <2>2, <2>3, <2>4, LaterStep
<1>5. \/ \E a \in {"400", "401", "403", "413"} : call' = Answer(r, a)
      \/ /\ RoleFits(c.route, c.by) /\ CheckFits(c.route, c.by)
         /\ \E a \in {"opening", "calling"} : call' = [call EXCEPT ![r].at = a]
  BY DEF Authorize
<1> QED
  BY <1>3, <1>4, <1>5


LEMMA ToldIs ==
    ASSUME NEW x \in Routes, NEW reply \in Replies
    PROVE  /\ Told(x, reply) \in Answers \ {"none", "ended", "error", "413", "429"}
           /\ Told(x, reply) = "ok" => reply \in Bodies \/ x.op = "auth.forgot"
           /\ Told(x, reply) \in Refusals => Told(x, reply) = reply
           /\ reply = "ok" => Told(x, reply) = "ok"
<1>1. x.tells \subseteq Refusals
  BY DEF Routes, RegisterRoutes, SessionRoutes, PasswordRoutes, UserListRoutes, ProfileRoutes, UserRoutes,
         OrganizationRoutes, MemberRoutes, UploadRoutes, DocumentRoutes, PartRoutes, ConversationRoutes,
         SendRoutes, MessageRoutes, SearchRoutes, ReportRoutes, JobRoutes, HealthRoutes, R, Refusals
<1> QED
  BY <1>1 DEF Told, Answers, Replies, Refusals, Bodies

LEMMA AttemptInv == ASSUME GatewayInv, NEW r \in Requests, Attempt(r) PROVE GatewayInv'
<1> USE GatewayNumbers
<1> DEFINE c == call[r]
<1>1. /\ c \in CallType /\ call \in [Requests -> CallType] /\ CallInv(c) /\ AnswerInv(c)
      /\ c.at = "calling" /\ UNCHANGED <<load, clock, hits, expires>>
  BY DEF GatewayInv, GatewayTypes, Attempt
<1>2. PICK reply \in Replies :
        LET tried == [call EXCEPT ![r].tries = @ + 1, ![r].heard = @ \union {reply}] IN
        call' = IF reply \in Retried /\ c.tries + 1 < MaxTries
                THEN tried
                ELSE [tried EXCEPT ![r].at = "answered", ![r].answer = Told(c.route, reply)]
  BY DEF Attempt
<1> DEFINE tries == c.tries + 1
           heard == c.heard \union {reply}
           m == [c EXCEPT !.tries = tries, !.heard = heard]
           told == Told(c.route, reply)
<1>a. /\ tries \in Nat /\ heard \in SUBSET Replies
  BY <1>1 DEF CallType
<1>b. m \in CallType
  <2> HIDE DEF tries, heard
  <2> QED
    BY <1>1, <1>a DEF CallType
<1>3. /\ m \in CallType /\ m.tries = c.tries + 1
      /\ m.heard = c.heard \union {reply} /\ m.at = c.at /\ m.route = c.route /\ m.by = c.by
      /\ m.stamp = c.stamp /\ m.counted = c.counted /\ m.answer = c.answer /\ m.dones = c.dones
      /\ m.sentDone = c.sentDone /\ m.quoted = c.quoted
  BY <1>1, <1>b DEF CallType
<1>4. CASE reply \in Retried /\ c.tries + 1 < MaxTries
  <2>1. call' = [call EXCEPT ![r] = m]
    BY <1>1, <1>2, <1>4
  <2> HIDE DEF m
  <2>2. CallInv(m) /\ AnswerInv(m)
    BY <1>1, <1>3, <1>4 DEF CallInv, AnswerInv, CallType
  <2> QED
    BY <1>1, <1>3, <2>1, <2>2, LaterStep
<1>5. CASE ~(reply \in Retried /\ c.tries + 1 < MaxTries)
  <2> DEFINE n == [m EXCEPT !.at = "answered", !.answer = told]
  <2>1. call' = [call EXCEPT ![r] = n]
    BY <1>1, <1>2, <1>5
  <2>2. /\ c.route \in Routes /\ told \in Answers \ {"none", "ended", "error", "413", "429"}
        /\ told = "ok" => reply \in Bodies \/ c.route.op = "auth.forgot"
        /\ told \in Refusals => told = reply
        /\ reply = "ok" => told = "ok"
    <3>1. c.route \in Routes
      BY <1>1 DEF CallType
    <3> HIDE DEF c
    <3> QED
      BY <3>1, ToldIs
  <2> HIDE DEF m, told
  <2>5. n \in CallType
    BY <1>3, <2>2 DEF CallType, Ats
  <2>6. n = [m EXCEPT !.at = "answered", !.answer = told] /\ n.at = "answered" /\ n.answer = told
        /\ n.tries = m.tries /\ n.heard = m.heard /\ n.route = m.route /\ n.by = m.by
        /\ n.stamp = m.stamp /\ n.counted = m.counted /\ n.dones = m.dones /\ n.sentDone = m.sentDone
        /\ n.quoted = m.quoted
    BY <1>3 DEF CallType
  <2> HIDE DEF n
  <2>7. CallInv(n)
    BY <1>1, <1>3, <2>2, <2>6 DEF CallInv, CallType
  <2>8. AnswerInv(n)
    <3>1. "ok" \notin c.heard
      BY <1>1 DEF CallInv, Retried
    <3> QED
      BY <1>3, <2>2, <2>6, <3>1 DEF AnswerInv
  <2> QED
    BY <1>1, <1>3, <2>1, <2>5, <2>6, <2>7, <2>8, LaterStep
<1> QED
  BY <1>4, <1>5

\* An answer of no service: of a probe, and the end of a stream.
LEMMA ProbeInv == ASSUME GatewayInv, NEW r \in Requests, Probe(r) PROVE GatewayInv'
<1> USE GatewayNumbers
<1> DEFINE c == call[r]
<1>1. /\ c \in CallType /\ call \in [Requests -> CallType] /\ CallInv(c) /\ AnswerInv(c)
      /\ c.at = "probing" /\ UNCHANGED <<load, clock, hits, expires>>
  BY DEF GatewayInv, GatewayTypes, Probe
<1>2. PICK a \in {"healthy", "degraded", "unhealthy"} : call' = Answer(r, a)
  BY DEF Probe, Aggregate
<1> DEFINE n == [c EXCEPT !.at = "answered", !.answer = a]
<1>3. call' = [call EXCEPT ![r] = n]
  BY <1>1, <1>2 DEF Answer
<1>4. n \in CallType
  BY <1>1 DEF CallType, Ats, Answers
<1>5. CallInv(n) /\ AnswerInv(n)
  BY <1>1 DEF CallInv, AnswerInv, CallType, Refusals, Retried
<1> HIDE DEF n
<1>6. n.stamp = c.stamp /\ n.counted = c.counted /\ n.at = "answered"
  BY <1>1 DEF n, CallType
<1> QED
  BY <1>1, <1>3, <1>4, <1>5, <1>6, LaterStep

LEMMA EndStreamInv == ASSUME GatewayInv, NEW r \in Requests, EndStream(r) PROVE GatewayInv'
<1> USE GatewayNumbers
<1> DEFINE c == call[r]
<1>1. /\ c \in CallType /\ call \in [Requests -> CallType] /\ CallInv(c) /\ AnswerInv(c)
      /\ c.at = "streaming" /\ UNCHANGED <<load, clock, hits, expires>>
  BY DEF GatewayInv, GatewayTypes, EndStream
<1>2. PICK how \in {"ended", "error"} :
        call' = [call EXCEPT ![r].at = "answered", ![r].answer = how,
                             ![r].dones = IF c.sentDone THEN @ ELSE @ + 1]
  BY DEF EndStream
<1> DEFINE done == IF c.sentDone THEN c.dones ELSE c.dones + 1
           n == [c EXCEPT !.at = "answered", !.answer = how, !.dones = done]
<1>3. call' = [call EXCEPT ![r] = n]
  BY <1>1, <1>2
<1>a. done \in Nat
  BY <1>1 DEF CallType
<1>4. n \in CallType
  <2> HIDE DEF done
  <2> QED
    BY <1>1, <1>a DEF CallType, Ats, Answers
<1>5. CallInv(n) /\ AnswerInv(n)
  BY <1>1 DEF CallInv, AnswerInv, CallType, Refusals, Retried
<1> HIDE DEF n
<1>6. n.stamp = c.stamp /\ n.counted = c.counted /\ n.at = "answered"
  BY <1>1 DEF n, CallType
<1> QED
  BY <1>1, <1>3, <1>4, <1>5, <1>6, LaterStep

LEMMA OpenInv == ASSUME GatewayInv, NEW r \in Requests, Open(r) PROVE GatewayInv'
<1> USE GatewayNumbers
<1> DEFINE c == call[r]
<1>1. /\ c \in CallType /\ call \in [Requests -> CallType] /\ CallInv(c) /\ AnswerInv(c)
      /\ c.at = "opening" /\ UNCHANGED <<load, clock, hits, expires>>
  BY DEF GatewayInv, GatewayTypes, Open
<1>2. call' = [call EXCEPT ![r].at = "streaming", ![r].tries = 1]
  BY DEF Open
<1> DEFINE one == 1
           n == [c EXCEPT !.at = "streaming", !.tries = one]
<1>3. call' = [call EXCEPT ![r] = n]
  BY <1>1, <1>2
<1>a. one \in Nat
  OBVIOUS
<1>4. n \in CallType
  <2> HIDE DEF one
  <2> QED
    BY <1>1, <1>a DEF CallType, Ats
<1>5. CallInv(n) /\ AnswerInv(n)
  BY <1>1 DEF CallInv, AnswerInv, CallType
<1> HIDE DEF n
<1>6. n.stamp = c.stamp /\ n.counted = c.counted /\ n.at = "streaming"
  BY <1>1 DEF n, CallType
<1> QED
  BY <1>1, <1>3, <1>4, <1>5, <1>6, LaterStep

LEMMA RelayInv == ASSUME GatewayInv, NEW r \in Requests, Relay(r) PROVE GatewayInv'
<1> USE GatewayNumbers
<1> DEFINE c == call[r]
<1>1. /\ c \in CallType /\ call \in [Requests -> CallType] /\ CallInv(c) /\ AnswerInv(c)
      /\ c.at = "streaming" /\ UNCHANGED <<load, clock, hits, expires>>
  BY DEF GatewayInv, GatewayTypes, Relay
<1>2. PICK piece \in Pieces :
        call' = [call EXCEPT ![r].pieces = @ + 1,
                        ![r].sentDone = @ \/ piece \in {"quote", "marker"},
                        ![r].quoted = @ \/ piece = "quote",
                        ![r].marker = CASE piece = "head" -> "half"
                                        [] piece \in {"tail", "marker"} -> "whole"
                                        [] OTHER -> @,
                        ![r].dones = IF piece \in {"tail", "marker"} THEN @ + 1 ELSE @]
  BY DEF Relay
<1> DEFINE mark == CASE piece = "head" -> "half" [] piece \in {"tail", "marker"} -> "whole" [] OTHER -> c.marker
           sent == c.sentDone \/ piece \in {"quote", "marker"}
           quote == c.quoted \/ piece = "quote"
           done == IF piece \in {"tail", "marker"} THEN c.dones + 1 ELSE c.dones
           more == c.pieces + 1
           n == [c EXCEPT !.pieces = more, !.sentDone = sent, !.quoted = quote, !.marker = mark, !.dones = done]
<1>3. call' = [call EXCEPT ![r] = n]
  BY <1>1, <1>2 DEF CallType
<1>4. /\ mark \in Marks /\ sent \in BOOLEAN /\ quote \in BOOLEAN /\ done \in Nat /\ more \in Nat /\ done >= c.dones
      /\ sent => c.sentDone \/ quote \/ done > 0
      /\ c.quoted => quote
  BY <1>1 DEF CallType, Marks, Pieces
<1> HIDE DEF mark, sent, quote, done, more
<1>5. n \in CallType
  BY <1>1, <1>4 DEF CallType
<1>6. CallInv(n) /\ AnswerInv(n)
  BY <1>1, <1>4 DEF CallInv, AnswerInv, CallType
<1>7. n.stamp = c.stamp /\ n.counted = c.counted /\ n.at = "streaming"
  BY <1>1 DEF CallType
<1> HIDE DEF n
<1> QED
  BY <1>1, <1>3, <1>5, <1>6, <1>7, LaterStep

\* A step of a request that changes its clock or the set: what is left is the set.
LEMMA WindowStep ==
    ASSUME GatewayInv, NEW r \in Requests, UNCHANGED <<load, clock>>,
           NEW n \in CallType, call' = [call EXCEPT ![r] = n],
           CallInv(n), AnswerInv(n), hits' \subseteq Requests \X (0..MaxClock[load]), expires' \in Nat,
           \A q \in Requests : SetInv(q)', AdmittedInWindow'
    PROVE  GatewayInv'
<1>1. GatewayTypes'
  BY DEF GatewayInv, GatewayTypes
<1>2. \A q \in Requests : call'[q] = IF q = r THEN n ELSE call[q]
  BY DEF GatewayInv, GatewayTypes
<1>3. ASSUME NEW q \in Requests PROVE (CallInv(call[q]) /\ AnswerInv(call[q]))'
  <2>1. CallInv(call'[q]) /\ AnswerInv(call'[q])
    BY <1>2 DEF GatewayInv
  <2> QED
    BY <2>1 DEF CallInv, AnswerInv
<1> QED
  BY <1>1, <1>3 DEF GatewayInv

LEMMA ArriveInv == ASSUME GatewayInv, NEW r \in Requests, Arrive(r) PROVE GatewayInv'
<1> USE GatewayNumbers
<1> DEFINE c == call[r]
<1>1. /\ c \in CallType /\ call \in [Requests -> CallType] /\ CallInv(c) /\ AnswerInv(c) /\ SetInv(r)
      /\ c.at = "new" /\ UNCHANGED <<load, clock, hits, expires>> /\ clock \in Nat /\ load \in DOMAIN Loads
  BY DEF GatewayInv, GatewayTypes, Arrive
<1>2. PICK ask \in Loads[load][r] :
        call' = [call EXCEPT ![r].at = IF ask[1] \in HealthRoutes THEN "probing" ELSE "stamped",
                             ![r].route = ask[1], ![r].by = ask[2], ![r].stamp = clock]
  BY DEF Arrive
<1>3. ask[1] \in Routes /\ ask[2] \in Callers
  <2>1. Loads[load][r] \in SUBSET (Routes \X Callers)
    BY <1>1, LoadAssumption
  <2> QED
    BY <2>1
<1> DEFINE to == IF ask[1] \in HealthRoutes THEN "probing" ELSE "stamped"
           n == [c EXCEPT !.at = to, !.route = ask[1], !.by = ask[2], !.stamp = clock]
<1>4. call' = [call EXCEPT ![r] = n]
  BY <1>1, <1>2
<1>5. to \in {"probing", "stamped"}
  OBVIOUS
<1> HIDE DEF to
<1>6. n \in CallType
  BY <1>1, <1>3, <1>5 DEF CallType, Ats
<1>7. /\ n.at = to /\ n.stamp = clock /\ n.counted = c.counted
      /\ CallInv(n) /\ AnswerInv(n)
  BY <1>1, <1>5 DEF CallInv, AnswerInv, CallType
<1> HIDE DEF n
<1>8. \A q \in Requests : call'[q] = IF q = r THEN n ELSE call[q]
  BY <1>1, <1>4
<1>9. ASSUME NEW q \in Requests PROVE SetInv(q)'
  <2>1. CASE q = r
    BY <1>1, <1>5, <1>7, <1>8, <2>1 DEF SetInv
  <2>2. CASE q # r
    BY <1>1, <1>8, <2>2 DEF SetInv, GatewayInv
  <2> QED
    BY <2>1, <2>2
<1>10. AdmittedInWindow'
  BY <1>1, <1>7, <1>8, SameCounted DEF GatewayInv
<1> QED
  BY <1>1, <1>4, <1>6, <1>7, <1>9, <1>10, WindowStep DEF GatewayInv, GatewayTypes

\* The pipeline keeps every request that was counted not long ago, and adds r.
LEMMA PipelineKeeps ==
    ASSUME GatewayInv, NEW r \in Requests, call[r].at = "stamped",
           hits' = Kept(call[r].stamp) \union {<<r, call[r].stamp>>},
           expires' = clock + Window + 1
    PROVE  /\ hits' \subseteq Requests \X (0..MaxClock[load]) /\ expires' \in Nat
           /\ \A q \in Requests :
                 /\ call[q].counted >= 0 => call[q].counted + Window < expires'
                 /\ call[q].counted >= 0 /\ clock - (Window - MaxStall) < call[q].counted
                        => <<q, call[q].stamp>> \in hits'
<1> USE GatewayNumbers
<1>1. /\ clock \in 0..MaxClock[load] /\ MaxClock[load] \in Nat /\ expires \in Nat
      /\ hits \subseteq Requests \X (0..MaxClock[load])
      /\ \A q \in Requests : call[q].stamp \in Nat /\ call[q].counted \in Int /\ SetInv(q)
  BY DEF GatewayInv, GatewayTypes, CallType
<1>2. call[r].stamp \in 0..MaxClock[load] /\ call[r].stamp <= clock
  <2>1. SetInv(r) /\ call[r].stamp \in Nat
    BY <1>1
  <2> QED
    BY <1>1, <2>1 DEF SetInv
<1>3. hits' \subseteq Requests \X (0..MaxClock[load]) /\ expires' \in Nat
  BY <1>1, <1>2 DEF Kept
<1>4. ASSUME NEW q \in Requests, call[q].counted >= 0 PROVE call[q].counted + Window < expires'
  <2>1. SetInv(q) /\ call[q].counted \in Int
    BY <1>1
  <2> QED
    BY <1>1, <1>4, <2>1 DEF SetInv
<1>5. ASSUME NEW q \in Requests, call[q].counted >= 0, clock - (Window - MaxStall) < call[q].counted
      PROVE  <<q, call[q].stamp>> \in hits'
  <2>1. /\ <<q, call[q].stamp>> \in hits /\ call[q].counted - call[q].stamp <= MaxStall
        /\ call[q].counted + Window < expires /\ call[q].counted <= clock
    BY <1>1, <1>5 DEF SetInv
  <2>2. clock < expires /\ call[q].stamp > call[r].stamp - Window
    <3>1. call[q].counted \in Int /\ call[q].stamp \in Nat /\ call[r].stamp \in Nat
      BY <1>1
    <3> QED
      BY <1>1, <1>2, <1>5, <2>1, <3>1
  <2>3. <<q, call[q].stamp>>[2] = call[q].stamp
    OBVIOUS
  <2> QED
    BY <2>1, <2>2, <2>3 DEF Kept
<1> QED
  BY <1>3, <1>4, <1>5

LEMMA FailOpenInv == ASSUME GatewayInv, NEW r \in Requests, FailOpen(r) PROVE GatewayInv'
<1> USE GatewayNumbers
<1> DEFINE c == call[r]
<1>1. /\ c \in CallType /\ call \in [Requests -> CallType] /\ CallInv(c) /\ AnswerInv(c) /\ SetInv(r)
      /\ c.at = "stamped" /\ UNCHANGED <<load, clock>> /\ clock \in Nat
      /\ call' = [call EXCEPT ![r].at = "admitted"]
  BY DEF GatewayInv, GatewayTypes, FailOpen
<1> DEFINE n == [c EXCEPT !.at = "admitted"]
<1>2. call' = [call EXCEPT ![r] = n]
  BY <1>1
<1>3. n \in CallType
  BY <1>1 DEF CallType, Ats
<1>4. CallInv(n) /\ AnswerInv(n) /\ n.at = "admitted" /\ n.stamp = c.stamp /\ n.counted = c.counted
  BY <1>1 DEF CallInv, AnswerInv, CallType
<1> HIDE DEF n
<1>5. \A q \in Requests : call'[q] = IF q = r THEN n ELSE call[q]
  BY <1>1, <1>2
<1>6. /\ hits' \subseteq Requests \X (0..MaxClock[load]) /\ expires' \in Nat
      /\ \A q \in Requests :
            /\ call[q].counted >= 0 => call[q].counted + Window < expires'
            /\ call[q].counted >= 0 /\ clock - (Window - MaxStall) < call[q].counted
                   => <<q, call[q].stamp>> \in hits'
  <2>1. CASE UNCHANGED <<hits, expires>>
    BY <2>1 DEF GatewayInv, GatewayTypes, SetInv, CallType
  <2>2. CASE hits' = Kept(c.stamp) \union {<<r, c.stamp>>} /\ expires' = clock + Window + 1
    BY <1>1, <2>2, PipelineKeeps
  <2> QED
    BY <2>1, <2>2 DEF FailOpen
<1>7. ASSUME NEW q \in Requests PROVE SetInv(q)'
  <2>1. SetInv(q) /\ call[q].counted \in Int /\ call[q].stamp \in Nat
    BY DEF GatewayInv, GatewayTypes, CallType
  <2> QED
    BY <1>1, <1>4, <1>5, <1>6, <2>1 DEF SetInv
<1>8. AdmittedInWindow'
  BY <1>1, <1>4, <1>5, SameCounted DEF GatewayInv
<1> QED
  BY <1>1, <1>2, <1>3, <1>4, <1>6, <1>7, <1>8, WindowStep

LEMMA CountInv == ASSUME GatewayInv, NEW r \in Requests, Count(r) PROVE GatewayInv'
<1> USE GatewayNumbers
<1> DEFINE c == call[r]
<1>1. /\ c \in CallType /\ call \in [Requests -> CallType] /\ CallInv(c) /\ AnswerInv(c) /\ SetInv(r)
      /\ c.at = "stamped" /\ UNCHANGED <<load, clock>> /\ clock \in 0..MaxClock[load] /\ MaxClock[load] \in Nat
      /\ hits' = Kept(c.stamp) \union {<<r, c.stamp>>} /\ expires' = clock + Window + 1
  BY DEF GatewayInv, GatewayTypes, Count
<1>2. /\ hits' \subseteq Requests \X (0..MaxClock[load]) /\ expires' \in Nat
      /\ \A q \in Requests :
            /\ call[q].counted >= 0 => call[q].counted + Window < expires'
            /\ call[q].counted >= 0 /\ clock - (Window - MaxStall) < call[q].counted
                   => <<q, call[q].stamp>> \in hits'
  BY <1>1, PipelineKeeps
<1>3. c.counted = -1 /\ clock - c.stamp <= MaxStall /\ c.stamp \in Nat /\ <<r, c.stamp>> \in hits'
  BY <1>1 DEF SetInv, CallType
<1>4. CASE Cardinality(hits') > Limit
  <2> DEFINE n == [c EXCEPT !.at = "answered", !.answer = "429"]
  <2>1. call' = [call EXCEPT ![r] = n]
    BY <1>1, <1>4 DEF Count, Answer
  <2>2. n \in CallType
    BY <1>1 DEF CallType, Ats, Answers
  <2>3. CallInv(n) /\ AnswerInv(n) /\ n.at = "answered" /\ n.stamp = c.stamp /\ n.counted = c.counted
    BY <1>1 DEF CallInv, AnswerInv, CallType, Refusals, Retried
  <2> HIDE DEF n
  <2>4. \A q \in Requests : call'[q] = IF q = r THEN n ELSE call[q]
    BY <1>1, <2>1
  <2>5. ASSUME NEW q \in Requests PROVE SetInv(q)'
    <3>1. SetInv(q) /\ call[q].counted \in Int /\ call[q].stamp \in Nat
      BY DEF GatewayInv, GatewayTypes, CallType
    <3> QED
      BY <1>1, <1>2, <2>3, <2>4, <3>1 DEF SetInv
  <2>6. AdmittedInWindow'
    BY <1>1, <2>3, <2>4, SameCounted DEF GatewayInv
  <2> QED
    BY <1>1, <1>2, <2>1, <2>2, <2>3, <2>5, <2>6, WindowStep
<1>5. CASE ~(Cardinality(hits') > Limit)
  <2> DEFINE n == [c EXCEPT !.at = "admitted", !.counted = clock]
  <2>a. call' = [call EXCEPT ![r].at = "admitted", ![r].counted = clock]
    BY <1>5 DEF Count
  <2>1. call' = [call EXCEPT ![r] = n]
    <3>1. call \in [Requests -> CallType] /\ c.at \in Ats /\ c.counted \in Int /\ DOMAIN c = DOMAIN n
      BY <1>1 DEF CallType
    <3>2. ASSUME NEW v PROVE [call EXCEPT ![r].at = "admitted", ![r].counted = v] = [call EXCEPT ![r] = [c EXCEPT !.at = "admitted", !.counted = v]]
      BY <3>1 DEF CallType
    <3> QED
      BY <2>a, <3>2
  <2>2. n \in CallType
    <3>1. ASSUME NEW v \in Int PROVE [c EXCEPT !.at = "admitted", !.counted = v] \in CallType
      BY <1>1 DEF CallType, Ats
    <3>2. clock \in Int
      BY <1>1
    <3> QED
      BY <3>1, <3>2
  <2>3. CallInv(n) /\ AnswerInv(n) /\ n.at = "admitted" /\ n.stamp = c.stamp /\ n.counted = clock
    BY <1>1 DEF CallInv, AnswerInv, CallType
  <2> HIDE DEF n
  <2>4. \A q \in Requests : call'[q] = IF q = r THEN n ELSE call[q]
    BY <1>1, <2>1
  <2>5. ASSUME NEW q \in Requests PROVE SetInv(q)'
    <3>1. SetInv(q) /\ call[q].counted \in Int /\ call[q].stamp \in Nat
      BY DEF GatewayInv, GatewayTypes, CallType
    <3> QED
      BY <1>1, <1>2, <1>3, <2>3, <2>4, <3>1 DEF SetInv
  <2>6. ASSUME NEW t \in 0..clock PROVE Cardinality(Admitted(t)') <= Limit
    <3>1. CASE t < clock
      <4>1. Admitted(t)' = Admitted(t)
        BY <1>1, <1>3, <2>3, <2>4, <3>1 DEF Admitted
      <4> QED
        BY <4>1 DEF GatewayInv, AdmittedInWindow, Admitted
    <3>2. CASE t = clock
      <4> DEFINE A == Admitted(t)'
                 f == [q \in A |-> <<q, call'[q].stamp>>]
      <4>1. \A q \in A : q \in Requests /\ <<q, call'[q].stamp>> \in hits'
        BY <1>1, <1>2, <1>3, <2>3, <2>4, <3>2 DEF Admitted
      <4>2. f \in Injection(A, hits')
        BY <4>1 DEF Injection, IsInjective
      <4>3. IsFiniteSet(hits') /\ Cardinality(hits') \in Nat
        <5>1. IsFiniteSet(0..MaxClock[load])
          BY <1>1, FS_Interval
        <5>2. IsFiniteSet(Requests \X (0..MaxClock[load]))
          BY <5>1, FS_Product
        <5> QED
          BY <1>2, <5>2, FS_Subset, FS_CardinalityType
      <4>4. IsFiniteSet(A) /\ Cardinality(A) <= Cardinality(hits')
        BY <4>2, <4>3, FS_Injection
      <4>5. Cardinality(A) \in Nat
        BY <4>4, FS_CardinalityType
      <4> QED
        BY <1>5, <4>3, <4>4, <4>5
    <3> QED
      BY <1>1, <3>1, <3>2
  <2>7. AdmittedInWindow'
    BY <1>1, <2>6 DEF AdmittedInWindow, Admitted
  <2> QED
    BY <1>1, <1>2, <2>1, <2>2, <2>3, <2>5, <2>7, WindowStep
<1> QED
  BY <1>4, <1>5

LEMMA TickInv == ASSUME GatewayInv, Tick PROVE GatewayInv'
<1> USE GatewayNumbers
<1>1. /\ UNCHANGED <<load, hits, expires, call>> /\ clock' = clock + 1 /\ clock < MaxClock[load]
      /\ clock \in Nat /\ MaxClock[load] \in Nat
      /\ \A q \in Requests : call[q].at = "stamped" => clock - call[q].stamp < MaxStall
  BY DEF GatewayInv, GatewayTypes, Tick
<1>2. GatewayTypes'
  BY <1>1 DEF GatewayInv, GatewayTypes
<1>3. ASSUME NEW q \in Requests PROVE (CallInv(call[q]) /\ AnswerInv(call[q]) /\ SetInv(q))'
  <2>1. CallInv(call'[q]) /\ AnswerInv(call'[q])
    BY <1>1 DEF GatewayInv
  <2>2. call[q].counted \in Int /\ call[q].stamp \in Nat /\ SetInv(q)
    BY DEF GatewayInv, GatewayTypes, CallType
  <2>3. SetInv(q)'
    BY <1>1, <2>2 DEF SetInv
  <2> QED
    BY <2>1, <2>3 DEF CallInv, AnswerInv
<1>4. ASSUME NEW t \in 0..(clock + 1) PROVE Cardinality(Admitted(t)') <= Limit
  <2>1. Admitted(t)' = Admitted(t)
    BY <1>1 DEF Admitted
  <2>2. CASE t <= clock
    BY <1>1, <2>1, <2>2 DEF GatewayInv, AdmittedInWindow, Admitted
  <2>3. CASE t = clock + 1
    <3>1. Admitted(t) \subseteq Admitted(clock)
      <4> SUFFICES ASSUME NEW q \in Requests, call[q].counted \in 0..t, call[q].counted > t - (Window - MaxStall)
                   PROVE  call[q].counted \in 0..clock /\ call[q].counted > clock - (Window - MaxStall)
        BY DEF Admitted
      <4>1. call[q].counted <= clock
        <5>1. SetInv(q)
          BY DEF GatewayInv
        <5> QED
          BY <1>1, <5>1 DEF SetInv
      <4> QED
        BY <1>1, <2>3, <4>1
    <3>2. Cardinality(Admitted(clock)) <= Limit
      BY <1>1 DEF GatewayInv, AdmittedInWindow, Admitted
    <3>3. Admitted(clock) \subseteq Requests
      BY DEF Admitted
    <3>4. IsFiniteSet(Admitted(clock)) /\ IsFiniteSet(Admitted(t))
      BY <3>1, <3>3, FS_Subset
    <3>5. Cardinality(Admitted(t)) <= Cardinality(Admitted(clock))
      BY <3>1, <3>4, FS_Subset
    <3> QED
      BY <2>1, <3>2, <3>4, <3>5, FS_CardinalityType
  <2> QED
    BY <1>1, <2>2, <2>3
<1>5. AdmittedInWindow'
  BY <1>1, <1>4 DEF AdmittedInWindow, Admitted
<1> QED
  BY <1>2, <1>3, <1>5 DEF GatewayInv

LEMMA GatewayNextInv == GatewayInv /\ [GatewayNext]_gatewayVars => GatewayInv'
<1> SUFFICES ASSUME GatewayInv, [GatewayNext]_gatewayVars PROVE GatewayInv'
  OBVIOUS
<1>1. CASE Tick
  BY <1>1, TickInv
<1>2. ASSUME NEW r \in Requests, Arrive(r) \/ Serve(r) \/ Relay(r) \/ EndStream(r) PROVE GatewayInv'
  BY <1>2, ArriveInv, CountInv, FailOpenInv, AuthorizeInv, AttemptInv, ProbeInv, OpenInv, RelayInv, EndStreamInv
     DEF Serve
<1>3. CASE UNCHANGED gatewayVars
  <2>1. UNCHANGED <<load, clock, hits, expires, call>>
    BY <1>3 DEF gatewayVars
  <2> QED
    BY <2>1 DEF GatewayInv, GatewayTypes, CallInv, AnswerInv, SetInv, AdmittedInWindow
<1> QED
  BY <1>1, <1>2, <1>3 DEF GatewayNext

\* Those who ask about others are administrators.
LEMMA AsksAreAllowed ==
    ASSUME NEW x \in UNION {UserRoutes, OrganizationRoutes, MemberRoutes}, NEW by \in Callers,
           RoleFits(x, by), CheckFits(x, by), ~by.own
    PROVE  by.role = "admin"
BY DEF UserRoutes, OrganizationRoutes, MemberRoutes, R, RoleFits, CheckFits, Callers

LEMMA GatewayPromises ==
    ASSUME GatewayInv
    PROVE  /\ GatewayTypeOK /\ ForeignIsForAdmins /\ DoneIsSent
           /\ AdmittedInWindow /\ ToldIsHeard
<1> USE GatewayNumbers
<1>1. GatewayTypeOK
  BY DEF GatewayInv, GatewayTypes, CallInv, CallType, Ats, GatewayTypeOK
<1>2. ForeignIsForAdmins
  <2> SUFFICES ASSUME NEW r \in Requests, call[r].tries > 0, ~call[r].by.own,
                      call[r].route \in UNION {UserRoutes, OrganizationRoutes, MemberRoutes}
               PROVE  call[r].by.role = "admin"
    BY DEF ForeignIsForAdmins
  <2>1. /\ call[r].by \in Callers
        /\ RoleFits(call[r].route, call[r].by) /\ CheckFits(call[r].route, call[r].by)
    BY DEF GatewayInv, GatewayTypes, CallInv, CallType
  <2> QED
    BY <2>1, AsksAreAllowed
<1>3. DoneIsSent
  BY DEF GatewayInv, GatewayTypes, CallInv, AnswerInv, CallType, DoneIsSent
<1>4. ToldIsHeard
  BY DEF GatewayInv, AnswerInv, ToldIsHeard
<1> QED
  BY <1>1, <1>2, <1>3, <1>4 DEF GatewayInv

---------------------------------------------------------------------------
(* The shared limiter.                                                     *)

\* A visit on its way to a script has a key, and a clock that is not old.
VisitInv(v) ==
    /\ visit[v].now <= seconds
    /\ visit[v].at \in {"user", "ip"} => seconds <= visit[v].now + LongestWay
    /\ visit[v].at = "user" => UserOf[v] # NoIdentity
    /\ visit[v].at = "ip" => IpOf[v] # NoIdentity

\* What was let through not long ago is still a member.
LetInv(l) ==
    /\ l.time <= seconds /\ l.time <= l.member.score + LongestWay
    /\ l.time + WindowSeconds <= expiry[l.key]
    /\ l.time > seconds - (WindowSeconds - LongestWay) => l.member \in members[l.key]

LimiterInv ==
    /\ WindowTypeOK
    /\ \A v \in Visits : VisitInv(v)
    /\ \A l \in let : LetInv(l)
    /\ \A k \in LimitKeys : IsFiniteSet(members[k]) /\ Cardinality(members[k]) <= LimitOf(k)

LEMMA LimiterNumbers ==
    /\ WindowSeconds \in Nat /\ WindowSeconds > 0 /\ PerUser \in Nat /\ PerIp \in Nat
    /\ LongestWay \in Nat /\ MaxSeconds \in Nat /\ OpenOnFailure \in BOOLEAN
    /\ \A k : LimitOf(k) \in Nat
BY WindowAssumption DEF LimitOf

LEMMA LimiterInitInv == WindowInit => LimiterInv
<1> SUFFICES ASSUME WindowInit PROVE LimiterInv
  OBVIOUS
<1> USE LimiterNumbers
<1>1. WindowTypeOK
  BY DEF WindowInit, WindowTypeOK, NewVisit
<1>2. \A k \in LimitKeys : IsFiniteSet(members[k]) /\ Cardinality(members[k]) <= LimitOf(k)
  BY FS_EmptySet DEF WindowInit
<1>3. \A v \in Visits : VisitInv(v)
  BY DEF WindowInit, VisitInv, NewVisit
<1> QED
  BY <1>1, <1>2, <1>3 DEF LimiterInv, WindowInit

\* A step of visits that no script takes part in.
LEMMA VisitStep ==
    ASSUME LimiterInv, UNCHANGED <<seconds, members, expiry, let>>, WindowTypeOK',
           \A v \in Visits : VisitInv(v)'
    PROVE  LimiterInv'
BY DEF LimiterInv, LetInv

LEMMA DispatchInv == ASSUME LimiterInv, NEW v \in Visits, Dispatch(v) \/ CallNext(v) PROVE LimiterInv'
<1> USE LimiterNumbers
<1>1. WindowTypeOK'
  BY DEF LimiterInv, WindowTypeOK, Dispatch, CallNext, AfterUser, Ended
<1>2. \A w \in Visits : VisitInv(w)'
  BY DEF LimiterInv, WindowTypeOK, VisitInv, Dispatch, CallNext, AfterUser, Ended
<1> QED
  BY <1>1, <1>2, VisitStep DEF Dispatch, CallNext

LEMMA PassSecondInv == ASSUME LimiterInv, PassSecond PROVE LimiterInv'
<1> USE LimiterNumbers
<1>1. WindowTypeOK'
  BY DEF LimiterInv, WindowTypeOK, PassSecond
<1>2. \A w \in Visits : VisitInv(w)'
  BY DEF LimiterInv, WindowTypeOK, VisitInv, PassSecond
<1>3. ASSUME NEW l \in let PROVE LetInv(l)'
  <2>1. LetInv(l) /\ l.time \in Nat /\ l.member.score \in Nat /\ l.key \in LimitKeys /\ seconds \in Nat
    BY DEF LimiterInv, WindowTypeOK, Member
  <2> QED
    BY <2>1 DEF LetInv, PassSecond
<1> QED
  BY <1>1, <1>2, <1>3 DEF LimiterInv, PassSecond

\* What was let through not long ago is not removed by a script with a clock
\* that is not old.
LEMMA RemainingKeeps ==
    ASSUME LimiterInv, NEW k \in LimitKeys, NEW now \in Nat, now <= seconds,
           NEW l \in let, l.key = k, l.time > seconds - (WindowSeconds - LongestWay)
    PROVE  l.member \in Remaining(k, now)
<1> USE LimiterNumbers
<1>1. LetInv(l) /\ l.time \in Nat /\ l.member.score \in Nat /\ seconds \in Nat /\ expiry[k] \in Nat
  BY DEF LimiterInv, WindowTypeOK, Member
<1> QED
  BY <1>1 DEF LetInv, Remaining

LEMMA RemainingIs ==
    ASSUME LimiterInv, NEW k \in LimitKeys, NEW now \in Nat
    PROVE  /\ Remaining(k, now) \subseteq members[k] /\ Remaining(k, now) \subseteq Member
           /\ IsFiniteSet(Remaining(k, now))
           /\ Cardinality(Remaining(k, now)) \in Nat /\ Cardinality(Remaining(k, now)) <= LimitOf(k)
<1>1. Remaining(k, now) \subseteq members[k] /\ members[k] \subseteq Member
  BY DEF Remaining, LimiterInv, WindowTypeOK
<1>2. IsFiniteSet(members[k]) /\ Cardinality(members[k]) <= LimitOf(k)
  BY DEF LimiterInv
<1>3. IsFiniteSet(Remaining(k, now)) /\ Cardinality(Remaining(k, now)) <= Cardinality(members[k])
  BY <1>1, <1>2, FS_Subset
<1>4. Cardinality(Remaining(k, now)) \in Nat /\ Cardinality(members[k]) \in Nat
  BY <1>2, <1>3, FS_CardinalityType
<1> QED
  BY <1>1, <1>2, <1>3, <1>4, LimiterNumbers

\* A script run for a key, whatever becomes of its answer.
LEMMA ScriptKeeps ==
    ASSUME LimiterInv, NEW v \in Visits, NEW k \in LimitKeys, seconds' = seconds,
           Refuse(v, k) \/ Admit(v, k) \/ UNCHANGED <<members, expiry, let>>,
           visit[v].at \in {"user", "ip"}
    PROVE  /\ members' \in [LimitKeys -> SUBSET Member]
           /\ expiry' \in [LimitKeys -> 0..(MaxSeconds + WindowSeconds)]
           /\ let' \subseteq [key : LimitKeys, member : Member, time : 0..MaxSeconds]
           /\ \A l \in let' : LetInv(l)'
           /\ \A q \in LimitKeys : IsFiniteSet(members'[q]) /\ Cardinality(members'[q]) <= LimitOf(q)
<1> USE LimiterNumbers
<1> DEFINE now == visit[v].now
           left == Remaining(k, now)
           new == [score |-> now, tick |-> TickOf[v]]
<1>1. /\ seconds \in 0..MaxSeconds /\ now \in 0..MaxSeconds /\ now <= seconds /\ seconds <= now + LongestWay
      /\ members \in [LimitKeys -> SUBSET Member]
      /\ expiry \in [LimitKeys -> 0..(MaxSeconds + WindowSeconds)]
      /\ let \subseteq [key : LimitKeys, member : Member, time : 0..MaxSeconds]
  BY DEF LimiterInv, WindowTypeOK, VisitInv
<1>2. new \in Member
  BY <1>1 DEF Member
<1>3. /\ left \subseteq members[k] /\ left \subseteq Member /\ IsFiniteSet(left)
      /\ Cardinality(left) \in Nat /\ Cardinality(left) <= LimitOf(k)
  BY <1>1, RemainingIs
<1>4. \A l \in let : l.key = k /\ l.time > seconds - (WindowSeconds - LongestWay) => l.member \in left
  BY <1>1, RemainingKeeps
<1>5. \A l \in let : LetInv(l) /\ l.time \in Nat /\ l.key \in LimitKeys
  BY <1>1 DEF LimiterInv
<1>6. \A q \in LimitKeys : IsFiniteSet(members[q]) /\ Cardinality(members[q]) <= LimitOf(q)
  BY DEF LimiterInv
<1> HIDE DEF left
<1>7. CASE Refuse(v, k)
  <2>1. members' = [members EXCEPT ![k] = left] /\ UNCHANGED <<expiry, let>>
    BY <1>7 DEF Refuse, left
  <2>2. \A l \in let' : LetInv(l)'
    BY <1>1, <1>4, <1>5, <2>1 DEF LetInv
  <2> QED
    BY <1>1, <1>3, <1>6, <2>1, <2>2
<1>8. CASE Admit(v, k)
  <2> DEFINE e == [key |-> k, member |-> new, time |-> seconds]
  <2>1. /\ members' = [members EXCEPT ![k] = left \union {new}] /\ Cardinality(left) < LimitOf(k)
        /\ expiry' = [expiry EXCEPT ![k] = seconds + WindowSeconds]
        /\ let' = let \union {e}
    BY <1>8 DEF Admit, left
  <2>2. e \in [key : LimitKeys, member : Member, time : 0..MaxSeconds]
    BY <1>1, <1>2
  <2>3. IsFiniteSet(left \union {new}) /\ Cardinality(left \union {new}) <= LimitOf(k)
    <3>1. /\ IsFiniteSet(left \cup {new})
          /\ Cardinality(left \cup {new}) = IF new \in left THEN Cardinality(left) ELSE Cardinality(left) + 1
      <4> HIDE DEF new
      <4> QED
        BY <1>3, FS_AddElement
    <3> QED
      BY <1>3, <2>1, <3>1
  <2>4. ASSUME NEW l \in let PROVE LetInv(l)'
    <3>1. LetInv(l) /\ l.time \in Nat /\ l.key \in LimitKeys
      BY <1>5
    <3>2. l.time + WindowSeconds <= expiry'[l.key]
      BY <1>1, <2>1, <3>1 DEF LetInv
    <3>3. l.time > seconds - (WindowSeconds - LongestWay) => l.member \in members'[l.key]
      <4>1. CASE l.key = k
        BY <1>1, <1>4, <2>1, <4>1
      <4>2. CASE l.key # k
        <5>1. members'[l.key] = members[l.key]
          BY <1>1, <2>1, <3>1, <4>2
        <5> QED
          BY <3>1, <5>1 DEF LetInv
      <4> QED
        BY <4>1, <4>2
    <3> QED
      BY <3>1, <3>2, <3>3 DEF LetInv
  <2>5. ASSUME NEW l, l = e PROVE LetInv(l)'
    <3>1. l.key = k /\ l.member = new /\ l.time = seconds /\ l.member.score = now
      BY <2>5
    <3>2. expiry'[k] = seconds + WindowSeconds /\ new \in members'[k]
      BY <1>1, <2>1
    <3> HIDE DEF e, new
    <3> QED
      BY <1>1, <3>1, <3>2 DEF LetInv
  <2> HIDE DEF e, new
  <2>6. members' \in [LimitKeys -> SUBSET Member]
    BY <1>1, <1>2, <1>3, <2>1
  <2>7. expiry' \in [LimitKeys -> 0..(MaxSeconds + WindowSeconds)]
    BY <1>1, <2>1
  <2>8. \A q \in LimitKeys : IsFiniteSet(members'[q]) /\ Cardinality(members'[q]) <= LimitOf(q)
    BY <1>1, <1>6, <2>1, <2>3
  <2> QED
    BY <1>1, <2>1, <2>2, <2>4, <2>5, <2>6, <2>7, <2>8
<1>9. CASE UNCHANGED <<members, expiry, let>>
  BY <1>1, <1>5, <1>6, <1>9 DEF LetInv
<1> QED
  BY <1>7, <1>8, <1>9

LEMMA CheckLimitInv ==
    ASSUME LimiterInv, NEW v \in Visits, NEW k \in LimitKeys, NEW next \in {"ip", "through"},
           visit[v].at \in {"user", "ip"}, next = "ip" => IpOf[v] # NoIdentity, CheckLimit(v, k, next)
    PROVE  LimiterInv'
<1> USE LimiterNumbers
<1>1. /\ seconds' = seconds
      /\ Refuse(v, k) \/ Admit(v, k) \/ UNCHANGED <<members, expiry, let>>
  BY DEF CheckLimit
<1>2. /\ members' \in [LimitKeys -> SUBSET Member]
      /\ expiry' \in [LimitKeys -> 0..(MaxSeconds + WindowSeconds)]
      /\ let' \subseteq [key : LimitKeys, member : Member, time : 0..MaxSeconds]
      /\ \A l \in let' : LetInv(l)'
      /\ \A q \in LimitKeys : IsFiniteSet(members'[q]) /\ Cardinality(members'[q]) <= LimitOf(q)
  BY <1>1, ScriptKeeps
<1>3. \/ visit' = [visit EXCEPT ![v].at = next] \/ visit' = [visit EXCEPT ![v].at = "through"]
      \/ visit' = [visit EXCEPT ![v].at = "answered", ![v].answer = "429"]
      \/ visit' = [visit EXCEPT ![v].at = "answered", ![v].answer = "503"]
  BY DEF CheckLimit, Ended
<1>4. WindowTypeOK'
  BY <1>1, <1>2, <1>3 DEF LimiterInv, WindowTypeOK
<1>5. \A w \in Visits : VisitInv(w)'
  BY <1>1, <1>3 DEF LimiterInv, WindowTypeOK, VisitInv
<1> QED
  BY <1>2, <1>4, <1>5 DEF LimiterInv

LEMMA LimiterNextInv == LimiterInv /\ [WindowNext]_windowVars => LimiterInv'
<1> SUFFICES ASSUME LimiterInv, [WindowNext]_windowVars PROVE LimiterInv'
  OBVIOUS
<1>1. ASSUME NEW v \in Visits, CheckUser(v) PROVE LimiterInv'
  <2>1. UserOf[v] # NoIdentity
    BY <1>1 DEF CheckUser, LimiterInv, VisitInv
  <2>2. <<"user", UserOf[v]>> \in LimitKeys
    BY <2>1 DEF LimitKeys, UserKeys
  <2>3. AfterUser(v) \in {"ip", "through"} /\ (AfterUser(v) = "ip" => IpOf[v] # NoIdentity)
    BY DEF AfterUser
  <2> QED
    BY <1>1, <2>2, <2>3, CheckLimitInv DEF CheckUser
<1>2. ASSUME NEW v \in Visits, CheckIp(v) PROVE LimiterInv'
  <2>1. IpOf[v] # NoIdentity
    BY <1>2 DEF CheckIp, LimiterInv, VisitInv
  <2>2. <<"ip", IpOf[v]>> \in LimitKeys
    BY <2>1 DEF LimitKeys, IpKeys
  <2> QED
    BY <1>2, <2>2, CheckLimitInv DEF CheckIp
<1>3. CASE UNCHANGED windowVars
  BY <1>3 DEF windowVars, LimiterInv, WindowTypeOK, VisitInv, LetInv
<1> QED
  BY <1>1, <1>2, <1>3, DispatchInv, PassSecondInv DEF WindowNext

LEMMA LimiterPromises == LimiterInv => WindowTypeOK /\ LimitsHold
<1> SUFFICES ASSUME LimiterInv, NEW k \in LimitKeys PROVE Cardinality(Recent(k)) <= LimitOf(k)
  BY DEF LimiterInv, LimitsHold
<1>1. Recent(k) \subseteq members[k]
  BY DEF LimiterInv, LetInv, Recent
<1>2. IsFiniteSet(members[k]) /\ Cardinality(members[k]) <= LimitOf(k)
  BY DEF LimiterInv
<1>3. IsFiniteSet(Recent(k)) /\ Cardinality(Recent(k)) <= Cardinality(members[k])
  BY <1>1, <1>2, FS_Subset
<1> QED
  BY <1>2, <1>3, FS_CardinalityType, LimiterNumbers

---------------------------------------------------------------------------
(* The auth service.                                                       *)

AuthOp      == {"none", "register", "login", "refresh", "logout"}
AuthPlace   == {"new", "register", "assigning", "checking", "flushing", "committing", "looking",
            "login", "asking", "asking, no row", "asking, no link", "linking",
            "refresh", "revoking", "replacing", "logout", "answered"}
AuthAnswer  == {"none", "ok", "401", "409", "500", "503"}
AuthCall == [op : AuthOp, at : AuthPlace, token : Nat, answer : AuthAnswer]

\* Where a request that has a token may be; everything else it has is left out.
TokenInv ==
    /\ issued \in Nat /\ issued <= MaxTokens
    /\ live \subseteq 1..issued /\ ended \subseteq 1..issued /\ overlapped \subseteq ended
    /\ parent \in [Tokens -> Nat] /\ \A t \in Tokens : parent[t] <= issued
    /\ service \in [Calls -> AuthCall]
    /\ \A c \in Calls : service[c].at \in {"refresh", "logout", "revoking", "replacing"}
                            => service[c].token \in 1..issued

\* The own tokens: who replaces one has deleted it, and one that a logout has
\* ended while nobody was exchanging it is in nobody's hands.
Spent ==
    /\ \A c \in Calls : service[c].at = "replacing" => service[c].token \notin live
    /\ \A t \in ended \ overlapped : ~Exchanging(t)

Guarded == {"revoking", "replacing"}

AInv == TokenInv /\ (mode = "local" => Spent /\ SpentStaysSpent)

\* What a request changes of itself: where it is, and perhaps its token.
Moves(c) ==
    /\ service' \in [Calls -> AuthCall]
    /\ \A d \in Calls \ {c} : service'[d] = service[d]

LEMMA AccountsInitInv == AccountsInit => AInv
  BY AccountsAssumption
     DEF AccountsInit, AInv, TokenInv, Spent, SpentStaysSpent, RotatedIsSpent, LoggedOutIsOut,
     Exchanging, NoService, AuthCall, AuthOp, AuthPlace, AuthAnswer, Tokens

LEMMA OneMoves ==
    ASSUME service \in [Calls -> AuthCall], NEW c \in Calls, NEW r \in AuthCall,
           service' = [service EXCEPT ![c] = r]
    PROVE  Moves(c) /\ service'[c] = r
  BY DEF Moves

LEMMA GoIs ==
    ASSUME AInv, NEW c \in Calls, NEW at \in AuthPlace, Go(c, at)
    PROVE  Moves(c) /\ service'[c].at = at /\ service'[c].token = service[c].token
<1> DEFINE r == [service[c] EXCEPT !.at = at]
<1>1. service \in [Calls -> AuthCall]
      BY DEF AInv, TokenInv
<1>2. service' = [service EXCEPT ![c] = r]
      BY DEF Go
<1>3. r \in AuthCall /\ r.at = at /\ r.token = service[c].token
      BY <1>1 DEF AuthCall
<1> HIDE DEF r
<1>4. Moves(c) /\ service'[c] = r
      BY <1>1, <1>2, <1>3, OneMoves
<1> QED BY <1>3, <1>4

LEMMA ReplyIs ==
    ASSUME AInv, NEW c \in Calls, NEW answer \in AuthAnswer, Reply(c, answer)
    PROVE  Moves(c) /\ service'[c].at = "answered" /\ service'[c].token = service[c].token
<1> DEFINE r == [service[c] EXCEPT !.at = "answered", !.answer = answer]
<1>1. service \in [Calls -> AuthCall]
      BY DEF AInv, TokenInv
<1>2. service' = [service EXCEPT ![c] = r]
      BY DEF Reply
<1>3. r \in AuthCall /\ r.at = "answered" /\ r.token = service[c].token
      BY <1>1 DEF AuthCall, AuthPlace
<1> HIDE DEF r
<1>4. Moves(c) /\ service'[c] = r
      BY <1>1, <1>2, <1>3, OneMoves
<1> QED BY <1>3, <1>4

\* Most steps leave the tokens alone and bring the request nowhere near one.
LEMMA Elsewhere ==
    ASSUME AInv, NEW c \in Calls, Moves(c),
           service'[c].at \in Guarded \union {"refresh", "logout"}
               => service'[c].token \in 1..issued,
           mode = "local" => service'[c].at \notin Guarded,
           UNCHANGED <<mode, live, issued, parent, logouts>>
    PROVE  AInv'
<1>1. TokenInv'
      BY DEF AInv, TokenInv, Moves, Guarded, logouts
<1>2. ASSUME mode' = "local" PROVE (Spent /\ SpentStaysSpent)'
      <2>1. \A t : Exchanging(t)' => Exchanging(t)
            BY <1>2 DEF Exchanging, Moves, Guarded
      <2>2. Spent'
            BY <1>2, <2>1 DEF AInv, Spent, Moves, Guarded, logouts
      <2> QED BY <1>2, <2>2 DEF AInv, SpentStaysSpent, RotatedIsSpent, LoggedOutIsOut, logouts
<1> QED BY <1>1, <1>2 DEF AInv

\* An own token takes the place of none, or of one that its request has deleted.
Proper(c, others, from) ==
    mode = "local" =>
        /\ others = live
        /\ from = 0 \/ (/\ from \in 1..issued /\ from \notin live
                       /\ service[c].at = "replacing" /\ service[c].token = from)

\* A token is issued: the next one, in the place of none or of one that is not
\* valid any more.
LEMMA IssuesOne ==
    ASSUME AInv, NEW c \in Calls, NEW others, others \subseteq live, NEW from \in 0..issued,
           NEW at \in AuthPlace, NEW answer \in AuthAnswer, at \notin Guarded \union {"refresh", "logout"},
           Issue(c, others, from, at, answer), UNCHANGED <<mode, logouts>>,
           Proper(c, others, from)
    PROVE  AInv'
<1>1. /\ issued' = issued + 1 /\ issued < MaxTokens /\ live' = others \union {issued'}
      /\ parent' = [parent EXCEPT ![issued'] = from]
      /\ issued \in Nat /\ issued' \in Tokens
      BY AccountsAssumption DEF Issue, AInv, TokenInv, Tokens
<1>2. Moves(c) /\ service'[c].at = at
      <2> DEFINE r == [service[c] EXCEPT !.at = at, !.answer = answer, !.token = issued + 1]
      <2>1. service \in [Calls -> AuthCall] /\ issued + 1 \in Nat
            BY DEF AInv, TokenInv
      <2>2. service' = [service EXCEPT ![c] = r]
            BY DEF Issue
      <2>3. r \in AuthCall /\ r.at = at
            BY <2>1 DEF AuthCall
      <2> HIDE DEF r
      <2>4. Moves(c) /\ service'[c] = r
            BY <2>1, <2>2, <2>3, OneMoves
      <2> QED BY <2>3, <2>4
<1>3. TokenInv'
      BY <1>1, <1>2, AccountsAssumption DEF AInv, TokenInv, Moves, Guarded, logouts
<1>4. ASSUME mode' = "local" PROVE (Spent /\ SpentStaysSpent)'
      <2>1. /\ AInv /\ mode = "local" /\ others = live
            /\ from = 0 \/ (/\ from \in 1..issued /\ from \notin live
                           /\ service[c].at = "replacing" /\ service[c].token = from)
            BY <1>4 DEF Proper
      <2>2. \A t : Exchanging(t)' => Exchanging(t)
            BY <1>2 DEF Exchanging, Moves, Guarded
      <2>3. Spent'
            <3>1. \A d \in Calls : service'[d].at = "replacing" => service'[d].token \notin live'
                  BY <1>1, <1>2, <2>1 DEF AInv, TokenInv, Spent, Moves, Guarded
            <3> QED BY <2>1, <2>2, <3>1 DEF AInv, Spent, logouts
      <2>4. RotatedIsSpent'
            <3> SUFFICES ASSUME NEW t \in live', NEW u \in 1..issued' PROVE parent'[u] # t
                BY DEF RotatedIsSpent
            <3>1. CASE u = issued'
                  BY <1>1, <2>1, <3>1 DEF AInv, TokenInv
            <3>2. CASE u # issued' /\ t = issued'
                  <4>1. u \in Tokens /\ parent'[u] = parent[u] /\ parent[u] <= issued /\ parent[u] \in Nat
                        BY <1>1, <3>2, AccountsAssumption DEF AInv, TokenInv, Tokens
                  <4> QED BY <4>1, <3>2, <1>1
            <3>3. CASE u # issued' /\ t # issued'
                  BY <1>1, <2>1, <3>3 DEF AInv, TokenInv, SpentStaysSpent, RotatedIsSpent
            <3> QED BY <3>1, <3>2, <3>3
      <2>5. LoggedOutIsOut'
            <3> SUFFICES ASSUME NEW t \in ended
                         PROVE  /\ t \notin live'
                                /\ t \notin overlapped => \A u \in 1..issued' : parent'[u] # t
                BY DEF LoggedOutIsOut, logouts
            <3>0. Spent /\ LoggedOutIsOut /\ ended \subseteq 1..issued
                  BY <2>1 DEF AInv, TokenInv, SpentStaysSpent
            <3>a. t \notin overlapped => t \in ended \ overlapped
                  OBVIOUS
            <3>b. t \notin overlapped => ~Exchanging(t)
                  BY <3>0, <3>a DEF Spent
            <3>1. t \in 1..issued /\ t \notin live /\ (t \notin overlapped => ~Exchanging(t))
                  BY <2>1, <3>0, <3>b DEF LoggedOutIsOut
            <3>2. t \notin live'
                  BY <1>1, <2>1, <3>1
            <3>3. ASSUME t \notin overlapped, NEW u \in 1..issued' PROVE parent'[u] # t
                  <4>1. CASE u = issued'
                        <5>1. parent'[u] = from
                              BY <1>1, <4>1 DEF AInv, TokenInv
                        <5>2. from = t => Exchanging(t)
                              BY <1>1, <2>1, <3>1 DEF Exchanging
                        <5> QED BY <3>1, <3>3, <5>1, <5>2
                  <4>2. CASE u # issued'
                        BY <1>1, <2>1, <3>3, <4>2 DEF AInv, TokenInv, SpentStaysSpent, LoggedOutIsOut
                  <4> QED BY <4>1, <4>2
            <3> QED BY <3>2, <3>3
      <2> QED BY <2>3, <2>4, <2>5 DEF SpentStaysSpent
<1> QED BY <1>3, <1>4 DEF AInv

\* Go and Reply to a place that has nothing to do with tokens.
LEMMA GoesOn ==
    ASSUME AInv, NEW c \in Calls, NEW at \in AuthPlace, at \notin Guarded \union {"refresh", "logout"},
           Go(c, at), UNCHANGED <<mode, live, issued, parent, logouts>>
    PROVE  AInv'
  BY GoIs, Elsewhere

LEMMA RepliesMove ==
    ASSUME AInv, NEW c \in Calls, NEW answer \in AuthAnswer,
           Reply(c, answer), UNCHANGED <<mode, live, issued, parent, logouts>>
    PROVE  AInv'
<1>1. Moves(c) /\ service'[c].at = "answered"
      BY ReplyIs
<1> QED BY <1>1, Elsewhere DEF Guarded

LEMMA RequestInv == ASSUME AInv, NEW c \in Calls, Request(c) PROVE AInv'
<1>1. UNCHANGED <<mode, live, issued, parent, logouts>>
      BY DEF Request
<1>2. service \in [Calls -> AuthCall]
      BY DEF AInv, TokenInv
<1>3. ASSUME NEW op \in {"register", "login"}, NEW at \in {"register", "login", "checking", "looking"},
             service' = [service EXCEPT ![c] = [@ EXCEPT !.op = op, !.at = at]]
      PROVE  AInv'
      <2> DEFINE r == [service[c] EXCEPT !.op = op, !.at = at]
      <2>1. r \in AuthCall /\ r.at = at
            BY <1>2 DEF AuthCall, AuthOp, AuthPlace
      <2>2. service' = [service EXCEPT ![c] = r]
            BY <1>3
      <2> HIDE DEF r
      <2>3. Moves(c) /\ service'[c] = r
            BY <1>2, <2>1, <2>2, OneMoves
      <2> QED BY <1>1, <2>1, <2>3, Elsewhere DEF Guarded
<1>4. ASSUME NEW op \in {"refresh", "logout"}, NEW t \in 1..issued,
             service' = [service EXCEPT ![c] = [@ EXCEPT !.op = op, !.at = op, !.token = t]]
      PROVE  AInv'
      <2> DEFINE r == [service[c] EXCEPT !.op = op, !.at = op, !.token = t]
      <2>1. t \in Nat
            BY DEF AInv, TokenInv
      <2>2. r \in AuthCall /\ r.at = op /\ r.token = t
            BY <1>2, <2>1 DEF AuthCall, AuthOp, AuthPlace
      <2>3. service' = [service EXCEPT ![c] = r]
            BY <1>4
      <2> HIDE DEF r
      <2>4. Moves(c) /\ service'[c] = r
            BY <1>2, <2>2, <2>3, OneMoves
      <2> QED BY <1>1, <2>2, <2>4, Elsewhere DEF Guarded
<1> QED BY <1>3, <1>4 DEF Request

\* Registration, and a login up to its token and after it.
LEMMA AccountStepsInv ==
    ASSUME AInv, NEW c \in Calls,
           \/ CreateIdentity(c) \/ AssignRole(c) \/ CheckUnique(c) \/ Insert(c) \/ CommitRow(c)
           \/ LookUp(c) \/ Link(c)
    PROVE  AInv'
<1>1. UNCHANGED <<mode, live, issued, parent, logouts>>
      BY DEF CreateIdentity, AssignRole, CheckUnique, Insert, CommitRow, LookUp, Link
<1>2. ASSUME NEW answer \in {"ok", "401", "409", "500", "503"}, Reply(c, answer) PROVE AInv'
      <2>1. answer \in AuthAnswer
            BY DEF AuthAnswer
      <2> QED BY <1>1, <1>2, <2>1, RepliesMove
<1>3. ASSUME NEW at \in {"assigning", "checking", "flushing", "committing", "asking, no row",
                         "asking, no link", "asking"}, Go(c, at) PROVE AInv'
      <2>1. at \in AuthPlace /\ at \notin Guarded \union {"refresh", "logout"}
            BY DEF AuthPlace, Guarded
      <2> QED BY <1>1, <1>3, <2>1, GoesOn
<1>4. CASE LookUp(c)
      <2>1. \E at \in {"asking, no row", "asking, no link", "asking"} : Go(c, at)
            BY <1>4 DEF LookUp
      <2> QED BY <1>3, <2>1
<1>5. CASE CreateIdentity(c) \/ AssignRole(c)
      BY <1>2, <1>3, <1>5 DEF CreateIdentity, AssignRole
<1>6. CASE CheckUnique(c) \/ Insert(c)
      BY <1>2, <1>3, <1>6 DEF CheckUnique, Insert
<1>7. CASE CommitRow(c) \/ Link(c)
      BY <1>2, <1>7 DEF CommitRow, Link
<1> QED BY <1>4, <1>5, <1>6, <1>7

LEMMA LoginInv == ASSUME AInv, NEW c \in Calls, LoginLocal(c) \/ AskKeycloak(c) PROVE AInv'
<1>1. UNCHANGED <<mode, logouts>>
      BY DEF LoginLocal, AskKeycloak
<1>2. ASSUME NEW answer \in {"401", "500", "503"}, Reply(c, answer),
             UNCHANGED <<live, issued, parent>>
      PROVE  AInv'
      <2>1. answer \in AuthAnswer
            BY DEF AuthAnswer
      <2> QED BY <1>1, <1>2, <2>1, RepliesMove
<1>3. ASSUME NEW at \in {"answered", "checking", "linking"}, NEW answer \in {"ok", "none"},
             Issue(c, live, 0, at, answer)
      PROVE  AInv'
      <2>1. at \in AuthPlace /\ answer \in AuthAnswer /\ at \notin Guarded \union {"refresh", "logout"}
            BY DEF AuthPlace, AuthAnswer, Guarded
      <2>2. 0 \in 0..issued
            BY DEF AInv, TokenInv
      <2>3. live \subseteq live /\ Proper(c, live, 0)
            BY DEF Proper
      <2> QED BY <1>1, <1>3, <2>1, <2>2, <2>3, IssuesOne
<1>4. CASE LoginLocal(c)
      BY <1>2, <1>3, <1>4 DEF LoginLocal
<1>5. CASE AskKeycloak(c)
      BY <1>2, <1>3, <1>5 DEF AskKeycloak
<1> QED BY <1>4, <1>5

LEMMA RefreshKeycloakInv == ASSUME AInv, NEW c \in Calls, RefreshKeycloak(c) PROVE AInv'
<1>1. mode # "local" /\ UNCHANGED <<mode, logouts>>
      BY DEF RefreshKeycloak
<1>2. ASSUME NEW answer \in {"401", "503"}, Reply(c, answer), UNCHANGED <<live, issued, parent>>
      PROVE  AInv'
      <2>1. answer \in AuthAnswer
            BY DEF AuthAnswer
      <2> QED BY <1>1, <1>2, <2>1, RepliesMove
<1>3. ASSUME NEW others \in {live, live \ {service[c].token}},
             Issue(c, others, service[c].token, "answered", "ok")
      PROVE  AInv'
      <2>1. /\ service[c].token \in 0..issued /\ others \subseteq live
            /\ "answered" \in AuthPlace /\ "ok" \in AuthAnswer
            /\ "answered" \notin Guarded \union {"refresh", "logout"}
            /\ Proper(c, others, service[c].token)
            BY <1>1 DEF RefreshKeycloak, AInv, TokenInv, AuthPlace, AuthAnswer, Guarded, Proper
      <2> QED BY <1>1, <1>3, <2>1, IssuesOne
<1> QED BY <1>2, <1>3 DEF RefreshKeycloak

\* A token that is being exchanged was valid when it was read, and no logout had
\* ended it.
LEMMA ReadTokenInv == ASSUME AInv, NEW c \in Calls, ReadToken(c) PROVE AInv'
<1>1. CASE Reply(c, "401") \/ Reply(c, "500")
      <2>1. "401" \in AuthAnswer /\ "500" \in AuthAnswer
            BY DEF AuthAnswer
      <2> QED BY <1>1, <2>1, RepliesMove DEF ReadToken
<1>2. CASE service[c].token \in live /\ Go(c, "revoking")
      <2>1. /\ Moves(c) /\ service'[c].at = "revoking" /\ service'[c].token = service[c].token
            /\ service[c].at = "refresh" /\ UNCHANGED <<mode, live, issued, parent, ended, overlapped>>
            BY <1>2, GoIs DEF ReadToken, AuthPlace, logouts
      <2>2. TokenInv'
            BY <2>1 DEF AInv, TokenInv, Moves
      <2>3. ASSUME mode' = "local" PROVE (Spent /\ SpentStaysSpent)'
            <3>0. Spent /\ LoggedOutIsOut
                  BY <2>1, <2>3 DEF AInv, SpentStaysSpent
            <3>1. ASSUME NEW t \in ended \ overlapped PROVE ~Exchanging(t)'
                  <4>1. ~Exchanging(t) /\ t # service[c].token
                        <5>1. mode = "local" /\ t \in ended \ overlapped
                              BY <2>1, <2>3
                        <5>2. t \notin live
                              BY <3>0, <5>1 DEF LoggedOutIsOut
                        <5>3. ~Exchanging(t)
                              BY <3>0, <5>1 DEF Spent
                        <5> QED BY <1>2, <5>2, <5>3
                  <4> QED BY <2>1, <4>1 DEF Exchanging, Moves
            <3>2. \A d \in Calls : service'[d].at = "replacing" => service'[d].token \notin live'
                  BY <2>1, <2>3 DEF AInv, Spent, Moves
            <3>3. Spent'
                  BY <2>1, <3>1, <3>2 DEF Spent
            <3> QED BY <2>1, <2>3, <3>3 DEF AInv, SpentStaysSpent, RotatedIsSpent, LoggedOutIsOut
      <2> QED BY <2>2, <2>3 DEF AInv
<1> QED BY <1>1, <1>2 DEF ReadToken

\* A step that takes valid tokens away at most, and ends no session, keeps what
\* is known of them.
LEMMA Loses ==
    ASSUME AInv, NEW c \in Calls, Moves(c), service'[c].token = service[c].token,
           \/ service'[c].at = "answered"
           \/ /\ service[c].at = "revoking" /\ service'[c].at = "replacing"
              /\ service[c].token \notin live',
           live' \subseteq live, UNCHANGED <<mode, issued, parent, ended, overlapped>>
    PROVE  AInv'
<1>1. TokenInv'
      BY DEF AInv, TokenInv, Moves
<1>2. ASSUME mode' = "local" PROVE (Spent /\ SpentStaysSpent)'
      <2>1. \A t : Exchanging(t)' => Exchanging(t)
            BY DEF Exchanging, Moves
      <2>2. \A d \in Calls : service'[d].at = "replacing" => service'[d].token \notin live'
            BY <1>2 DEF AInv, Spent, Moves
      <2>3. Spent'
            BY <1>2, <2>1, <2>2 DEF AInv, Spent
      <2> QED BY <1>2, <2>3 DEF AInv, SpentStaysSpent, RotatedIsSpent, LoggedOutIsOut
<1> QED BY <1>1, <1>2 DEF AInv

LEMMA RevokeInv == ASSUME AInv, NEW c \in Calls, Revoke(c) PROVE AInv'
<1>1. /\ service[c].at = "revoking" /\ live' \subseteq live
      /\ UNCHANGED <<mode, issued, parent, ended, overlapped>>
      BY DEF Revoke, logouts
<1>2. CASE Go(c, "replacing") /\ live' = live \ {service[c].token}
      <2>1. Moves(c) /\ service'[c].at = "replacing" /\ service'[c].token = service[c].token
            BY <1>2, GoIs DEF AuthPlace
      <2> QED BY <1>1, <1>2, <2>1, Loses
<1>3. CASE Reply(c, "500")
      <2>1. Moves(c) /\ service'[c].at = "answered" /\ service'[c].token = service[c].token
            BY <1>3, ReplyIs DEF AuthAnswer
      <2> QED BY <1>1, <2>1, Loses
<1> QED BY <1>2, <1>3 DEF Revoke

LEMMA ReplaceInv == ASSUME AInv, NEW c \in Calls, Replace(c) PROVE AInv'
<1>1. UNCHANGED <<mode, logouts>> /\ service[c].at = "replacing"
      BY DEF Replace
<1>2. CASE Reply(c, "500") /\ UNCHANGED <<live, issued, parent>>
      <2>1. "500" \in AuthAnswer
            BY DEF AuthAnswer
      <2> QED BY <1>1, <1>2, <2>1, RepliesMove
<1>3. CASE Issue(c, live, service[c].token, "answered", "ok")
      <2>1. service[c].token \in 1..issued /\ service[c].token \in 0..issued
            BY <1>1 DEF AInv, TokenInv
      <2>2. live \subseteq live /\ Proper(c, live, service[c].token)
            BY <1>1, <2>1 DEF AInv, Spent, Proper
      <2>3. /\ "answered" \in AuthPlace /\ "ok" \in AuthAnswer
            /\ "answered" \notin Guarded \union {"refresh", "logout"}
            BY DEF AuthPlace, AuthAnswer, Guarded
      <2> QED BY <1>1, <1>3, <2>1, <2>2, <2>3, IssuesOne
<1> QED BY <1>2, <1>3 DEF Replace

LEMMA LogoutInv == ASSUME AInv, NEW c \in Calls, Logout(c) PROVE AInv'
<1> DEFINE t == service[c].token
<1>1. /\ Moves(c) /\ service'[c].at = "answered" /\ service'[c].token = service[c].token
      /\ t \in 1..issued /\ live' \subseteq live /\ UNCHANGED <<mode, issued, parent>>
      <2>1. /\ Reply(c, "ok") \/ Reply(c, "500")
            /\ "ok" \in AuthAnswer /\ "500" \in AuthAnswer /\ t \in 1..issued
            BY DEF Logout, AuthAnswer, AInv, TokenInv
      <2> QED BY <2>1, ReplyIs DEF Logout
<1>2. CASE UNCHANGED <<ended, overlapped>>
      BY <1>1, <1>2, Loses
<1>3. CASE /\ live' = live \ {t} /\ ended' = ended \union ({t} \intersect live)
           /\ overlapped' = IF t \in live /\ Exchanging(t) THEN overlapped \union {t} ELSE overlapped
      <2>0. TokenInv'
            BY <1>1, <1>3 DEF AInv, TokenInv, Moves
      <2>1. \A u : Exchanging(u)' => Exchanging(u)
            BY <1>1 DEF Exchanging, Moves
      <2>2. ASSUME mode' = "local" PROVE (Spent /\ SpentStaysSpent)'
            <3>0. Spent /\ RotatedIsSpent /\ LoggedOutIsOut
                  BY <1>1, <2>2 DEF AInv, SpentStaysSpent
            <3>1. \A d \in Calls : service'[d].at = "replacing" => service'[d].token \notin live'
                  BY <1>1, <2>2 DEF AInv, Spent, Moves
            <3>2. \A u \in ended' \ overlapped' :
                     /\ u \notin live' /\ ~Exchanging(u)
                     /\ \A v \in 1..issued : parent[v] # u
                  <4> SUFFICES ASSUME NEW u \in ended' \ overlapped'
                               PROVE  /\ u \notin live' /\ ~Exchanging(u)
                                      /\ \A v \in 1..issued : parent[v] # u
                      OBVIOUS
                  <4>1. CASE u \in ended
                        <5>1. u \notin overlapped
                              BY <1>3
                        <5>2. u \in ended \ overlapped /\ mode = "local"
                              BY <1>1, <2>2, <4>1, <5>1
                        <5>3. ~Exchanging(u)
                              BY <3>0, <5>2 DEF Spent
                        <5>4. u \notin live /\ \A v \in 1..issued : parent[v] # u
                              BY <3>0, <5>1, <5>2 DEF LoggedOutIsOut
                        <5> QED BY <1>1, <5>3, <5>4
                  <4>2. CASE u \notin ended
                        <5>1. u = t /\ t \in live
                              BY <1>3, <4>2
                        <5>2. u \notin live' /\ mode = "local"
                              BY <1>1, <1>3, <2>2, <5>1
                        <5>3. ~Exchanging(t)
                              BY <1>3, <5>1
                        <5>4. \A v \in 1..issued : parent[v] # u
                              BY <3>0, <5>1, <5>2 DEF RotatedIsSpent
                        <5> QED BY <5>1, <5>2, <5>3, <5>4
                  <4> QED BY <4>1, <4>2
            <3>3. \A u \in ended' : u \notin live'
                  BY <1>1, <1>3, <2>2 DEF AInv, SpentStaysSpent, LoggedOutIsOut
            <3>4. Spent'
                  BY <2>1, <3>1, <3>2 DEF Spent
            <3>5. RotatedIsSpent'
                  BY <1>1, <2>2 DEF AInv, SpentStaysSpent, RotatedIsSpent
            <3>6. LoggedOutIsOut'
                  BY <1>1, <3>2, <3>3 DEF LoggedOutIsOut
            <3> QED BY <3>4, <3>5, <3>6 DEF SpentStaysSpent
      <2> QED BY <2>0, <2>2 DEF AInv
<1> QED BY <1>2, <1>3 DEF Logout, logouts

LEMMA AccountsNextInv == AInv /\ [AccountsNext]_accountVars => AInv'
<1> SUFFICES ASSUME AInv, [AccountsNext]_accountVars PROVE AInv'
    OBVIOUS
<1>1. CASE UNCHANGED accountVars
      BY <1>1 DEF accountVars, logouts, AInv, TokenInv, Spent, SpentStaysSpent, RotatedIsSpent,
                  LoggedOutIsOut, Exchanging
<1>2. ASSUME NEW c \in Calls,
             \/ Request(c) \/ CreateIdentity(c) \/ AssignRole(c) \/ CheckUnique(c)
             \/ Insert(c) \/ CommitRow(c)
             \/ LoginLocal(c) \/ LookUp(c) \/ AskKeycloak(c) \/ Link(c)
             \/ RefreshKeycloak(c) \/ ReadToken(c) \/ Revoke(c) \/ Replace(c) \/ Logout(c)
      PROVE  AInv'
      BY <1>2, RequestInv, AccountStepsInv, LoginInv, RefreshKeycloakInv, ReadTokenInv,
         RevokeInv, ReplaceInv, LogoutInv
<1> QED BY <1>1, <1>2 DEF AccountsNext

\* Where a request stands tells what is known of the account: in Keycloak before
\* its row is made there, and linked before a login relies on the link.
LinkOf(c) ==
    /\ service[c].token \in 0..issued
    /\ service[c].at = "committing" <=> inserting = c
    /\ service[c].at \in {"assigning", "linking"} => identity # "none"
    /\ mode = "keycloak" /\ service[c].at \in {"checking", "flushing", "committing"} => identity # "none"
    /\ mode = "keycloak" /\ service[c].at = "asking" => account = "linked"
    /\ service[c].at = "looking" => mode = "local"
    /\ service[c].at \in {"refresh", "logout", "revoking", "replacing"} => service[c].op \in {"refresh", "logout"}
    /\ service[c].at = "new" => service[c].answer = "none"
    /\ mode = "keycloak" /\ service[c].op \in {"register", "login"} /\ service[c].answer = "ok"
           => account = "linked"

LinkInv ==
    /\ mode \in {"keycloak", "local"} /\ identity \in {"none", "plain", "roled"}
    /\ account \in {"none", "local", "linked"} /\ inserting \in Calls \union {Nobody}
    /\ account = "linked" => identity # "none"
    /\ \A c \in Calls : LinkOf(c)

LEMMA LinkInitInv == AccountsInit => LinkInv
BY NobodyAssumption DEF AccountsInit, LinkInv, LinkOf, NoService

\* What others know stays true when a request moves on.
LEMMA LinkStep ==
    ASSUME AInv, LinkInv, NEW c \in Calls, Moves(c), LinkOf(c)',
           mode' = mode, issued' \in Nat, issued <= issued',
           identity' \in {"none", "plain", "roled"}, account' \in {"none", "local", "linked"},
           inserting' \in Calls \union {Nobody},
           \A d \in Calls \ {c} : inserting = d <=> inserting' = d,
           identity # "none" => identity' # "none",
           mode = "keycloak" /\ account = "linked" => account' = "linked",
           account' = "linked" => identity' # "none"
    PROVE  LinkInv'
<1>1. ASSUME NEW d \in Calls \ {c} PROVE LinkOf(d)'
  <2>1. LinkOf(d) /\ service'[d] = service[d] /\ issued \in Nat
    BY DEF LinkInv, Moves, AInv, TokenInv
  <2> QED
    BY <2>1 DEF LinkOf
<1> QED
  BY <1>1 DEF LinkInv

LEMMA GoesTo ==
    ASSUME AInv, NEW c \in Calls, NEW at \in AuthPlace, Go(c, at)
    PROVE  /\ Moves(c)
           /\ service'[c].at = at /\ service'[c].op = service[c].op
           /\ service'[c].token = service[c].token /\ service'[c].answer = service[c].answer
<1>1. service \in [Calls -> AuthCall] /\ service[c] \in AuthCall
  BY DEF AInv, TokenInv
<1>2. Moves(c)
  BY GoIs
<1> QED
  BY <1>1, <1>2 DEF Go, AuthCall

LEMMA RepliesWith ==
    ASSUME AInv, NEW c \in Calls, NEW answer \in AuthAnswer, Reply(c, answer)
    PROVE  /\ Moves(c)
           /\ service'[c].at = "answered" /\ service'[c].op = service[c].op
           /\ service'[c].token = service[c].token /\ service'[c].answer = answer
<1>1. service \in [Calls -> AuthCall] /\ service[c] \in AuthCall
  BY DEF AInv, TokenInv
<1>2. Moves(c)
  BY ReplyIs
<1> QED
  BY <1>1, <1>2 DEF Reply, AuthCall

LEMMA IssuesTo ==
    ASSUME AInv, NEW c \in Calls, NEW at \in AuthPlace, NEW answer \in AuthAnswer, NEW others, NEW from,
           Issue(c, others, from, at, answer)
    PROVE  /\ Moves(c) /\ issued' = issued + 1 /\ issued \in Nat
           /\ service'[c].at = at /\ service'[c].op = service[c].op
           /\ service'[c].token = issued' /\ service'[c].answer = answer
<1>1. service \in [Calls -> AuthCall] /\ service[c] \in AuthCall /\ issued \in Nat /\ issued + 1 \in Nat
  BY DEF AInv, TokenInv
<1> DEFINE t == issued + 1
           r == [service[c] EXCEPT !.at = at, !.answer = answer, !.token = t]
<1>2. service' = [service EXCEPT ![c] = r] /\ issued' = t
  BY DEF Issue
<1>3. t \in Nat
  BY <1>1
<1> HIDE DEF t
<1>4. r \in AuthCall /\ r.at = at /\ r.op = service[c].op /\ r.token = t /\ r.answer = answer
  BY <1>1, <1>3 DEF AuthCall
<1> HIDE DEF r
<1>5. Moves(c) /\ service'[c] = r
  BY <1>1, <1>2, <1>4, OneMoves
<1> QED
  BY <1>1, <1>2, <1>4, <1>5 DEF t

LEMMA LinkTypes ==
    ASSUME AInv, LinkInv, NEW c \in Calls
    PROVE  /\ mode \in {"keycloak", "local"} /\ identity \in {"none", "plain", "roled"}
           /\ account \in {"none", "local", "linked"} /\ inserting \in Calls \union {Nobody}
           /\ account = "linked" => identity # "none"
           /\ issued \in Nat /\ service[c] \in AuthCall /\ LinkOf(c)
BY DEF AInv, TokenInv, LinkInv

LEMMA LinkNextInv ==
    ASSUME AInv, LinkInv, NEW c \in Calls,
           \/ Request(c) \/ CreateIdentity(c) \/ AssignRole(c) \/ CheckUnique(c) \/ Insert(c) \/ CommitRow(c)
           \/ LoginLocal(c) \/ LookUp(c) \/ AskKeycloak(c) \/ Link(c)
           \/ RefreshKeycloak(c) \/ ReadToken(c) \/ Revoke(c) \/ Replace(c) \/ Logout(c)
    PROVE  LinkInv'
<1>0. /\ mode \in {"keycloak", "local"} /\ identity \in {"none", "plain", "roled"}
      /\ account \in {"none", "local", "linked"} /\ inserting \in Calls \union {Nobody}
      /\ account = "linked" => identity # "none"
      /\ issued \in Nat /\ service[c] \in AuthCall /\ LinkOf(c)
  BY LinkTypes
<1> USE <1>0, NobodyAssumption
<1>1. CASE Request(c)
  <2>1. PICK op \in {"register", "login", "refresh", "logout"},
              at \in {"register", "login", "checking", "looking", "refresh", "logout"}, t \in 0..issued :
          /\ service' = [service EXCEPT ![c] = [@ EXCEPT !.op = op, !.at = at, !.token = t]]
          /\ op \in {"refresh", "logout"} => at = op
          /\ op \notin {"refresh", "logout"} => at \notin {"refresh", "logout"}
          /\ mode = "keycloak" => at \notin {"checking", "looking"}
    <3>1. CASE \E op \in {"register", "login"} :
            service' = [service EXCEPT ![c] = [@ EXCEPT !.op = op, !.at =
                IF mode = "keycloak" THEN op ELSE IF op = "register" THEN "checking" ELSE "looking"]]
      <4>1. PICK op \in {"register", "login"} :
            service' = [service EXCEPT ![c] = [@ EXCEPT !.op = op, !.at =
                IF mode = "keycloak" THEN op ELSE IF op = "register" THEN "checking" ELSE "looking"]]
        BY <3>1
      <4> DEFINE at == IF mode = "keycloak" THEN op ELSE IF op = "register" THEN "checking" ELSE "looking"
                 t == service[c].token
      <4>2. service' = [service EXCEPT ![c] = [@ EXCEPT !.op = op, !.at = at, !.token = t]]
        BY <4>1 DEF AuthCall
      <4>3. t \in 0..issued /\ at \in {"register", "login", "checking", "looking"}
            /\ (mode = "keycloak" => at \notin {"checking", "looking"})
        BY DEF LinkOf
      <4> HIDE DEF at, t
      <4> QED
        BY <4>2, <4>3
    <3>2. CASE \E op \in {"refresh", "logout"}, t \in 1..issued :
            service' = [service EXCEPT ![c] = [@ EXCEPT !.op = op, !.at = op, !.token = t]]
      <4>1. PICK op \in {"refresh", "logout"}, t \in 1..issued :
            service' = [service EXCEPT ![c] = [@ EXCEPT !.op = op, !.at = op, !.token = t]]
        BY <3>2
      <4>2. t \in 0..issued /\ op \in {"register", "login", "refresh", "logout"}
            /\ op \in {"register", "login", "checking", "looking", "refresh", "logout"}
            /\ op \notin {"checking", "looking"}
        OBVIOUS
      <4> QED
        BY <4>1, <4>2
    <3> QED
      BY <1>1, <3>1, <3>2 DEF Request
  <2> DEFINE r == [service[c] EXCEPT !.op = op, !.at = at, !.token = t]
  <2>2. t \in Nat /\ service \in [Calls -> AuthCall]
    BY DEF AInv, TokenInv
  <2>3. r \in AuthCall /\ r.op = op /\ r.at = at /\ r.token = t /\ r.answer = service[c].answer
    BY <2>2 DEF AuthCall, AuthOp, AuthPlace
  <2> HIDE DEF r
  <2>4. Moves(c) /\ service'[c] = r
    BY <2>1, <2>2, <2>3, OneMoves DEF r
  <2>5. service[c].answer = "none" /\ service[c].at = "new" /\ UNCHANGED <<mode, identity, account, inserting, issued>>
    BY <1>1 DEF Request, LinkOf
  <2>6. LinkOf(c)'
    BY <2>1, <2>3, <2>4, <2>5 DEF LinkOf
  <2> QED
    BY <2>4, <2>5, <2>6, LinkStep
<1>2. CASE CreateIdentity(c)
  <2>1. /\ service[c].at = "register" /\ UNCHANGED <<mode, account, inserting, issued>>
        /\ identity' \in {"none", "plain", "roled"} /\ (identity # "none" => identity' # "none")
        /\ Reply(c, "409") \/ Reply(c, "503") \/ (Go(c, "assigning") /\ identity' # "none")
    BY <1>2 DEF CreateIdentity
  <2>2. Moves(c) /\ LinkOf(c)'
    BY <2>1, GoesTo, RepliesWith DEF LinkOf, AuthPlace, AuthAnswer
  <2> QED
    BY <2>1, <2>2, LinkStep
<1>3. CASE AssignRole(c)
  <2>1. /\ service[c].at = "assigning" /\ UNCHANGED <<mode, account, inserting, issued>>
        /\ identity' \in {"none", "plain", "roled"} /\ (identity # "none" => identity' # "none")
        /\ Reply(c, "503") \/ Go(c, "checking")
    BY <1>3 DEF AssignRole
  <2>2. Moves(c) /\ LinkOf(c)'
    BY <2>1, GoesTo, RepliesWith DEF LinkOf, AuthPlace, AuthAnswer
  <2> QED
    BY <2>1, <2>2, LinkStep
<1>4. CASE CheckUnique(c)
  <2>1. /\ service[c].at = "checking" /\ UNCHANGED <<mode, identity, account, inserting, issued>>
        /\ Reply(c, "409") \/ Go(c, "flushing")
    BY <1>4 DEF CheckUnique
  <2>2. Moves(c) /\ LinkOf(c)'
    BY <2>1, GoesTo, RepliesWith DEF LinkOf, AuthPlace, AuthAnswer
  <2> QED
    BY <2>1, <2>2, LinkStep
<1>5. CASE Insert(c)
  <2>1. /\ service[c].at = "flushing" /\ UNCHANGED <<mode, identity, account, issued>> /\ inserting = Nobody
        /\ (Reply(c, "500") /\ inserting' = Nobody) \/ (Go(c, "committing") /\ inserting' = c)
    BY <1>5 DEF Insert
  <2>2. Moves(c) /\ LinkOf(c)'
    BY <2>1, GoesTo, RepliesWith DEF LinkOf, AuthPlace, AuthAnswer
  <2> QED
    BY <2>1, <2>2, LinkStep
<1>6. CASE CommitRow(c)
  <2>1. /\ service[c].at = "committing" /\ UNCHANGED <<mode, identity, issued>> /\ inserting' = Nobody /\ inserting = c
        /\ \/ Reply(c, "ok") /\ account' = IF mode = "keycloak" THEN "linked" ELSE "local"
           \/ Reply(c, "500") /\ account' = account
    BY <1>6 DEF CommitRow, LinkOf
  <2>2. Moves(c) /\ LinkOf(c)'
    BY <2>1, RepliesWith DEF LinkOf, AuthAnswer
  <2>3. account' = "linked" => identity # "none"
    BY <2>1 DEF LinkOf
  <2> QED
    BY <2>1, <2>2, <2>3, LinkStep
<1>7. CASE LoginLocal(c)
  <2>1. /\ service[c].at = "looking" /\ UNCHANGED <<mode, identity, account, inserting>>
        /\ \/ (Reply(c, "401") \/ Reply(c, "500")) /\ issued' = issued
           \/ Issue(c, live, 0, "answered", "ok")
    BY <1>7 DEF LoginLocal
  <2> DEFINE Done == Moves(c) /\ LinkOf(c)' /\ issued' \in Nat /\ issued <= issued'
  <2>2. mode = "local"
    BY <2>1 DEF LinkOf
  <2>3. ASSUME NEW a \in AuthAnswer, Reply(c, a), issued' = issued PROVE Done
    BY <2>1, <2>2, <2>3, RepliesWith DEF LinkOf
  <2>4. ASSUME Issue(c, live, 0, "answered", "ok") PROVE Done
    <3>1. Moves(c) /\ issued' = issued + 1 /\ issued \in Nat
          /\ service'[c].at = "answered" /\ service'[c].op = service[c].op
          /\ service'[c].token = issued' /\ service'[c].answer = "ok"
      BY <2>4, IssuesTo DEF AuthPlace, AuthAnswer
    <3> QED
      BY <2>1, <2>2, <3>1 DEF LinkOf
  <2>5. Done
    <3> HIDE DEF Done
    <3> QED
      BY <2>1, <2>3, <2>4 DEF AuthAnswer
  <2> QED
    BY <2>1, <2>5, LinkStep
<1>8. CASE LookUp(c)
  <2>1. /\ service[c].at = "login" /\ UNCHANGED <<mode, identity, account, inserting, issued>>
        /\ \/ Go(c, "asking, no row") \/ Go(c, "asking, no link")
           \/ Go(c, "asking") /\ account = "linked"
    BY <1>8 DEF LookUp
  <2>3. ASSUME NEW at \in {"asking", "asking, no row", "asking, no link"}, Go(c, at),
               at = "asking" => account = "linked"
        PROVE  Moves(c) /\ LinkOf(c)'
    <3>1. /\ Moves(c)
          /\ service'[c].at = at /\ service'[c].op = service[c].op
          /\ service'[c].token = service[c].token /\ service'[c].answer = service[c].answer
      BY <2>3, GoesTo DEF AuthPlace
    <3> QED
      BY <2>1, <2>3, <3>1 DEF LinkOf
  <2>2. Moves(c) /\ LinkOf(c)'
    BY <2>1, <2>3
  <2>4. UNCHANGED <<mode, identity, account, inserting, issued>>
    BY <2>1
  <2> QED
    BY <2>2, <2>4, LinkStep
<1>9. CASE AskKeycloak(c)
  <2>1. /\ service[c].at \in {"asking", "asking, no row", "asking, no link"}
        /\ UNCHANGED <<mode, identity, account, inserting>>
        /\ \/ (Reply(c, "401") \/ Reply(c, "503")) /\ issued' = issued
           \/ identity # "none" /\ service[c].at = "asking" /\ Issue(c, live, 0, "answered", "ok")
           \/ identity # "none" /\ service[c].at = "asking, no row" /\ Issue(c, live, 0, "checking", "none")
           \/ identity # "none" /\ service[c].at = "asking, no link" /\ Issue(c, live, 0, "linking", "none")
    BY <1>9 DEF AskKeycloak
  <2>5. UNCHANGED <<mode, identity, account, inserting>> /\ inserting # c
    BY <2>1 DEF LinkOf
  <2> DEFINE Done == Moves(c) /\ LinkOf(c)' /\ issued' \in Nat /\ issued <= issued'
  <2>2. ASSUME NEW a \in {"401", "503"}, Reply(c, a), issued' = issued PROVE Done
    <3>1. /\ Moves(c) /\ service'[c].at = "answered" /\ service'[c].op = service[c].op
          /\ service'[c].token = service[c].token /\ service'[c].answer = a
      BY <2>2, RepliesWith DEF AuthAnswer
    <3> QED
      BY <2>2, <2>5, <3>1 DEF LinkOf
  <2>3. ASSUME NEW at \in {"answered", "checking", "linking"}, NEW a \in {"ok", "none"}, identity # "none",
               Issue(c, live, 0, at, a),
               at = "answered" => service[c].at = "asking",
               at # "answered" => a = "none"
        PROVE  Done
    <3>1. Moves(c) /\ issued' = issued + 1 /\ issued \in Nat
          /\ service'[c].at = at /\ service'[c].op = service[c].op
          /\ service'[c].token = issued' /\ service'[c].answer = a
      <4>1. at \in AuthPlace /\ a \in AuthAnswer
        BY DEF AuthPlace, AuthAnswer
      <4> QED
        BY <2>3, <4>1, IssuesTo
    <3>2. at = "answered" /\ a = "ok" /\ mode = "keycloak" => account = "linked"
      BY <2>3 DEF LinkOf
    <3> QED
      BY <2>3, <2>5, <3>1, <3>2 DEF LinkOf
  <2>4. Done
    <3> HIDE DEF Done
    <3> QED
      BY <2>1, <2>2, <2>3
  <2> QED
    BY <2>1, <2>4, LinkStep
<1>10. CASE Link(c)
  <2>1. /\ service[c].at = "linking" /\ UNCHANGED <<mode, identity, inserting, issued>>
        /\ \/ Reply(c, "ok") /\ account' = "linked"
           \/ Reply(c, "500") /\ account' = account
    BY <1>10 DEF Link
  <2>2. Moves(c) /\ LinkOf(c)'
    BY <2>1, RepliesWith DEF LinkOf, AuthAnswer
  <2>3. identity # "none"
    BY <2>1 DEF LinkOf
  <2> QED
    BY <2>1, <2>2, <2>3, LinkStep
<1>11. CASE RefreshKeycloak(c) \/ Replace(c)
  <2>1. /\ service[c].at \in {"refresh", "replacing"} /\ UNCHANGED <<mode, identity, account, inserting>>
        /\ \/ (\E a \in {"401", "500", "503"} : Reply(c, a)) /\ issued' = issued
           \/ \E others \in SUBSET live : Issue(c, others, service[c].token, "answered", "ok")
    BY <1>11 DEF RefreshKeycloak, Replace
  <2> DEFINE Done == Moves(c) /\ LinkOf(c)' /\ issued' \in Nat /\ issued <= issued'
  <2>2. ASSUME NEW a \in {"401", "500", "503"}, Reply(c, a), issued' = issued PROVE Done
    <3>1. /\ Moves(c) /\ service'[c].at = "answered" /\ service'[c].op = service[c].op
          /\ service'[c].token = service[c].token /\ service'[c].answer = a
      BY <2>2, RepliesWith DEF AuthAnswer
    <3> QED
      BY <2>1, <2>2, <3>1 DEF LinkOf
  <2>3. ASSUME NEW others \in SUBSET live, Issue(c, others, service[c].token, "answered", "ok")
        PROVE  Done
    <3>1. Moves(c) /\ issued' = issued + 1 /\ issued \in Nat
          /\ service'[c].at = "answered" /\ service'[c].op = service[c].op
          /\ service'[c].token = issued' /\ service'[c].answer = "ok"
      BY <2>3, IssuesTo DEF AuthPlace, AuthAnswer
    <3> QED
      BY <2>1, <3>1 DEF LinkOf
  <2>4. Done
    <3> HIDE DEF Done
    <3> QED
      BY <2>1, <2>2, <2>3
  <2> QED
    BY <2>1, <2>4, LinkStep
<1>12. CASE ReadToken(c) \/ Revoke(c) \/ Logout(c)
  <2>1. /\ service[c].at \in {"refresh", "revoking", "logout"} /\ UNCHANGED <<mode, identity, account, inserting, issued>>
        /\ Reply(c, "401") \/ Reply(c, "500") \/ Reply(c, "ok") \/ Go(c, "revoking") \/ Go(c, "replacing")
    BY <1>12 DEF ReadToken, Revoke, Logout
  <2>2. Moves(c) /\ LinkOf(c)'
    BY <2>1, GoesTo, RepliesWith DEF LinkOf, AuthPlace, AuthAnswer
  <2> QED
    BY <2>1, <2>2, LinkStep
<1> QED
  BY <1>1, <1>2, <1>3, <1>4, <1>5, <1>6, <1>7, <1>8, <1>9, <1>10, <1>11, <1>12

LEMMA LinkAlways == AInv /\ LinkInv /\ [AccountsNext]_accountVars => LinkInv'
<1> SUFFICES ASSUME AInv, LinkInv, [AccountsNext]_accountVars PROVE LinkInv'
  OBVIOUS
<1>1. CASE UNCHANGED accountVars
  BY <1>1 DEF accountVars, LinkInv, LinkOf
<1> QED
  BY <1>1, LinkNextInv DEF AccountsNext

LEMMA AccountsPromises == AInv /\ LinkInv => AccountsTypeOK /\ LinkedToKeycloak /\ SpentStaysSpent
<1> SUFFICES ASSUME AInv, LinkInv PROVE AccountsTypeOK /\ LinkedToKeycloak /\ SpentStaysSpent
  OBVIOUS
<1>1. AccountsTypeOK
  <2>1. parent \in [Tokens -> 0..MaxTokens] /\ issued \in 0..MaxTokens
    BY AccountsAssumption DEF AInv, TokenInv
  <2>2. inserting = Nobody <=> \A c \in Calls : service[c].at # "committing"
    BY NobodyAssumption DEF LinkInv, LinkOf
  <2> QED
    BY <2>1, <2>2 DEF AInv, TokenInv, LinkInv, LinkOf, AccountsTypeOK
<1>2. LinkedToKeycloak
  BY DEF LinkInv, LinkOf, LinkedToKeycloak
<1>3. SpentStaysSpent
  BY DEF AInv, SpentStaysSpent, RotatedIsSpent, LoggedOutIsOut
<1> QED
  BY <1>1, <1>2, <1>3

---------------------------------------------------------------------------
(* The user service.                                                       *)

ChangeOp      == {"none", "create", "update", "delete"}
ChangeAt      == {"new", "reading", "writing", "committing", "answered"}
ChangeAnswer  == {"none", "ok", "400", "403", "404", "409", "500"}
RowCounts  == [there : Nat, deleted : Nat]
ChangeType == [op : ChangeOp, key : Keys \union {"none"}, at : ChangeAt, answer : ChangeAnswer]

RowTypes ==
    /\ rows \in [Keys -> RowCounts]
    /\ writer \in [Keys -> Changers \union {NoOne}]
    /\ change \in [Changers -> ChangeType]

\* The request of a transaction that has written holds the row of its key, and
\* the row is what its operation needs: none to create, one to change.
Holds(c) ==
    change[c].at = "committing" =>
        /\ writer[change[c].key] = c
        /\ change[c].op = "create" => rows[change[c].key].there = 0 /\ rows[change[c].key].deleted = 0
        /\ change[c].op # "create" => rows[change[c].key].there > 0

\* A request at work has a key.
Asked(c) == change[c].at \in {"reading", "writing", "committing"} => change[c].key \in Keys

DInv ==
    /\ RowTypes
    /\ OneRowPerKey
    /\ \A c \in Changers : Asked(c) /\ Holds(c)

LEMMA DirectoryInitInv == DirectoryInit => DInv
  BY DEF DirectoryInit, DInv, RowTypes, OneRowPerKey, Asked, Holds, RowCounts, ChangeType, ChangeOp, ChangeAt, ChangeAnswer, NoChange

\* A request that asks or looks touches no row.
LEMMA AskInv == ASSUME DInv, NEW c \in Changers, Ask(c) PROVE DInv'
<1>1. PICK k \in Keys, op \in {"create", "update", "delete"},
           at \in {"reading", "answered"}, answer \in {"403", "400", "none"} :
        change' = [change EXCEPT ![c] = [op |-> op, key |-> k, at |-> at, answer |-> answer]]
      <2>1. PICK k \in Keys, op \in {"create", "update", "delete"}, by \in Askers :
              LET may == IF k \in Users THEN MayWithUser(op, by) ELSE MayWithOrganization(op, by)
                  own == op = "delete" /\ by.own
              IN change' = [change EXCEPT ![c] =
                    [op |-> op, key |-> k, at |-> IF may /\ ~own THEN "reading" ELSE "answered",
                     answer |-> IF ~may THEN "403" ELSE IF own THEN "400" ELSE "none"]]
            BY DEF Ask
      <2> DEFINE may == IF k \in Users THEN MayWithUser(op, by) ELSE MayWithOrganization(op, by)
                 at == IF may /\ ~(op = "delete" /\ by.own) THEN "reading" ELSE "answered"
                 answer == IF ~may THEN "403" ELSE IF op = "delete" /\ by.own THEN "400" ELSE "none"
      <2>2. change' = [change EXCEPT ![c] = [op |-> op, key |-> k, at |-> at, answer |-> answer]]
            BY <2>1
      <2>3. at \in {"reading", "answered"} /\ answer \in {"403", "400", "none"}
            OBVIOUS
      <2> HIDE DEF at, answer, may
      <2> QED BY <2>2, <2>3
<1>2. rows' = rows /\ writer' = writer
      BY DEF Ask
<1>3. RowTypes'
      BY <1>1, <1>2 DEF DInv, RowTypes, ChangeType, ChangeOp, ChangeAt, ChangeAnswer
<1>4. OneRowPerKey'
      BY <1>2 DEF DInv, OneRowPerKey
<1>5. \A d \in Changers : Asked(d)' /\ Holds(d)'
      BY <1>1, <1>2 DEF DInv, RowTypes, Asked, Holds
<1> QED BY <1>3, <1>4, <1>5 DEF DInv

\* The two ways a request goes on without a row being written.
LEMMA StepsAside ==
    ASSUME DInv, NEW c \in Changers, rows' = rows, writer' = writer, change[c].key \in Keys,
           change[c].at # "committing",
           \/ \E answer \in ChangeAnswer : Answered(c, answer)
           \/ change' = [change EXCEPT ![c].at = "writing"]
    PROVE  DInv'
<1>1. PICK at \in {"writing", "answered"}, answer \in ChangeAnswer :
        change' = [change EXCEPT ![c] = [op |-> change[c].op, key |-> change[c].key, at |-> at,
                                         answer |-> answer]]
      BY DEF Answered, DInv, RowTypes, ChangeType
<1>2. RowTypes'
      BY <1>1 DEF DInv, RowTypes, ChangeType, ChangeAt, ChangeOp, ChangeAnswer
<1>3. OneRowPerKey'
      BY DEF DInv, OneRowPerKey
<1>4. \A d \in Changers : Asked(d)' /\ Holds(d)'
      BY <1>1 DEF DInv, RowTypes, Asked, Holds
<1> QED BY <1>2, <1>3, <1>4 DEF DInv

LEMMA LookInv == ASSUME DInv, NEW c \in Changers, Look(c) PROVE DInv'
<1>1. change[c].key \in Keys /\ change[c].at # "committing" /\ rows' = rows /\ writer' = writer
      BY DEF Look, DInv, Asked
<1>2. \/ \E answer \in ChangeAnswer : Answered(c, answer)
      \/ change' = [change EXCEPT ![c].at = "writing"]
      BY DEF Look, ChangeAnswer
<1> QED BY <1>1, <1>2, StepsAside

\* What it has found is still so when it writes: it waits for those who have
\* written, and looks again.
LEMMA WriteInv == ASSUME DInv, NEW c \in Changers, Write(c) PROVE DInv'
<1> DEFINE k == change[c].key
<1>1. k \in Keys /\ change[c].at = "writing" /\ writer[k] = NoOne /\ rows' = rows
      BY DEF Write, DInv, Asked
<1>2. CASE writer' = writer /\ \E answer \in ChangeAnswer : Answered(c, answer)
      BY <1>1, <1>2, StepsAside
<1>3. CASE /\ IF change[c].op = "create" THEN ~Clashes(k) ELSE ~Gone(k)
           /\ writer' = [writer EXCEPT ![k] = c]
           /\ change' = [change EXCEPT ![c].at = "committing"]
      <2>1. RowTypes'
            BY <1>1, <1>3 DEF DInv, RowTypes, ChangeType, ChangeAt
      <2>2. OneRowPerKey'
            BY <1>1 DEF DInv, OneRowPerKey
      <2>3. rows[k].there \in Nat /\ rows[k].deleted \in Nat
            BY <1>1 DEF DInv, RowTypes, RowCounts
      <2>4. Holds(c)'
            <3>1. change'[c].op = change[c].op /\ change'[c].key = k /\ writer'[k] = c
                  BY <1>1, <1>3 DEF DInv, RowTypes, ChangeType
            <3>2. change[c].op = "create" => rows[k].there = 0 /\ rows[k].deleted = 0
                  BY <1>3, <2>3 DEF Clashes
            <3>3. change[c].op # "create" => rows[k].there > 0
                  BY <1>3, <2>3 DEF Gone
            <3> QED BY <1>1, <3>1, <3>2, <3>3 DEF Holds
      <2>5. ASSUME NEW d \in Changers, d # c PROVE Holds(d)'
            BY <1>1, <1>3, <2>5, NoOneAssumption DEF DInv, RowTypes, Holds, ChangeType, Asked
      <2>6. \A d \in Changers : Asked(d)'
            BY <1>1, <1>3 DEF DInv, RowTypes, Asked
      <2> QED BY <2>1, <2>2, <2>4, <2>5, <2>6 DEF DInv
<1> QED BY <1>2, <1>3 DEF Write, ChangeAnswer

LEMMA FinishInv == ASSUME DInv, NEW c \in Changers, Finish(c) PROVE DInv'
<1> DEFINE k == change[c].key
<1>1. /\ k \in Keys /\ change[c].at = "committing" /\ writer[k] = c
      /\ writer' = [writer EXCEPT ![k] = NoOne]
      BY DEF Finish, DInv, Asked, Holds
<1>2. PICK answer \in {"ok", "500"} : change' = [change EXCEPT ![c].at = "answered", ![c].answer = answer]
      BY DEF Finish, Answered
<1>3. PICK there \in Nat, deleted \in Nat :
        /\ rows' = [rows EXCEPT ![k] = [there |-> there, deleted |-> deleted]]
        /\ there + deleted <= 1
      <2>1. rows[k] = [there |-> rows[k].there, deleted |-> rows[k].deleted]
            /\ rows[k].there \in Nat /\ rows[k].deleted \in Nat /\ rows[k].there + rows[k].deleted <= 1
            BY <1>1 DEF DInv, RowTypes, RowCounts, OneRowPerKey
      <2>2. CASE rows' = rows
            BY <2>1, <2>2, <1>1 DEF DInv, RowTypes
      <2>3. CASE change[c].op = "create" /\ rows' = [rows EXCEPT ![k].there = @ + 1]
            <3>1. rows[k].there = 0 /\ rows[k].deleted = 0
                  BY <1>1, <2>3 DEF DInv, Holds
            <3>2. [rows[k] EXCEPT !.there = @ + 1] = [there |-> 1, deleted |-> 0]
                  BY <3>1, <1>1 DEF DInv, RowTypes, RowCounts
            <3>3. rows' = [rows EXCEPT ![k] = [rows[k] EXCEPT !.there = @ + 1]]
                  BY <2>3
            <3>4. rows' = [rows EXCEPT ![k] = [there |-> 1, deleted |-> 0]]
                  BY <3>2, <3>3
            <3>5. 1 \in Nat /\ 0 \in Nat /\ 1 + 0 <= 1
                  OBVIOUS
            <3> QED BY <3>4, <3>5
      <2>4. CASE rows' = [rows EXCEPT ![k] = [there |-> 0, deleted |-> @.deleted + @.there]]
            <3>1. rows[k].deleted + rows[k].there \in Nat /\ 0 + (rows[k].deleted + rows[k].there) <= 1
                  BY <2>1
            <3> QED BY <2>4, <3>1
      <2> QED BY <2>2, <2>3, <2>4 DEF Finish
<1>4. RowTypes'
      <2>1. [there |-> there, deleted |-> deleted] \in RowCounts
            BY <1>3 DEF RowCounts
      <2>2. rows' \in [Keys -> RowCounts] /\ writer' \in [Keys -> Changers \union {NoOne}]
            BY <1>1, <1>3, <2>1 DEF DInv, RowTypes
      <2>3. change' \in [Changers -> ChangeType]
            BY <1>2 DEF DInv, RowTypes, ChangeType, ChangeAt, ChangeAnswer
      <2> QED BY <2>2, <2>3 DEF RowTypes
<1>5. OneRowPerKey'
      BY <1>1, <1>3 DEF DInv, RowTypes, OneRowPerKey
<1>6. ASSUME NEW d \in Changers, d # c, change[d].at = "committing" PROVE change[d].key # k
      BY <1>1, <1>6 DEF DInv, Holds
<1>7. \A d \in Changers : Asked(d)' /\ Holds(d)'
      <2> SUFFICES ASSUME NEW d \in Changers PROVE Asked(d)' /\ Holds(d)'
          OBVIOUS
      <2>1. CASE d = c
            BY <1>2, <2>1 DEF DInv, RowTypes, Asked, Holds
      <2>2. CASE d # c
            BY <1>1, <1>2, <1>3, <1>6, <2>2 DEF DInv, RowTypes, Asked, Holds
      <2> QED BY <2>1, <2>2
<1> QED BY <1>4, <1>5, <1>7 DEF DInv

LEMMA DirectoryNextInv == DInv /\ [DirectoryNext]_directoryVars => DInv'
<1> SUFFICES ASSUME DInv, [DirectoryNext]_directoryVars PROVE DInv'
    OBVIOUS
<1>1. CASE UNCHANGED directoryVars
      BY <1>1 DEF directoryVars, DInv, RowTypes, OneRowPerKey, Asked, Holds
<1>2. ASSUME NEW c \in Changers, Ask(c) \/ Look(c) \/ Write(c) \/ Finish(c) PROVE DInv'
      BY <1>2, AskInv, LookInv, WriteInv, FinishInv
<1> QED BY <1>1, <1>2 DEF DirectoryNext

\* Who holds a key is the request that commits a change of it.
WritersCommit ==
    \A k \in Keys : writer[k] # NoOne => change[writer[k]].at = "committing" /\ change[writer[k]].key = k

LEMMA WritersInitInv == DirectoryInit => WritersCommit
BY DEF DirectoryInit, WritersCommit

LEMMA WritersNextInv == DInv /\ WritersCommit /\ [DirectoryNext]_directoryVars => WritersCommit'
<1> SUFFICES ASSUME DInv, WritersCommit, [DirectoryNext]_directoryVars PROVE WritersCommit'
  OBVIOUS
<1> USE NoOneAssumption
<1>1. CASE UNCHANGED directoryVars
  BY <1>1 DEF directoryVars, WritersCommit
<1>2. ASSUME NEW c \in Changers, change[c].at # "committing", writer' = writer,
             \A d \in Changers \ {c} : change'[d] = change[d]
      PROVE  WritersCommit'
  BY <1>2 DEF WritersCommit, DInv, RowTypes
<1>3. ASSUME NEW c \in Changers, Ask(c) \/ Look(c) PROVE WritersCommit'
  <2>1. change[c].at # "committing" /\ writer' = writer /\ \A d \in Changers \ {c} : change'[d] = change[d]
    BY <1>3 DEF Ask, Look, Answered, DInv, RowTypes
  <2> QED
    BY <1>2, <2>1
<1>4. ASSUME NEW c \in Changers, Write(c) PROVE WritersCommit'
  <2> DEFINE k == change[c].key
  <2>1. /\ change[c].at = "writing" /\ k \in Keys
        /\ \A d \in Changers \ {c} : change'[d] = change[d]
        /\ \/ writer' = writer
           \/ writer' = [writer EXCEPT ![k] = c] /\ change'[c].at = "committing" /\ change'[c].key = k
    BY <1>4 DEF Write, Answered, DInv, RowTypes, Asked, ChangeType
  <2>2. CASE writer' = writer
    BY <1>2, <2>1, <2>2
  <2>3. CASE writer' = [writer EXCEPT ![k] = c] /\ change'[c].at = "committing" /\ change'[c].key = k
    <3> SUFFICES ASSUME NEW j \in Keys, writer'[j] # NoOne
                 PROVE  change'[writer'[j]].at = "committing" /\ change'[writer'[j]].key = j
      BY DEF WritersCommit
    <3>1. writer \in [Keys -> Changers \union {NoOne}]
      BY DEF DInv, RowTypes
    <3>2. CASE j = k
      BY <2>1, <2>3, <3>1, <3>2
    <3>3. CASE j # k
      BY <2>1, <2>3, <3>1, <3>3 DEF WritersCommit
    <3> QED
      BY <3>2, <3>3
  <2> QED
    BY <2>1, <2>2, <2>3
<1>5. ASSUME NEW c \in Changers, Finish(c) PROVE WritersCommit'
  <2> DEFINE k == change[c].key
  <2>1. /\ change[c].at = "committing" /\ k \in Keys /\ writer' = [writer EXCEPT ![k] = NoOne]
        /\ \A d \in Changers \ {c} : change'[d] = change[d]
    BY <1>5 DEF Finish, Answered, DInv, RowTypes, Asked
  <2> QED
    BY <2>1 DEF WritersCommit, DInv, RowTypes
<1> QED
  BY <1>1, <1>3, <1>4, <1>5 DEF DirectoryNext

LEMMA DirectoryPromises == DInv /\ WritersCommit => DirectoryTypeOK /\ OneRowPerKey
<1> SUFFICES ASSUME DInv, WritersCommit PROVE DirectoryTypeOK
  BY DEF DInv
<1>1. rows \in [Keys -> [there : Nat, deleted : Nat]] /\ writer \in [Keys -> Changers \union {NoOne}]
  BY DEF DInv, RowTypes, RowCounts
<1>2. \A c \in Changers : change[c].at = "committing" <=> \E k \in Keys : writer[k] = c
  BY NoOneAssumption DEF DInv, Asked, Holds, WritersCommit
<1> QED
  BY <1>1, <1>2 DEF DirectoryTypeOK

---------------------------------------------------------------------------
(* The four side by side.                                                  *)

\* The inductive invariant of each part.
AccessIInv == GatewayInv /\ LimiterInv /\ AInv /\ LinkInv /\ DInv /\ WritersCommit

\* A step of one part is a stutter of the others.
LEMMA StepsApart ==
    [Next]_vars => /\ [GatewayNext]_gatewayVars /\ [WindowNext]_windowVars
                   /\ [AccountsNext]_accountVars /\ [DirectoryNext]_directoryVars
BY DEF Next, vars, OnGateway, OnAuth, OnUsers, OnLimiter

\* The inductive invariant of the four parts side by side.
THEOREM AccessInvariance == Spec => []AccessIInv
<1>1. Init => AccessIInv
  BY GatewayInitInv, LimiterInitInv, AccountsInitInv, LinkInitInv, DirectoryInitInv, WritersInitInv
     DEF Init, AccessIInv
<1>2. AccessIInv /\ [Next]_vars => AccessIInv'
  BY StepsApart, GatewayNextInv, LimiterNextInv, AccountsNextInv, LinkAlways, DirectoryNextInv, WritersNextInv
     DEF AccessIInv
<1> QED
  BY <1>1, <1>2, PTL DEF Spec

\* Types; calls about others for administrators only, streams that tell their end,
\* accounts that are linked, one row per key, and the limits of the shared limiter.
THEOREM AccessIsSafe == Spec => []AccessInv
<1>1. AccessIInv => AccessInv
  BY GatewayPromises, LimiterPromises, AccountsPromises, DirectoryPromises DEF AccessIInv, AccessInv, TypeOK
<1> QED
  BY <1>1, AccessInvariance, PTL

\* RateLimitMiddleware of the gateway: no more requests than the limit are counted
\* and passed in any window less the longest delay of a clock, for any number of
\* requests in any order.
THEOREM GatewayAdmits == Spec => []AdmittedInWindow
<1>1. AccessIInv => AdmittedInWindow
  BY GatewayPromises DEF AccessIInv
<1> QED
  BY <1>1, AccessInvariance, PTL

\* ServiceProxy.request and the handlers of the gateway: whatever attempts were
\* made, a client is told what the service answered.
THEOREM GatewayTellsAnswers == Spec => []ToldIsHeard
<1>1. AccessIInv => ToldIsHeard
  BY GatewayPromises DEF AccessIInv
<1> QED
  BY <1>1, AccessInvariance, PTL

\* Rotation and logout of the own tokens, whatever the requests interleave: a
\* token that was exchanged, or ended by a logout, is not valid again, and only
\* requests that had read it before get another one for it.
THEOREM SpentTokensStaySpent == Spec => []SpentStaysSpent
<1>1. AccessIInv => SpentStaysSpent
  BY AccountsPromises DEF AccessIInv
<1> QED
  BY <1>1, AccessInvariance, PTL

\* Success is answered for changes of rows that are there only, whatever was
\* deleted between the read and the write of a request.
THEOREM ChangesAreReal == Spec => ChangedWhileThere
<1> DEFINE Real == \A c \in Changers :
        change[c].op # "create" /\ change[c].answer # "ok" /\ change'[c].answer = "ok"
            => rows[change[c].key].there > 0
<1>1. DInv /\ [DirectoryNext]_directoryVars => [Real]_directoryVars
      <2> SUFFICES ASSUME DInv, NEW d \in Changers, Ask(d) \/ Look(d) \/ Write(d) \/ Finish(d),
                          NEW c \in Changers, change[c].op # "create", change[c].answer # "ok",
                          change'[c].answer = "ok"
                   PROVE  rows[change[c].key].there > 0
          BY DEF DirectoryNext
      <2>1. CASE Ask(d)
            <3>1. change'[c].answer # "ok"
                  BY <2>1 DEF Ask, DInv, RowTypes
            <3> QED BY <3>1
      <2>2. CASE Look(d)
            BY <2>2 DEF Look, Answered, DInv, RowTypes, ChangeType
      <2>3. CASE Write(d)
            BY <2>3 DEF Write, Answered, DInv, RowTypes, ChangeType
      <2>4. CASE Finish(d)
            BY <2>4 DEF Finish, Answered, DInv, RowTypes, Holds
      <2> QED BY <2>1, <2>2, <2>3, <2>4
<1>2. AccessIInv /\ [Next]_vars => [Real]_directoryVars
  BY <1>1, StepsApart DEF AccessIInv
<1>3. Spec => [][Real]_directoryVars
  BY AccessInvariance, <1>2, PTL DEF Spec
<1> QED
  BY <1>3 DEF ChangedWhileThere
=============================================================================
