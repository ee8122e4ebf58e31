------------------------------ MODULE Gateway ------------------------------
(***************************************************************************)
(* The API gateway: a request passes the window of its host, then the      *)
(* checks of its route, and is forwarded to a service with retries; a      *)
(* question may be forwarded as a stream of server-sent events.            *)
(*                                                                         *)
(* All requests come from one host: the sorted sets of two hosts have      *)
(* nothing in common.  A body that does not validate, the filters a list   *)
(* is asked with, and the texts of messages are left out.                  *)
(***************************************************************************)
EXTENDS Integers, FiniteSets

CONSTANTS
    Requests,
    Loads,          \* which requests there may be: by a name of its own for each load, a
                    \* function from Requests to sets of pairs of a route and a caller
    Limit,          \* rate_limit_requests
    Window,         \* rate_limit_window_seconds, in ticks of the clock
    MaxTries,       \* proxy_max_retries
    MaxStall,       \* bound on the ticks between the reading of the clock and its use
    MaxClock,       \* bound on the clock, for each load
    MaxPieces       \* bound on the pieces of a stream

ASSUME GatewayAssumption ==
    /\ {Limit, Window, MaxTries} \subseteq Nat \ {0}
    /\ {MaxStall, MaxPieces} \subseteq Nat /\ MaxClock \in [DOMAIN Loads -> Nat]
    /\ IsFiniteSet(Requests)

---------------------------------------------------------------------------
(* The routes: "who" is the dependency on the caller, "check" the test in  *)
(* the handler itself, and "tells" the refusals of the service that are    *)
(* passed on; any other is answered with 502.                              *)

R(op, who, check, tells) == [op |-> op, who |-> who, check |-> check, tells |-> tells]

RegisterRoutes == {R("auth.register", "any", "none", {"409"})}
SessionRoutes ==
    {R("auth.login", "any", "none", {"401", "403"}), R("auth.logout", "active", "none", {}),
     R("auth.refresh", "any", "none", {"401"}), R("auth.me", "active", "none", {})}
PasswordRoutes ==
    {R("auth.forgot", "any", "none", {}), R("auth.reset", "any", "none", {"400"})}
UserListRoutes ==
    {R("users.list", "admin", "none", {}), R("users.create", "admin", "none", {"409"})}
ProfileRoutes ==
    {R("users.me", "active", "none", {}), R("users.updateMe", "active", "none", {})}
UserRoutes ==
    {R("users.get", "active", "own", {"404"}), R("users.update", "admin", "none", {"404"}),
     R("users.delete", "admin", "another", {"404"})}
OrganizationRoutes ==
    {R("orgs.list", "admin", "none", {}), R("orgs.create", "admin", "none", {"409"}),
     R("orgs.get", "active", "own", {"404"}), R("orgs.update", "admin", "none", {"404"}),
     R("orgs.delete", "admin", "none", {"404"})}
MemberRoutes ==
    {R("orgs.members", "active", "own", {"404"}), R("orgs.add", "admin", "none", {"404", "409"}),
     R("orgs.remove", "admin", "none", {"404"})}
UploadRoutes == {R("docs.upload", "active", "file", {})}
DocumentRoutes ==
    {R("docs.list", "active", "none", {}), R("docs.get", "active", "none", {"403", "404"}),
     R("docs.delete", "manager", "none", {"404"})}
PartRoutes ==
    {R("docs.chunks", "active", "none", {"404"}), R("docs.status", "active", "none", {"404"})}
ConversationRoutes ==
    {R("chat.create", "active", "none", {}), R("chat.list", "active", "none", {}),
     R("chat.get", "active", "none", {"403", "404"}), R("chat.delete", "active", "none", {"404"})}
SendRoutes ==
    {R("chat.send", "active", "none", {"404"}), R("chat.stream", "active", "none", {})}
MessageRoutes ==
    {R("chat.messages", "active", "none", {"404"}), R("chat.feedback", "active", "none", {"404"})}
SearchRoutes ==
    {R("search", "active", "none", {}), R("search.suggest", "active", "none", {})}
ReportRoutes ==
    {R("admin.metrics", "admin", "none", {}), R("admin.audit", "admin", "none", {}),
     R("admin.users", "admin", "none", {})}
JobRoutes ==
    {R("admin.jobs", "admin", "none", {}), R("admin.retry", "admin", "none", {"404"})}
HealthRoutes == {R("health", "any", "none", {})}

Routes ==
    UNION {RegisterRoutes, SessionRoutes, PasswordRoutes, UserListRoutes, ProfileRoutes, UserRoutes,
           OrganizationRoutes, MemberRoutes, UploadRoutes, DocumentRoutes, PartRoutes,
           ConversationRoutes, SendRoutes, MessageRoutes, SearchRoutes, ReportRoutes, JobRoutes,
           HealthRoutes}

\* The handlers that do not read the body of an answer.
Bodiless == {"auth.logout", "auth.reset", "users.delete", "orgs.delete", "orgs.remove",
             "docs.delete", "chat.delete", "chat.feedback"}

\* Whoever asks: without a token that is valid and of an active user, or with
\* the role it names, about what is the user's own or not.
Callers == [role : {"none", "user", "manager", "admin"}, own : BOOLEAN]

ASSUME LoadAssumption ==
    \A l \in DOMAIN Loads : Loads[l] \in [Requests -> SUBSET (Routes \X Callers)]

---------------------------------------------------------------------------
VARIABLES
    load,        \* the requests of this behaviour
    clock,       \* ticks
    hits,        \* the sorted set of the host in Redis: requests with their scores
    expires,     \* when Redis drops it
    call         \* each request

gatewayVars == <<load, clock, hits, expires, call>>

Bodies == {"ok", "unreadable"}
Refusals == {"400", "401", "403", "404", "409"}
\* What an attempt comes to: no connection, a timeout, a connection lost during
\* the answer, another network error, or the status of an answer.
Replies == {"unreachable", "timeout", "lost", "broken", "503", "500"} \union Refusals \union Bodies

NoCall == [at |-> "new", route |-> CHOOSE x \in HealthRoutes : TRUE, by |-> [role |-> "none", own |-> FALSE],
           stamp |-> 0, counted |-> -1, tries |-> 0, heard |-> {},
           sentDone |-> FALSE, marker |-> "none", dones |-> 0, pieces |-> 0, quoted |-> FALSE,
           answer |-> "none"]

Answer(r, a) == [call EXCEPT ![r].at = "answered", ![r].answer = a]

GatewayInit ==
    /\ load \in DOMAIN Loads
    /\ clock = 0 /\ hits = {} /\ expires = 0
    /\ call = [r \in Requests |-> NoCall]

---------------------------------------------------------------------------
\* Time goes on; a request that has read the clock is not delayed for more than
\* MaxStall ticks before its pipeline is executed.
Tick ==
    /\ clock < MaxClock[load]
    /\ \A r \in Requests : call[r].at = "stamped" => clock - call[r].stamp < MaxStall
    /\ clock' = clock + 1
    /\ UNCHANGED <<load, hits, expires, call>>

\* A request comes, and RateLimitMiddleware reads the clock.
Arrive(r) ==
    /\ call[r].at = "new"
    /\ \E ask \in Loads[load][r] :
        call' = [call EXCEPT ![r].at = IF ask[1] \in HealthRoutes THEN "probing" ELSE "stamped",
                             ![r].route = ask[1], ![r].by = ask[2], ![r].stamp = clock]
    /\ UNCHANGED <<load, clock, hits, expires>>

\* The pipeline of Redis: old requests leave the set, this one enters it, and
\* the set is counted; a request above the limit is refused and stays counted.
Kept(now) == {h \in IF clock < expires THEN hits ELSE {} : h[2] > now - Window}
\* Mutant of Count: the set is counted before the request enters it.
Count_Before(r) ==
    /\ call[r].at = "stamped"
    /\ hits' = Kept(call[r].stamp) \union {<<r, call[r].stamp>>}
    /\ expires' = clock + Window + 1
    /\ call' = IF Cardinality(Kept(call[r].stamp)) > Limit
               THEN Answer(r, "429")
               ELSE [call EXCEPT ![r].at = "admitted", ![r].counted = clock]
    /\ UNCHANGED <<load, clock>>

Count(r) ==
    /\ call[r].at = "stamped"
    /\ hits' = Kept(call[r].stamp) \union {<<r, call[r].stamp>>}
    /\ expires' = clock + Window + 1
    /\ call' = IF Cardinality(hits') > Limit
               THEN Answer(r, "429")
               ELSE [call EXCEPT ![r].at = "admitted", ![r].counted = clock]
    /\ UNCHANGED <<load, clock>>

\* Redis fails, before the pipeline or after it: the request passes uncounted.
FailOpen(r) ==
    /\ call[r].at = "stamped"
    /\ \/ UNCHANGED <<hits, expires>>
       \/ /\ hits' = Kept(call[r].stamp) \union {<<r, call[r].stamp>>}
          /\ expires' = clock + Window + 1
    /\ call' = [call EXCEPT ![r].at = "admitted"]
    /\ UNCHANGED <<load, clock>>

---------------------------------------------------------------------------
\* get_current_user and require_role.
RoleFits(route, by) ==
    CASE route.who = "any" -> TRUE
      [] route.who = "active" -> by.role # "none"
      [] route.who = "manager" -> by.role \in {"manager", "admin"}
      [] OTHER -> by.role = "admin"

\* The check of a handler about whom or what the request is.
CheckFits(route, by) ==
    CASE route.check = "own" -> by.role = "admin" \/ by.own
      [] route.check = "another" -> ~by.own
      [] OTHER -> TRUE

\* The dependencies of the route and the checks of its handler.
Authorize(r) ==
    LET route == call[r].route  by == call[r].by IN
    /\ call[r].at = "admitted"
    /\ \/ /\ ~RoleFits(route, by)
          /\ call' = Answer(r, IF by.role = "none" THEN "401" ELSE "403")
       \/ /\ RoleFits(route, by) /\ ~CheckFits(route, by)
          /\ call' = Answer(r, "403")
       \/ /\ route.check = "file"              \* an unsupported type, or too large
          /\ RoleFits(route, by)
          /\ \E refusal \in {"400", "413"} : call' = Answer(r, refusal)
       \/ /\ RoleFits(route, by) /\ CheckFits(route, by)
          /\ call' = [call EXCEPT ![r].at = IF route.op = "chat.stream" THEN "opening" ELSE "calling"]
    /\ UNCHANGED <<load, clock, hits, expires>>

\* What _attempt raises and _is_retryable accepts: not the ServiceUnavailableException
\* that _attempt makes of an httpx.ConnectError.
Retried == {"lost", "503"}

\* Mutant of Told: a handler forgets raise_for_upstream.
Told_Lenient(route, reply) ==
    CASE reply = "unreachable" -> "503"
      [] reply = "timeout" -> "504"
      [] reply \in {"lost", "broken", "503"} -> "502"
      [] reply \in route.tells -> reply
      [] OTHER -> "ok"

\* What the client is told after the last attempt.  forgot_password does not
\* look at the answer, and a body that cannot be read is an error of handlers
\* that read it.
Told(route, reply) ==
    CASE reply = "unreachable" -> "503"
      [] reply = "timeout" -> "504"
      [] reply \in {"lost", "broken", "503"} -> "502"
      [] reply \in route.tells -> reply
      [] reply = "ok" \/ route.op = "auth.forgot" -> "ok"
      [] reply = "unreadable" -> IF route.op \in Bodiless THEN "ok" ELSE "500"
      [] OTHER -> "502"

\* Mutant of Attempt: the attempts are counted from the start again and again.
Attempt_Forever(r) ==
    /\ call[r].at = "calling"
    /\ \E reply \in Replies :
        LET tries == (call[r].tries + 1) % MaxTries
            tried == [call EXCEPT ![r].tries = tries, ![r].heard = @ \union {reply}] IN
        call' = IF reply \in Retried
                THEN tried
                ELSE [tried EXCEPT ![r].at = "answered", ![r].answer = Told(call[r].route, reply)]
    /\ UNCHANGED <<load, clock, hits, expires>>

\* One attempt of ServiceProxy.request, and after the last one the handler.
Attempt(r) ==
    /\ call[r].at = "calling"
    /\ \E reply \in Replies :
        LET tried == [call EXCEPT ![r].tries = @ + 1, ![r].heard = @ \union {reply}] IN
        call' = IF reply \in Retried /\ call[r].tries + 1 < MaxTries
                THEN tried
                ELSE [tried EXCEPT ![r].at = "answered", ![r].answer = Told(call[r].route, reply)]
    /\ UNCHANGED <<load, clock, hits, expires>>

---------------------------------------------------------------------------
\* ServiceProxy.stream opens the stream of an answer; the client has its 200
\* before.  A refusal of the service ends it like an error of the network.
Open(r) ==
    /\ call[r].at = "opening"
    /\ call' = [call EXCEPT ![r].at = "streaming", ![r].tries = 1]
    /\ UNCHANGED <<load, clock, hits, expires>>

\* A chunk of the answer: text that may speak of the marker, the marker, or,
\* because chunks are cut at 1024 bytes, its first or its second part.
Pieces == {"text", "quote", "marker", "head", "tail"}
Follows(piece, marker) ==
    IF piece = "tail" THEN marker = "half" ELSE marker = "none"
Relay(r) ==
    /\ call[r].at = "streaming" /\ call[r].pieces < MaxPieces
    /\ \E piece \in Pieces :
        /\ Follows(piece, call[r].marker)
        /\ call' = [call EXCEPT ![r].pieces = @ + 1,
                        ![r].sentDone = @ \/ piece \in {"quote", "marker"},
                        ![r].quoted = @ \/ piece = "quote",
                        ![r].marker = CASE piece = "head" -> "half"
                                        [] piece \in {"tail", "marker"} -> "whole"
                                        [] OTHER -> @,
                        ![r].dones = IF piece \in {"tail", "marker"} THEN @ + 1 ELSE @]
    /\ UNCHANGED <<load, clock, hits, expires>>

\* Mutant of EndStream: an error leaves without the marker.
EndStream_OnlyEnded(r) ==
    /\ call[r].at = "streaming"
    /\ \E how \in {"ended", "error"} :
        call' = [call EXCEPT ![r].at = "answered", ![r].answer = how,
                             ![r].dones = IF call[r].sentDone \/ how = "error" THEN @ ELSE @ + 1]
    /\ UNCHANGED <<load, clock, hits, expires>>

\* The stream ends, or breaks with an error event; then the marker is added
\* unless a chunk with it has been seen.
EndStream(r) ==
    /\ call[r].at = "streaming"
    /\ \E how \in {"ended", "error"} :
        call' = [call EXCEPT ![r].at = "answered", ![r].answer = how,
                             ![r].dones = IF call[r].sentDone THEN @ ELSE @ + 1]
    /\ UNCHANGED <<load, clock, hits, expires>>

---------------------------------------------------------------------------
\* GET /health asks the database, Redis and the channel of RabbitMQ.
Aggregate(statuses) ==
    CASE "unhealthy" \in statuses -> "unhealthy"
      [] "degraded" \in statuses -> "degraded"
      [] OTHER -> "healthy"
Probe(r) ==
    /\ call[r].at = "probing"
    /\ \E db, redis \in {"healthy", "unhealthy"}, rmq \in {"healthy", "degraded", "unhealthy"} :
        call' = Answer(r, Aggregate({db, redis, rmq}))
    /\ UNCHANGED <<load, clock, hits, expires>>

Serve(r) == \/ Count(r) \/ FailOpen(r) \/ Authorize(r) \/ Attempt(r) \/ Probe(r)
            \/ Open(r)

GatewayNext == Tick \/ \E r \in Requests : Arrive(r) \/ Serve(r) \/ Relay(r) \/ EndStream(r)

---------------------------------------------------------------------------
GatewayTypeOK ==
    /\ load \in DOMAIN Loads /\ clock \in 0..MaxClock[load]
    /\ hits \subseteq Requests \X (0..MaxClock[load]) /\ expires \in Nat
    /\ \A r \in Requests :
        /\ call[r].at \in {"new", "stamped", "admitted", "probing", "calling", "opening",
                           "streaming", "answered"}
        /\ call[r].route \in Routes /\ call[r].by \in Callers
        /\ call[r].tries \in 0..MaxTries /\ call[r].heard \subseteq Replies
        /\ call[r].answer = "none" <=> call[r].at # "answered"

\* RateLimitMiddleware promises Limit requests per window.  Those it has counted
\* and passed within any Window ticks, less the delay between the reading of the
\* clock and the pipeline, are never more, in whatever order the requests that
\* stand between the two reach Redis.
AdmittedInWindow ==
    \A t \in 0..clock :
        Cardinality({r \in Requests : call[r].counted \in 0..t
                                        /\ call[r].counted > t - (Window - MaxStall)}) <= Limit

\* What a client is told is what its service answered, whichever attempt it
\* answered and whatever became of the others: a success, save for the password
\* mail whose answer says nothing, and a refusal come from the service, and no
\* success of the service is told as a failure.  (What a service has done when
\* it refuses, fails or does not answer, the client is not told.)
ToldIsHeard ==
    \A r \in Requests :
        LET c == call[r] IN
        c.at = "answered" =>
            /\ c.answer = "ok" => c.heard \intersect Bodies # {} \/ c.route.op = "auth.forgot"
            /\ c.answer \in Refusals /\ c.tries > 0 => c.answer \in c.heard
            /\ "ok" \in c.heard => c.answer = "ok"

\* Whatever is kept from a user or changed for one about another user or about
\* an organization is asked of its service for administrators only, or for
\* the user it belongs to.
ForeignIsForAdmins ==
    \A r \in Requests :
        LET c == call[r] IN
        c.tries > 0 /\ c.route \in UNION {UserRoutes, OrganizationRoutes, MemberRoutes} /\ ~c.by.own
            => c.by.role = "admin"

\* A client that waits for [DONE] gets it with the end of every stream, broken
\* or not, as long as no text of the answer contains the marker.
DoneIsSent ==
    \A r \in Requests :
        call[r].answer \in {"ended", "error"} /\ ~call[r].quoted => call[r].dones > 0

\* Every request that is not a stream is answered, however the service fails:
\* each attempt has its timeout, and attempts are bounded.
EveryRequestIsAnswered ==
    \A r \in Requests : call[r].at \in {"stamped", "calling"} ~> call[r].at \in {"answered", "opening"}
=============================================================================
