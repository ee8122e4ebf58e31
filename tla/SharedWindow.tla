---------------------------- MODULE SharedWindow ----------------------------
(***************************************************************************)
(* The sliding window that the services may share: RateLimitMiddleware     *)
(* asks a script in Redis for the user first and then for the address of a *)
(* request.  A script is atomic; the clock it is given was read before, on *)
(* the host of the request.                                                *)
(*                                                                         *)
(* A member of the sorted set is the clock with a number that Redis draws  *)
(* from the same seed each time, so that requests with the same clock are  *)
(* one member.  The clocks of the hosts are taken to be one.               *)
(***************************************************************************)
EXTENDS Integers, FiniteSets

CONSTANTS
    Visits,         \* requests for paths that are not exempt
    UserOf, IpOf,   \* the user and the address of each, or NoIdentity
    NoIdentity,
    WindowSeconds,  \* window_seconds
    PerUser, PerIp, \* per_user_limit and per_ip_limit
    OpenOnFailure,  \* fail_open
    TickOf,         \* the fraction of a second of its clock
    LongestWay,     \* the longest time from reading the clock to the script
    MaxSeconds      \* bound on the clock

ASSUME WindowAssumption ==
    /\ WindowSeconds \in Nat \ {0} /\ PerUser \in Nat /\ PerIp \in Nat
    /\ LongestWay \in Nat /\ MaxSeconds \in Nat /\ OpenOnFailure \in BOOLEAN
    /\ IsFiniteSet(Visits)

VARIABLES
    seconds,        \* the clock
    members,        \* the sorted set of each key
    expiry,         \* when each key expires
    visit,          \* each request
    let             \* what the script let through: key, member and time

windowVars == <<seconds, members, expiry, visit, let>>

UserKeys == {<<"user", UserOf[v]>> : v \in {w \in Visits : UserOf[w] # NoIdentity}}
IpKeys == {<<"ip", IpOf[v]>> : v \in {w \in Visits : IpOf[w] # NoIdentity}}
LimitKeys == UserKeys \union IpKeys
LimitOf(k) == IF k \in UserKeys THEN PerUser ELSE PerIp

NewVisit == [at |-> "new", now |-> 0, answer |-> "none"]

WindowInit ==
    /\ seconds = 0
    /\ members = [k \in LimitKeys |-> {}]
    /\ expiry = [k \in LimitKeys |-> 0]
    /\ visit = [v \in Visits |-> NewVisit]
    /\ let = {}

\* What a request is asked after a check: the address, unless that was it or
\* there is none; then the application answers it.
AfterUser(v) == IF IpOf[v] # NoIdentity THEN "ip" ELSE "through"

\* dispatch reads the clock.
Dispatch(v) ==
    /\ visit[v].at = "new"
    /\ visit' = [visit EXCEPT ![v].at = IF UserOf[v] # NoIdentity THEN "user" ELSE AfterUser(v),
                              ![v].now = seconds]
    /\ UNCHANGED <<seconds, members, expiry, let>>

\* Mutant of Remaining: the window is cleared up to the clock itself.
Remaining_None(k, now) == {m \in members[k] : seconds < expiry[k] /\ m.score >= now}

\* ZREMRANGEBYSCORE with the clock of the request; a key that has expired is empty.
Remaining(k, now) == {m \in members[k] : seconds < expiry[k] /\ m.score > now - WindowSeconds}

\* _RATE_LIMIT_LUA for a request and a key: it refuses, or adds the request.
Refuse(v, k) ==
    /\ Cardinality(Remaining(k, visit[v].now)) >= LimitOf(k)
    /\ members' = [members EXCEPT ![k] = Remaining(k, visit[v].now)]
    /\ UNCHANGED <<expiry, let>>
Admit(v, k) ==
    LET new == [score |-> visit[v].now, tick |-> TickOf[v]] IN
    /\ Cardinality(Remaining(k, visit[v].now)) < LimitOf(k)
    /\ members' = [members EXCEPT ![k] = Remaining(k, visit[v].now) \union {new}]
    /\ expiry' = [expiry EXCEPT ![k] = seconds + WindowSeconds]
    /\ let' = let \union {[key |-> k, member |-> new, time |-> seconds]}

\* _rate_limit_response, and the 503 of a limiter that fails closed.
Ended(v, answer) == visit' = [visit EXCEPT ![v].at = "answered", ![v].answer = answer]

\* _check_limit, and on to the next check or to the application; when Redis
\* fails, before or after the script ran, there is no next check.
CheckLimit(v, k, next) ==
    /\ \/ Refuse(v, k) /\ Ended(v, "429")
       \/ Admit(v, k) /\ visit' = [visit EXCEPT ![v].at = next]
       \/ /\ Refuse(v, k) \/ Admit(v, k) \/ UNCHANGED <<members, expiry, let>>
          /\ IF OpenOnFailure THEN visit' = [visit EXCEPT ![v].at = "through"] ELSE Ended(v, "503")
    /\ UNCHANGED seconds

\* The per-user limit first, if the request has a user; a request that the per-IP
\* limit refuses stays counted for its user.
CheckUser(v) == visit[v].at = "user" /\ CheckLimit(v, <<"user", UserOf[v]>>, AfterUser(v))
CheckIp(v) == visit[v].at = "ip" /\ CheckLimit(v, <<"ip", IpOf[v]>>, "through")

\* call_next.
CallNext(v) ==
    /\ visit[v].at = "through" /\ Ended(v, "200")
    /\ UNCHANGED <<seconds, members, expiry, let>>

\* A request is not longer than LongestWay on its way to a script.
PassSecond ==
    /\ seconds < MaxSeconds
    /\ \A v \in Visits : visit[v].at \in {"user", "ip"} => seconds < visit[v].now + LongestWay
    /\ seconds' = seconds + 1
    /\ UNCHANGED <<members, expiry, visit, let>>

WindowNext ==
    \/ \E v \in Visits : Dispatch(v) \/ CheckUser(v) \/ CheckIp(v) \/ CallNext(v)
    \/ PassSecond

---------------------------------------------------------------------------
Member == [score : 0..MaxSeconds, tick : {TickOf[v] : v \in Visits}]

WindowTypeOK ==
    /\ seconds \in 0..MaxSeconds
    /\ members \in [LimitKeys -> SUBSET Member]
    /\ expiry \in [LimitKeys -> 0..(MaxSeconds + WindowSeconds)]
    /\ visit \in [Visits -> [at : {"new", "user", "ip", "through", "answered"}, now : 0..MaxSeconds,
                             answer : {"none", "200", "429", "503"}]]
    /\ let \subseteq [key : LimitKeys, member : Member, time : 0..MaxSeconds]

\* What the script let through for a key in the last seconds, as long as no
\* request that is still on its way may have moved the window past it.
Recent(k) == {e.member : e \in {l \in let : l.key = k /\ l.time > seconds - (WindowSeconds - LongestWay)}}

\* For each user and each address no more members than the limit are let through
\* in any time as long as the window, less the time that a clock is old when the
\* script reads it; also when requests arrive in another order than their clocks,
\* when an answer of Redis is lost, and when the key expires.
LimitsHold == \A k \in LimitKeys : Cardinality(Recent(k)) <= LimitOf(k)
=============================================================================
