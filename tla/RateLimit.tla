------------------------------ MODULE RateLimit ------------------------------
(***************************************************************************)
(* What the request limiter of the runtime promises: a request is refused  *)
(* when, and only when, Limit[k] requests of its key were let through in   *)
(* the Window that ends with it.  How the instants are stored, and which   *)
(* of them are forgotten, does not show.                                   *)
(***************************************************************************)
EXTENDS Integers, Sequences, FiniteSets

CONSTANTS
    Keys,          \* a host together with the kind of request, auth or api
    Limit,         \* Limit[k] : requests let through in a window
    Window,        \* its length
    Times          \* instants at which requests may come

VARIABLES
    log,           \* log[k] : the instants of the requests let through
    reply          \* the last reply: its key, its instant, let through or not

Recent(k, t) == {i \in 1..Len(log[k]) : log[k][i] >= t - Window}

Init ==
    /\ log = [k \in Keys |-> <<>>]
    /\ \E k \in Keys, t \in Times : reply = [key |-> k, at |-> t, ok |-> TRUE]

Let(k, t) ==
    /\ Cardinality(Recent(k, t)) < Limit[k]
    /\ log' = [log EXCEPT ![k] = Append(@, t)]
    /\ reply' = [key |-> k, at |-> t, ok |-> TRUE]

Refuse(k, t) ==
    /\ Cardinality(Recent(k, t)) >= Limit[k]
    /\ reply' = [key |-> k, at |-> t, ok |-> FALSE]
    /\ UNCHANGED log

Next == \E k \in Keys, t \in Times : t >= reply.at /\ (Let(k, t) \/ Refuse(k, t))

Spec == Init /\ [][Next]_<<log, reply>>
=============================================================================
