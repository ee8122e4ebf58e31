----------------------------- MODULE RateWindow -----------------------------
(***************************************************************************)
(* The request limiter of the supported runtime: the first half of the     *)
(* middleware security in backend/runtime/main.py, up to call_next.        *)
(*                                                                         *)
(* There is no await in it, so one request is limited at a time.  The loop *)
(* that drops old instants takes a step for each turn; the clean-up of     *)
(* keys belongs to the step that lets a request through.  The clock is     *)
(* monotonic; current is the instant of the last request.                  *)
(*                                                                         *)
(* log and reply are history, for the promise of RateLimit.                *)
(***************************************************************************)
EXTENDS Integers, Sequences, FiniteSets

CONSTANTS
    Keys,          \* a host together with the kind of request, auth or api
    Limit,         \* Limit[k] : 15 or 240
    Window,        \* 60 seconds
    MaxKeys,       \* 5000: with more keys than that, dead ones are dropped
    Times          \* instants at which requests come

ASSUME KeysAssumption    == IsFiniteSet(Keys)
ASSUME LimitAssumption   == Limit \in [Keys -> Nat \ {0}]
ASSUME WindowAssumption  == Window \in Nat
ASSUME MaxKeysAssumption == MaxKeys \in Nat
ASSUME TimesAssumption   == Times \in SUBSET Nat

VARIABLES
    attempts,      \* attempts[k] : the bucket of a key, empty without one
    known,         \* the keys that attempts has
    current,       \* the instant of the last request
    key,           \* its key
    pc,            \* "idle" or, while the bucket is looked at, "evict"
    log, reply

vars == <<attempts, known, current, key, pc, log, reply>>

TypeOK ==
    /\ attempts \in [Keys -> Seq(Times)]
    /\ known \in SUBSET Keys
    /\ current \in Times
    /\ key \in Keys
    /\ pc \in {"idle", "evict"}
    /\ log \in [Keys -> Seq(Times)]
    /\ reply \in [key : Keys, at : Times, ok : BOOLEAN]

Init ==
    /\ attempts = [k \in Keys |-> <<>>]
    /\ known = {}
    /\ current \in Times
    /\ key \in Keys
    /\ pc = "idle"
    /\ log = [k \in Keys |-> <<>>]
    /\ reply = [key |-> key, at |-> current, ok |-> TRUE]

Bucket == attempts[key]

\* An instant that is out of the window of the request.
Old(t) == t < current - Window

\* A request comes: the default dictionary makes a bucket for a new key.
Arrive(k, t) ==
    /\ pc = "idle"
    /\ t >= current
    /\ pc' = "evict"
    /\ key' = k
    /\ current' = t
    /\ known' = known \union {k}
    /\ UNCHANGED <<attempts, log, reply>>

\* Mutant: an instant as old as the window is long is dropped.
PopLeft_Early ==
    /\ pc = "evict"
    /\ Bucket # <<>> /\ Head(Bucket) <= current - Window
    /\ attempts' = [attempts EXCEPT ![key] = Tail(@)]
    /\ UNCHANGED <<known, current, key, pc, log, reply>>

\* A turn of the loop that drops old instants.
PopLeft ==
    /\ pc = "evict"
    /\ Bucket # <<>> /\ Old(Head(Bucket))
    /\ attempts' = [attempts EXCEPT ![key] = Tail(@)]
    /\ UNCHANGED <<known, current, key, pc, log, reply>>

Evicted == pc = "evict" /\ (Bucket # <<>> => ~Old(Head(Bucket)))

Refuse ==
    /\ Evicted
    /\ Len(Bucket) >= Limit[key]
    /\ pc' = "idle"
    /\ reply' = [key |-> key, at |-> current, ok |-> FALSE]
    /\ UNCHANGED <<attempts, known, current, key, log>>

\* Mutant: keys are judged by the first instant of their bucket.
Dead_First(buckets) ==
    {k \in known : buckets[k] = <<>> \/ Old(buckets[k][1])}

\* Keys without an instant in the window of the request.
Dead(buckets) ==
    {k \in known : buckets[k] = <<>> \/ Old(buckets[k][Len(buckets[k])])}

Crowded == Cardinality(known) > MaxKeys

\* The request is let through; with too many keys, dead ones are dropped.
Admit ==
    LET buckets == [attempts EXCEPT ![key] = Append(@, current)]
        gone    == IF Crowded THEN Dead(buckets) ELSE {}
    IN /\ Evicted
       /\ Len(Bucket) < Limit[key]
       /\ attempts' = [k \in Keys |-> IF k \in gone THEN <<>> ELSE buckets[k]]
       /\ known' = known \ gone
       /\ log' = [log EXCEPT ![key] = Append(@, current)]
       /\ reply' = [key |-> key, at |-> current, ok |-> TRUE]
       /\ pc' = "idle"
       /\ UNCHANGED <<current, key>>

Next ==
    \/ \E k \in Keys, t \in Times : Arrive(k, t)
    \/ PopLeft
    \/ Refuse
    \/ Admit

Spec == Init /\ [][Next]_vars

-----------------------------------------------------------------------------
(* What must hold.                                                         *)

\* A limit of n in the log l of a key.
Spaced(l, n) == \A i \in 1..Len(l) - n : l[i + n] - l[i] > Window

\* However a window is laid over the requests that were let through, its
\* ends included, it holds no more of one key than its limit.
NeverOverLimit == \A k \in Keys : Spaced(log[k], Limit[k])

\* More keys than MaxKeys are kept only while each of them has an instant
\* in the window of the last request that was let through.
KeysAreLive ==
    pc = "idle" /\ reply.ok /\ Cardinality(known) > MaxKeys =>
        \A k \in known : \E i \in 1..Len(attempts[k]) : ~Old(attempts[k][i])

\* The limiter answers as if it remembered every request: what it forgets,
\* instants and keys, never counts again.
Limiter == INSTANCE RateLimit
LimiterSpec == Limiter!Spec

-----------------------------------------------------------------------------
(* Why it holds: the inductive invariant of RateWindowProofs.              *)

\* A bucket b is the end of the log l, and what it lacks is out of the window
\* that ends at t.
EndOf(b, l, t) ==
    LET n == Len(l) - Len(b) IN
    /\ n >= 0
    /\ \A i \in 1..Len(b) : b[i] = l[n + i]
    /\ \A i \in 1..n : l[i] < t - Window

\* The instants of a log are in order, and none is after t.
Ordered(l, t) ==
    \A i, j \in 1..Len(l) : l[i] <= t /\ (i <= j => l[i] <= l[j])

BucketInv ==
    \A k \in Keys : EndOf(attempts[k], log[k], current) /\ Ordered(log[k], current)

\* Keys without a bucket hold nothing; the reply is not ahead of the clock.
KnownInv ==
    /\ \A k \in Keys \ known : attempts[k] = <<>>
    /\ pc = "evict" => key \in known
    /\ reply.at <= current

WindowInv ==
    /\ TypeOK
    /\ BucketInv
    /\ KnownInv
    /\ NeverOverLimit
    /\ KeysAreLive
=============================================================================
