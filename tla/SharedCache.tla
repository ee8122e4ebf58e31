----------------------------- MODULE SharedCache -----------------------------
(***************************************************************************)
(* The Redis cache that the services may share: get, set and delete, which *)
(* turn every error into "not there", and the decorator cached, which asks *)
(* the cache, calls the function when nothing came of it, and stores what  *)
(* the function returned.  The row behind the function changes meanwhile.  *)
(*                                                                         *)
(* One key is modelled, as keys do not touch each other; a value is the    *)
(* version of the row it was made from.                                    *)
(***************************************************************************)
EXTENDS Integers

CONSTANTS
    Lookups,        \* calls of a decorated function with the same arguments
    NoRow,          \* the versions of which the function returns None
    ExpireSeconds,  \* expire_seconds
    LongestLoad,    \* the longest time from the read of the row to SET
    MaxVersion,     \* bound on changes of the row
    MaxTime         \* bound on the clock

ASSUME CacheAssumption ==
    /\ ExpireSeconds \in Nat \ {0} /\ LongestLoad \in Nat
    /\ MaxVersion \in Nat /\ MaxTime \in Nat
    /\ NoRow \subseteq 0..MaxVersion

VARIABLES
    time,           \* the clock of Redis
    current,        \* the version of the row
    replacedAt,     \* when each version was replaced
    entry,          \* the entry of the key
    lookup          \* each call

cacheVars == <<time, current, replacedAt, entry, lookup>>

NoEntry == [version |-> 0, until |-> 0]
NewLookup == [at |-> "new", version |-> 0, since |-> 0, hit |-> FALSE]

CacheInit ==
    /\ time = 0 /\ current = 0
    /\ replacedAt = [v \in 0..MaxVersion |-> 0]
    /\ entry = NoEntry
    /\ lookup = [c \in Lookups |-> NewLookup]

\* An entry is there until its time to live is over.
Live == time < entry.until

\* wrapper up to the call of the function: get returns what it found, or None
\* for an entry that is not there and for any error.
GetCached(c) ==
    /\ lookup[c].at = "new"
    /\ \/ /\ Live
          /\ lookup' = [lookup EXCEPT ![c] = [at |-> "answered", version |-> entry.version, since |-> time, hit |-> TRUE]]
       \/ lookup' = [lookup EXCEPT ![c].at = "loading"]
    /\ UNCHANGED <<time, current, replacedAt, entry>>

\* The function reads the row; it may raise instead.
LoadRow(c) ==
    /\ lookup[c].at = "loading"
    /\ \/ lookup' = [lookup EXCEPT ![c] = [at |-> "loaded", version |-> current, since |-> time, hit |-> FALSE]]
       \/ lookup' = [lookup EXCEPT ![c].at = "raised"]
    /\ UNCHANGED <<time, current, replacedAt, entry>>

Stored(version) == [version |-> version, until |-> time + ExpireSeconds]

\* Mutant of SetCached: None is stored as well.
SetCached_None(c) ==
    /\ lookup[c].at = "loaded"
    /\ entry' \in {entry, Stored(lookup[c].version)}
    /\ lookup' = [lookup EXCEPT ![c].at = "answered", ![c].since = time]
    /\ UNCHANGED <<time, current, replacedAt>>

\* The rest of wrapper: set stores a result that is not None, or fails unnoticed.
SetCached(c) ==
    /\ lookup[c].at = "loaded"
    /\ entry' \in {entry} \union (IF lookup[c].version \in NoRow THEN {} ELSE {Stored(lookup[c].version)})
    /\ lookup' = [lookup EXCEPT ![c].at = "answered", ![c].since = time]
    /\ UNCHANGED <<time, current, replacedAt>>

\* delete; an error leaves the entry where it is.
DeleteEntry ==
    /\ entry' = NoEntry
    /\ UNCHANGED <<time, current, replacedAt, lookup>>

\* Someone changes the row.
ChangeRow ==
    /\ current < MaxVersion
    /\ current' = current + 1
    /\ replacedAt' = [replacedAt EXCEPT ![current] = time]
    /\ UNCHANGED <<time, entry, lookup>>

\* No call stays longer than LongestLoad between its read and its SET.
PassTime ==
    /\ time < MaxTime
    /\ \A c \in Lookups : lookup[c].at = "loaded" => time < lookup[c].since + LongestLoad
    /\ time' = time + 1
    /\ UNCHANGED <<current, replacedAt, entry, lookup>>

CacheNext ==
    \/ \E c \in Lookups : GetCached(c) \/ LoadRow(c) \/ SetCached(c)
    \/ DeleteEntry \/ ChangeRow \/ PassTime

---------------------------------------------------------------------------
CacheTypeOK ==
    /\ time \in 0..MaxTime /\ current \in 0..MaxVersion
    /\ replacedAt \in [0..MaxVersion -> 0..MaxTime]
    /\ entry \in [version : 0..MaxVersion, until : 0..(MaxTime + ExpireSeconds)]
    /\ lookup \in [Lookups -> [at : {"new", "loading", "loaded", "raised", "answered"},
                               version : 0..MaxVersion, since : 0..MaxTime, hit : BOOLEAN]]

\* A version was the current one less than n seconds before t.
CurrentWithin(v, n, t) == v = current \/ (v < current /\ t < replacedAt[v] + n)

\* Nobody is answered with a row that was replaced longer ago than an entry lives
\* and a call takes to store it, whatever calls and changes overlap and whatever
\* is deleted; and that there is no row is answered only by a call that has
\* looked, so that a row that is new is found at once.
AnswersAreRecent ==
    \A c \in Lookups : lookup[c].at = "answered" =>
        /\ CurrentWithin(lookup[c].version, ExpireSeconds + LongestLoad, lookup[c].since)
        /\ lookup[c].version \in NoRow => ~lookup[c].hit
        /\ ~lookup[c].hit => CurrentWithin(lookup[c].version, LongestLoad + 1, lookup[c].since)
=============================================================================
