------------------------ MODULE LegacyServicesProofs ------------------------
(***************************************************************************)
(* Theorems about LegacyServices, for any numbers of documents, parts,     *)
(* events, messages, consumers and readers and any bounds: each of the     *)
(* services has an inductive invariant, and a step of one leaves those of  *)
(* the others alone.  What the text pipeline computes with recursive       *)
(* functions is reasoned about by induction over sets of numbers.          *)
(***************************************************************************)
EXTENDS LegacyServices, SequenceTheorems, FiniteSetTheorems, WellFoundedInduction, TLAPS

---------------------------------------------------------------------------
(* The shared cache.                                                     *)

\* A version is the current one, or was when it was read at since.
ReadAt(v, since) == v \in 0..current /\ (v # current => since <= replacedAt[v])

\* What is stored is not from before its time, and never the lack of a row.
EntryInv ==
    entry.until > 0 =>
        /\ entry.version \notin NoRow /\ entry.version <= current
        /\ entry.until <= time + ExpireSeconds
        /\ entry.version # current => entry.until <= replacedAt[entry.version] + ExpireSeconds + LongestLoad

\* What a call has read was current when it read it, and it stores it in time.
LookupInv(c) ==
    LET l == lookup[c] IN
    /\ l.since <= time
    /\ l.at = "loaded" => ~l.hit /\ ReadAt(l.version, l.since) /\ time <= l.since + LongestLoad
    /\ l.at = "answered" =>
        /\ CurrentWithin(l.version, ExpireSeconds + LongestLoad, l.since)
        /\ l.version \in NoRow => ~l.hit
        /\ ~l.hit => CurrentWithin(l.version, LongestLoad + 1, l.since)

CacheInv == CacheTypeOK /\ EntryInv /\ \A c \in Lookups : LookupInv(c)

CallType == [at : {"new", "loading", "loaded", "raised", "answered"},
             version : 0..MaxVersion, since : 0..MaxTime, hit : BOOLEAN]

LEMMA CacheInitInv == CacheInit => CacheInv
<1> SUFFICES ASSUME CacheInit PROVE CacheInv
  OBVIOUS
<1>1. NewLookup \in CallType /\ NewLookup.at = "new" /\ NewLookup.since = 0
  BY CacheAssumption DEF NewLookup, CallType
<1>2. NoEntry \in [version : 0..MaxVersion, until : 0..(MaxTime + ExpireSeconds)] /\ NoEntry.until = 0
  BY CacheAssumption DEF NoEntry
<1>3. CacheTypeOK
  BY <1>1, <1>2, CacheAssumption DEF CacheInit, CacheTypeOK, CallType
<1>4. EntryInv
  BY <1>2 DEF CacheInit, EntryInv
<1>5. \A c \in Lookups : LookupInv(c)
  <2> SUFFICES ASSUME NEW c \in Lookups PROVE LookupInv(c)
    OBVIOUS
  <2>1. lookup[c] = NewLookup /\ time = 0
    BY DEF CacheInit
  <2> QED
    BY <1>1, <2>1 DEF LookupInv
<1> QED
  BY <1>3, <1>4, <1>5 DEF CacheInv

\* A call moves on by itself: the others, the row and the clock stay.
LEMMA LookupMoves ==
    ASSUME CacheInv, NEW c \in Lookups, NEW r \in CallType,
           lookup' = [lookup EXCEPT ![c] = r], UNCHANGED <<time, current, replacedAt>>,
           LookupInv(c)'
    PROVE  /\ \A d \in Lookups : LookupInv(d)'
           /\ lookup' \in [Lookups -> CallType]
<1>1. lookup \in [Lookups -> CallType]
  BY DEF CacheInv, CacheTypeOK, CallType
<1>2. ASSUME NEW d \in Lookups, d # c PROVE LookupInv(d)'
  <2>1. LookupInv(d) /\ lookup'[d] = lookup[d]
    BY <1>1, <1>2 DEF CacheInv
  <2> QED
    BY <2>1 DEF LookupInv, ReadAt, CurrentWithin
<1> QED
  BY <1>1, <1>2

LEMMA CacheTypes ==
    ASSUME CacheInv
    PROVE  /\ time \in Nat /\ current \in Nat /\ current <= MaxVersion /\ time <= MaxTime
           /\ ExpireSeconds \in Nat /\ ExpireSeconds > 0 /\ LongestLoad \in Nat
           /\ MaxVersion \in Nat /\ MaxTime \in Nat
           /\ entry.version \in 0..MaxVersion /\ entry.until \in Nat
           /\ \A v \in 0..MaxVersion : replacedAt[v] \in 0..MaxTime
           /\ \A c \in Lookups : lookup[c] \in CallType /\ LookupInv(c)
           /\ lookup \in [Lookups -> CallType]
BY CacheAssumption DEF CacheInv, CacheTypeOK, CallType

\* When the row changes, what was true of a version stays true.
LEMMA ReadStays ==
    ASSUME CacheInv, ChangeRow, NEW v \in 0..MaxVersion, NEW t \in Nat, t <= time, ReadAt(v, t)
    PROVE  ReadAt(v, t)'
<1>1. /\ time \in Nat /\ current \in Nat /\ current' = current + 1 /\ v <= current
      /\ \A w \in 0..MaxVersion : replacedAt'[w] = IF w = current THEN time ELSE replacedAt[w]
      /\ v # current => t <= replacedAt[v]
  BY CacheTypes DEF ChangeRow, CacheInv, CacheTypeOK, ReadAt
<1> QED
  BY <1>1 DEF ReadAt

LEMMA WithinStays ==
    ASSUME CacheInv, ChangeRow, NEW v \in 0..MaxVersion, NEW n \in Nat \ {0}, NEW t \in Nat, t <= time,
           CurrentWithin(v, n, t)
    PROVE  CurrentWithin(v, n, t)'
<1>1. /\ time \in Nat /\ current \in Nat /\ current' = current + 1
      /\ \A w \in 0..MaxVersion : replacedAt'[w] = IF w = current THEN time ELSE replacedAt[w]
      /\ v = current \/ (v < current /\ t < replacedAt[v] + n)
  BY CacheTypes DEF ChangeRow, CacheInv, CacheTypeOK, CurrentWithin
<1> QED
  BY <1>1 DEF CurrentWithin

LEMMA CacheNextInv == CacheInv /\ [CacheNext]_cacheVars => CacheInv'
<1> SUFFICES ASSUME CacheInv, [CacheNext]_cacheVars PROVE CacheInv'
  OBVIOUS
<1>0. /\ time \in Nat /\ current \in Nat /\ current <= MaxVersion /\ time <= MaxTime
      /\ ExpireSeconds \in Nat /\ ExpireSeconds > 0 /\ LongestLoad \in Nat
      /\ MaxVersion \in Nat /\ MaxTime \in Nat
      /\ entry.version \in 0..MaxVersion /\ entry.until \in Nat
      /\ \A v \in 0..MaxVersion : replacedAt[v] \in 0..MaxTime
      /\ lookup \in [Lookups -> CallType]
  BY CacheTypes
<1>1. CASE UNCHANGED cacheVars
  BY <1>1 DEF cacheVars, CacheInv, CacheTypeOK, EntryInv, LookupInv, ReadAt, CurrentWithin
<1>2. ASSUME NEW c \in Lookups, GetCached(c) PROVE CacheInv'
  <2>1. UNCHANGED <<time, current, replacedAt, entry>> /\ lookup[c].at = "new" /\ lookup[c] \in CallType /\ LookupInv(c)
    BY <1>0, <1>2 DEF GetCached, CacheInv
  <2>2. PICK r \in CallType : lookup' = [lookup EXCEPT ![c] = r] /\ LookupInv(c)'
    <3>1. CASE Live /\ lookup' = [lookup EXCEPT ![c] = [at |-> "answered", version |-> entry.version, since |-> time, hit |-> TRUE]]
      <4> DEFINE r == [at |-> "answered", version |-> entry.version, since |-> time, hit |-> TRUE]
      <4>1. r \in CallType /\ lookup'[c] = r
        BY <1>0, <3>1 DEF CallType
      <4>2. entry.version \notin NoRow /\ CurrentWithin(entry.version, ExpireSeconds + LongestLoad, time)
        BY <1>0, <3>1 DEF Live, CacheInv, EntryInv, CurrentWithin
      <4>3. LookupInv(c)'
        BY <1>0, <2>1, <4>1, <4>2 DEF LookupInv, CurrentWithin
      <4> QED
        BY <3>1, <4>1, <4>3
    <3>2. CASE lookup' = [lookup EXCEPT ![c].at = "loading"]
      <4> DEFINE r == [lookup[c] EXCEPT !.at = "loading"]
      <4>1. r \in CallType /\ r.at = "loading" /\ r.since = lookup[c].since
        BY <2>1 DEF CallType
      <4>2. lookup' = [lookup EXCEPT ![c] = r] /\ lookup'[c] = r
        BY <1>0, <3>2
      <4>3. LookupInv(c)'
        BY <2>1, <4>1, <4>2 DEF LookupInv
      <4> QED
        BY <4>1, <4>2, <4>3
    <3> QED
      BY <1>2, <3>1, <3>2 DEF GetCached
  <2> QED
    BY <2>1, <2>2, LookupMoves DEF CacheInv, CacheTypeOK, EntryInv, CallType
<1>3. ASSUME NEW c \in Lookups, LoadRow(c) PROVE CacheInv'
  <2>1. UNCHANGED <<time, current, replacedAt, entry>> /\ lookup[c].at = "loading" /\ lookup[c] \in CallType /\ LookupInv(c)
    BY <1>0, <1>3 DEF LoadRow, CacheInv
  <2>2. PICK r \in CallType : lookup' = [lookup EXCEPT ![c] = r] /\ LookupInv(c)'
    <3>1. CASE lookup' = [lookup EXCEPT ![c] = [at |-> "loaded", version |-> current, since |-> time, hit |-> FALSE]]
      <4> DEFINE r == [at |-> "loaded", version |-> current, since |-> time, hit |-> FALSE]
      <4>1. r \in CallType /\ lookup'[c] = r
        BY <1>0, <3>1 DEF CallType
      <4>2. LookupInv(c)'
        BY <1>0, <2>1, <4>1 DEF LookupInv, ReadAt
      <4> QED
        BY <3>1, <4>1, <4>2
    <3>2. CASE lookup' = [lookup EXCEPT ![c].at = "raised"]
      <4> DEFINE r == [lookup[c] EXCEPT !.at = "raised"]
      <4>1. r \in CallType /\ r.at = "raised" /\ r.since = lookup[c].since
        BY <2>1 DEF CallType
      <4>2. lookup' = [lookup EXCEPT ![c] = r] /\ lookup'[c] = r
        BY <1>0, <3>2
      <4>3. LookupInv(c)'
        BY <2>1, <4>1, <4>2 DEF LookupInv
      <4> QED
        BY <4>1, <4>2, <4>3
    <3> QED
      BY <1>3, <3>1, <3>2 DEF LoadRow
  <2> QED
    BY <2>1, <2>2, LookupMoves DEF CacheInv, CacheTypeOK, EntryInv, CallType
<1>4. ASSUME NEW c \in Lookups, SetCached(c) PROVE CacheInv'
  <2> DEFINE v == lookup[c].version
             r == [lookup[c] EXCEPT !.at = "answered", !.since = time]
  <2>1. /\ UNCHANGED <<time, current, replacedAt>> /\ lookup[c].at = "loaded"
        /\ lookup[c] \in CallType /\ LookupInv(c) /\ v \in 0..MaxVersion /\ lookup[c].since \in Nat
    BY <1>0, <1>4 DEF SetCached, CacheInv, CallType
  <2>2. ReadAt(v, lookup[c].since) /\ time <= lookup[c].since + LongestLoad /\ ~lookup[c].hit
    BY <2>1 DEF LookupInv
  <2>3. r \in CallType /\ r.at = "answered" /\ r.since = time /\ r.version = v /\ r.hit = lookup[c].hit
    <3>1. ASSUME NEW x \in CallType, NEW t \in 0..MaxTime
          PROVE  LET y == [x EXCEPT !.at = "answered", !.since = t]
                 IN y \in CallType /\ y.at = "answered" /\ y.since = t /\ y.version = x.version /\ y.hit = x.hit
      BY DEF CallType
    <3>2. time \in 0..MaxTime
      BY <1>0
    <3> QED
      BY <2>1, <3>1, <3>2
  <2>4. lookup' = [lookup EXCEPT ![c] = r]
    BY <1>4, <2>1 DEF SetCached, CallType
  <2>5. lookup'[c] = r
    BY <1>0, <2>4
  <2>6. CurrentWithin(v, ExpireSeconds + LongestLoad, time) /\ CurrentWithin(v, LongestLoad + 1, time)
    BY <1>0, <2>1, <2>2 DEF ReadAt, CurrentWithin
  <2>7. LookupInv(c)'
    <3> HIDE DEF r
    <3> QED
      BY <1>0, <2>1, <2>2, <2>3, <2>5, <2>6 DEF LookupInv, CurrentWithin
  <2>8. entry' \in [version : 0..MaxVersion, until : 0..(MaxTime + ExpireSeconds)] /\ EntryInv'
    <3>1. CASE entry' = entry
      BY <2>1, <3>1 DEF CacheInv, CacheTypeOK, EntryInv
    <3>2. CASE v \notin NoRow /\ entry' = Stored(v)
      <4>1. entry'.version = v /\ entry'.until = time + ExpireSeconds
            /\ entry' \in [version : 0..MaxVersion, until : 0..(MaxTime + ExpireSeconds)]
        BY <1>0, <2>1, <3>2 DEF Stored
      <4>2. EntryInv'
        BY <1>0, <2>1, <2>2, <3>2, <4>1 DEF EntryInv, ReadAt
      <4> QED
        BY <4>1, <4>2
    <3> QED
      BY <1>4, <3>1, <3>2 DEF SetCached
  <2> HIDE DEF r
  <2>9. (\A d \in Lookups : LookupInv(d)') /\ lookup' \in [Lookups -> CallType]
    BY <2>1, <2>3, <2>4, <2>7, LookupMoves
  <2> QED
    BY <2>1, <2>8, <2>9 DEF CacheInv, CacheTypeOK, CallType
<1>5. CASE DeleteEntry
  <2>1. NoEntry \in [version : 0..MaxVersion, until : 0..(MaxTime + ExpireSeconds)] /\ NoEntry.until = 0
    BY <1>0 DEF NoEntry
  <2> QED
    BY <1>5, <2>1 DEF DeleteEntry, CacheInv, CacheTypeOK, EntryInv, LookupInv, ReadAt, CurrentWithin
<1>6. CASE ChangeRow
  <2>1. /\ current' = current + 1 /\ current' \in 0..MaxVersion /\ current < MaxVersion
        /\ UNCHANGED <<time, entry, lookup>>
        /\ replacedAt' \in [0..MaxVersion -> 0..MaxTime]
        /\ replacedAt'[current] = time
        /\ \A v \in 0..MaxVersion : v # current => replacedAt'[v] = replacedAt[v]
    BY <1>0, <1>6 DEF ChangeRow, CacheInv, CacheTypeOK
  <2>2. CacheTypeOK'
    BY <2>1 DEF CacheInv, CacheTypeOK
  <2>3. EntryInv'
    <3> SUFFICES ASSUME entry.until > 0
                 PROVE  /\ entry.version \notin NoRow /\ entry.version <= current'
                        /\ entry.until <= time + ExpireSeconds
                        /\ entry.version # current' =>
                              entry.until <= replacedAt'[entry.version] + ExpireSeconds + LongestLoad
      BY <2>1 DEF EntryInv
    <3>1. /\ entry.version \notin NoRow /\ entry.version <= current
          /\ entry.until <= time + ExpireSeconds
          /\ entry.version # current =>
                entry.until <= replacedAt[entry.version] + ExpireSeconds + LongestLoad
      BY DEF CacheInv, EntryInv
    <3>2. replacedAt'[entry.version] = IF entry.version = current THEN time ELSE replacedAt[entry.version]
      BY <1>0, <2>1
    <3>3. replacedAt[entry.version] \in Nat
      BY <1>0
    <3> QED
      BY <1>0, <2>1, <3>1, <3>2, <3>3
  <2>4. ASSUME NEW c \in Lookups PROVE LookupInv(c)'
    <3>1. PICK l \in CallType : l = lookup[c]
      BY <1>0
    <3>2. lookup'[c] = l /\ time' = time /\ l.since \in Nat /\ l.version \in 0..MaxVersion /\ l.since <= time
      BY <1>0, <2>1, <3>1 DEF CacheInv, CallType, LookupInv
    <3>3. /\ l.at = "loaded" => ~l.hit /\ ReadAt(l.version, l.since) /\ time <= l.since + LongestLoad
          /\ l.at = "answered" =>
                /\ CurrentWithin(l.version, ExpireSeconds + LongestLoad, l.since)
                /\ l.version \in NoRow => ~l.hit
                /\ ~l.hit => CurrentWithin(l.version, LongestLoad + 1, l.since)
      <4>1. LookupInv(c)
        BY DEF CacheInv
      <4> QED
        BY <3>1, <4>1 DEF LookupInv
    <3>4. ReadAt(l.version, l.since) => ReadAt(l.version, l.since)'
      BY <1>6, <3>2, ReadStays
    <3>5. /\ ExpireSeconds + LongestLoad \in Nat \ {0} /\ LongestLoad + 1 \in Nat \ {0}
      BY <1>0
    <3>6. CurrentWithin(l.version, ExpireSeconds + LongestLoad, l.since)
             => CurrentWithin(l.version, ExpireSeconds + LongestLoad, l.since)'
      BY <1>6, <3>2, <3>5, WithinStays
    <3>7. CurrentWithin(l.version, LongestLoad + 1, l.since) => CurrentWithin(l.version, LongestLoad + 1, l.since)'
      BY <1>6, <3>2, <3>5, WithinStays
    <3>8. /\ l.since <= time'
          /\ l.at = "loaded" => ~l.hit /\ ReadAt(l.version, l.since)' /\ time' <= l.since + LongestLoad
          /\ l.at = "answered" =>
                /\ CurrentWithin(l.version, ExpireSeconds + LongestLoad, l.since)'
                /\ l.version \in NoRow => ~l.hit
                /\ ~l.hit => CurrentWithin(l.version, LongestLoad + 1, l.since)'
      BY <3>2, <3>3, <3>4, <3>6, <3>7
    <3> QED
      BY <3>2, <3>8 DEF LookupInv, ReadAt, CurrentWithin
  <2> QED
    BY <2>2, <2>3, <2>4 DEF CacheInv
<1>7. CASE PassTime
  <2>1. /\ time < MaxTime /\ time' = time + 1 /\ UNCHANGED <<current, replacedAt, entry, lookup>>
        /\ \A c \in Lookups : lookup[c].at = "loaded" => time < lookup[c].since + LongestLoad
    BY <1>7 DEF PassTime
  <2>2. CacheTypeOK'
    BY <1>0, <2>1 DEF CacheInv, CacheTypeOK
  <2>3. EntryInv'
    BY <1>0, <2>1 DEF CacheInv, EntryInv
  <2>4. ASSUME NEW c \in Lookups PROVE LookupInv(c)'
    <3>1. lookup[c].since \in Nat /\ LookupInv(c)
      BY <1>0 DEF CacheInv, CallType
    <3> QED
      BY <1>0, <2>1, <3>1 DEF LookupInv, ReadAt, CurrentWithin
  <2> QED
    BY <2>2, <2>3, <2>4 DEF CacheInv
<1> QED
  BY <1>1, <1>2, <1>3, <1>4, <1>5, <1>6, <1>7 DEF CacheNext

LEMMA CachePromises == CacheInv => CacheTypeOK /\ AnswersAreRecent
BY DEF CacheInv, LookupInv, AnswersAreRecent

---------------------------------------------------------------------------
(* The document service and its worker.                                  *)

RowType == [status: Status, is_deleted: BOOLEAN, chunk_count: Nat]
NotBegun == {"new", "stored"}
BeforeSave == {"received", "fetching", "extracted", "saving"}

\* What the row, the file, the message and the job of a document have to do with
\* each other.
DocOf(d) ==
    /\ row[d].status = "absent" => row[d] = Absent
    /\ row[d].status # "absent" <=> upload[d] = "accepted"
    /\ deletion[d] # "none" => upload[d] = "accepted"
    /\ upload[d] \in {"stored", "published", "accepted"} /\ deletion[d] = "none" => d \in objects
    /\ upload[d] \in NotBegun => d \notin queue /\ job[d] = "idle" /\ chunkRows[d] = 0
    /\ d \in queue => job[d] = "idle"
    /\ d \in queue \/ job[d] \in BeforeSave => chunkRows[d] <= Parts[d] * crashes
    /\ chunkRows[d] <= Parts[d] * (1 + crashes)
    /\ upload[d] \in {"published", "accepted"} /\ d \notin queue /\ job[d] \in {"idle", "settled"}
           => row[d].status \in Decided \/ row[d].is_deleted \/ d \in unnoticed
    /\ job[d] = "saved" \/ row[d].status = "embedding"
           => row[d].chunk_count = Parts[d] /\ chunkRows[d] >= Parts[d]

DocInv == DocTypeOK /\ \A d \in Docs : DocOf(d)

\* Chunks of one delivery more.
LEMMA OneMore ==
    ASSUME NEW p \in Nat, NEW n \in Nat
    PROVE  p * n \in Nat /\ p * (1 + n) \in Nat /\ p * (1 + n) = p * n + p /\ p * (1 + (n + 1)) = p * (1 + n) + p
           /\ 1 + n = n + 1
OBVIOUS

LEMMA DocInitInv == DocInit => DocInv
<1> SUFFICES ASSUME DocInit PROVE DocInv
  OBVIOUS
<1>1. Absent \in RowType /\ Absent.status = "absent"
  BY DEF Absent, RowType, Status
<1>2. DocTypeOK
  BY <1>1, PartsAssumption DEF DocInit, DocTypeOK, RowType
<1>3. ASSUME NEW d \in Docs PROVE DocOf(d)
  <2>1. Parts[d] * 0 = 0 /\ Parts[d] * (1 + 0) = Parts[d] /\ Parts[d] \in Nat
    BY PartsAssumption
  <2> QED
    BY <1>1, <2>1 DEF DocInit, DocOf, NotBegun, BeforeSave, Decided
<1> QED
  BY <1>2, <1>3 DEF DocInv

\* Nothing but d changes.
Apart(d) ==
    /\ crashes' = crashes
    /\ \A e \in Docs \ {d} :
        /\ row'[e] = row[e] /\ chunkRows'[e] = chunkRows[e] /\ upload'[e] = upload[e]
        /\ deletion'[e] = deletion[e] /\ job'[e] = job[e]
        /\ e \in objects' <=> e \in objects
        /\ e \in queue' <=> e \in queue
        /\ e \in unnoticed' <=> e \in unnoticed

LEMMA ApartInv ==
    ASSUME DocInv, NEW d \in Docs, Apart(d), DocTypeOK', DocOf(d)'
    PROVE  DocInv'
<1>1. ASSUME NEW e \in Docs \ {d} PROVE DocOf(e)'
  <2>1. DocOf(e)
    BY DEF DocInv
  <2> QED
    BY <2>1 DEF DocOf, Apart
<1> QED
  BY <1>1 DEF DocInv

LEMMA UploadInv ==
    ASSUME DocInv, NEW d \in Docs, Store(d) \/ Publish(d) \/ Commit(d)
    PROVE  DocInv'
<1>0. DocOf(d) /\ DocTypeOK
  BY DEF DocInv
<1>1. CASE Store(d)
  <2>1. /\ upload[d] = "new" /\ UNCHANGED <<row, chunkRows, deletion, queue, job, crashes, unnoticed>>
        /\ \/ upload' = [upload EXCEPT ![d] = "stored"] /\ objects' = objects \union {d}
           \/ upload' = [upload EXCEPT ![d] = "refused"] /\ objects' = objects
    BY <1>1 DEF Store, Uploaded
  <2>2. Apart(d) /\ DocTypeOK' /\ upload'[d] \in {"stored", "refused"} /\ (upload'[d] = "stored" => d \in objects')
    BY <1>0, <2>1 DEF Apart, DocTypeOK
  <2>3. DocOf(d)'
    BY <1>0, <2>1, <2>2 DEF DocOf, NotBegun
  <2> QED
    BY <2>2, <2>3, ApartInv
<1>2. CASE Publish(d)
  <2>1. /\ upload[d] = "stored" /\ UNCHANGED <<row, objects, chunkRows, deletion, job, crashes>>
        /\ \/ upload' = [upload EXCEPT ![d] = "published"] /\ queue' = queue \union {d} /\ unnoticed' = unnoticed
           \/ upload' = [upload EXCEPT ![d] = "published"] /\ unnoticed' = unnoticed \union {d} /\ queue' = queue
           \/ upload' = [upload EXCEPT ![d] = "refused"] /\ queue' = queue /\ unnoticed' = unnoticed
    BY <1>2 DEF Publish, PublishEvent
  <2>2. Apart(d) /\ DocTypeOK' /\ upload'[d] \in {"published", "refused"}
        /\ (upload'[d] = "published" => d \in queue' \union unnoticed')
        /\ (upload'[d] = "refused" => queue' = queue)
    BY <1>0, <2>1 DEF Apart, DocTypeOK
  <2>3. chunkRows[d] = 0 /\ job[d] = "idle" /\ chunkRows[d] <= Parts[d] * crashes /\ d \notin queue
    <3>1. crashes \in Nat /\ Parts[d] \in Nat
      BY <1>0, PartsAssumption DEF DocTypeOK
    <3> QED
      BY <1>0, <2>1, <3>1, OneMore DEF DocOf, NotBegun
  <2>4. DocOf(d)'
    BY <1>0, <2>1, <2>2, <2>3 DEF DocOf, NotBegun
  <2> QED
    BY <2>2, <2>4, ApartInv
<1>3. CASE Commit(d)
  <2>1. /\ upload[d] = "published" /\ UNCHANGED <<objects, chunkRows, deletion, queue, job, crashes, unnoticed>>
        /\ \/ upload' = [upload EXCEPT ![d] = "accepted"] /\ row' = [row EXCEPT ![d] = Pending]
           \/ upload' = [upload EXCEPT ![d] = "refused"] /\ row' = row
    BY <1>3 DEF Commit
  <2>2. Pending \in RowType /\ Pending.status = "pending" /\ Pending.chunk_count = 0 /\ ~Pending.is_deleted
    BY DEF Pending, Absent, RowType, Status
  <2>3. /\ Apart(d) /\ DocTypeOK'
        /\ \/ upload'[d] = "accepted" /\ row'[d] = Pending
           \/ upload'[d] = "refused" /\ row'[d] = row[d]
    <3> HIDE DEF Pending
    <3>1. CASE upload' = [upload EXCEPT ![d] = "accepted"] /\ row' = [row EXCEPT ![d] = Pending]
      <4>1. row' \in [Docs -> RowType] /\ row'[d] = Pending /\ \A e \in Docs \ {d} : row'[e] = row[e]
        BY <1>0, <2>2, <3>1 DEF DocTypeOK, RowType
      <4> QED
        BY <1>0, <2>1, <3>1, <4>1 DEF Apart, DocTypeOK, RowType
    <3>2. CASE upload' = [upload EXCEPT ![d] = "refused"] /\ row' = row
      BY <1>0, <2>1, <3>2 DEF Apart, DocTypeOK
    <3> QED
      BY <2>1, <3>1, <3>2
  <2>4. row[d].status = "absent" /\ row[d] = Absent /\ Absent.chunk_count = 0 /\ Absent.status = "absent"
        /\ ~Absent.is_deleted
    BY <1>0, <2>1 DEF DocOf, Absent
  <2>5. DocOf(d)'
    BY <1>0, <2>1, <2>2, <2>3, <2>4 DEF DocOf, NotBegun, Decided
  <2> QED
    BY <2>3, <2>5, ApartInv
<1> QED
  BY <1>1, <1>2, <1>3

LEMMA DeletionInv ==
    ASSUME DocInv, NEW d \in Docs, Mark(d) \/ Deleting(d)
    PROVE  DocInv'
<1>0. DocOf(d) /\ DocTypeOK /\ row[d] \in RowType
  BY DEF DocInv, DocTypeOK, RowType
<1>1. CASE Mark(d) \/ RemoveObject(d)
  <2>1. /\ UNCHANGED <<row, chunkRows, upload, queue, job, crashes, unnoticed>>
        /\ row[d].status # "absent" \/ deletion[d] # "none"
        /\ \E at \in {"marked", "removed"} : deletion' = [deletion EXCEPT ![d] = at]
        /\ objects' = objects \/ objects' = objects \ {d}
    BY <1>1 DEF Mark, RemoveObject, Found, Removed
  <2>2. Apart(d) /\ DocTypeOK' /\ deletion'[d] # "none"
    BY <1>0, <2>1 DEF Apart, DocTypeOK
  <2>3. DocOf(d)'
    BY <1>0, <2>1, <2>2 DEF DocOf
  <2> QED
    BY <2>2, <2>3, ApartInv
<1>2. CASE EndDeletion(d)
  <2> DEFINE r == [row[d] EXCEPT !.status = "deleted", !.is_deleted = TRUE]
  <2>1. /\ UNCHANGED <<objects, chunkRows, upload, queue, job, crashes, unnoticed>>
        /\ deletion[d] = "removed"
        /\ \/ deletion' = [deletion EXCEPT ![d] = "done"] /\ row' = [row EXCEPT ![d] = r]
           \/ deletion' = [deletion EXCEPT ![d] = "undone"] /\ row' = row
    BY <1>2 DEF EndDeletion
  <2>2. r \in RowType /\ r.status = "deleted" /\ r.is_deleted /\ r.chunk_count = row[d].chunk_count
    BY <1>0 DEF RowType, Status
  <2> HIDE DEF r
  <2>3. Apart(d) /\ DocTypeOK' /\ deletion'[d] # "none" /\ row'[d] \in {row[d], r}
    BY <1>0, <2>1, <2>2 DEF Apart, DocTypeOK, RowType
  <2>4. DocOf(d)'
    BY <1>0, <2>1, <2>2, <2>3 DEF DocOf
  <2> QED
    BY <2>3, <2>4, ApartInv
<1> QED
  BY <1>1, <1>2 DEF Deleting

\* _update_status writes a status and nothing else, and no row that is not there.
LEMMA StatusIsSet ==
    ASSUME DocInv, NEW d \in Docs, NEW status \in Status
    PROVE  LET set == StatusSet(d, status)
           IN  /\ set \in [Docs -> RowType] /\ \A e \in Docs \ {d} : set[e] = row[e]
               /\ set[d].status = IF row[d].status = "absent" THEN "absent" ELSE status
               /\ set[d].is_deleted = row[d].is_deleted /\ set[d].chunk_count = row[d].chunk_count
               /\ row[d].status = "absent" => set[d] = row[d]
<1>1. row \in [Docs -> RowType] /\ row[d] \in RowType
  BY DEF DocInv, DocTypeOK, RowType
<1> DEFINE r == [row[d] EXCEPT !.status = status]
<1>2. r \in RowType /\ r.status = status /\ r.is_deleted = row[d].is_deleted /\ r.chunk_count = row[d].chunk_count
  BY <1>1 DEF RowType
<1>3. [row EXCEPT ![d].status = status] = [row EXCEPT ![d] = r]
  OBVIOUS
<1> HIDE DEF r
<1> QED
  BY <1>1, <1>2, <1>3 DEF StatusSet

LEMMA UpdateInv ==
    ASSUME DocInv, NEW d \in Docs, Begin(d) \/ StartChunking(d) \/ HandOver(d)
    PROVE  DocInv'
<1>0. DocOf(d) /\ DocTypeOK /\ row[d] \in RowType
  BY DEF DocInv, DocTypeOK, RowType
<1>1. PICK from \in {"received", "extracted", "saved"}, status \in {"processing", "chunking", "embedding"},
           to \in {"fetching", "saving", "settled"} :
        /\ UpdateStatus(d, from, status, to)
        /\ from = "saved" <=> status = "embedding"
        /\ from = "saved" <=> to = "settled"
  BY DEF Begin, StartChunking, HandOver
<1>2. /\ job[d] = from /\ UNCHANGED <<objects, chunkRows, upload, deletion, queue, crashes>>
      /\ \/ /\ row' = StatusSet(d, status) /\ job' = [job EXCEPT ![d] = to]
            /\ unnoticed' = IF to = "settled" THEN Missed(d) ELSE unnoticed
         \/ row' = row /\ unnoticed' = unnoticed /\ job' = [job EXCEPT ![d] = "failing"]
  BY <1>1 DEF UpdateStatus
<1>3. CASE row' = row /\ unnoticed' = unnoticed /\ job' = [job EXCEPT ![d] = "failing"]
  <2>1. Apart(d) /\ DocTypeOK' /\ job'[d] = "failing"
    BY <1>0, <1>2, <1>3 DEF Apart, DocTypeOK
  <2>2. DocOf(d)'
    BY <1>0, <1>2, <1>3, <2>1 DEF DocOf, BeforeSave, NotBegun
  <2> QED
    BY <2>1, <2>2, ApartInv
<1>4. CASE /\ row' = StatusSet(d, status) /\ job' = [job EXCEPT ![d] = to]
           /\ unnoticed' = IF to = "settled" THEN Missed(d) ELSE unnoticed
  <2>1. status \in Status
    BY DEF Status, Decided
  <2>2. /\ row' \in [Docs -> RowType] /\ \A e \in Docs \ {d} : row'[e] = row[e]
        /\ row'[d].status = IF row[d].status = "absent" THEN "absent" ELSE status
        /\ row'[d].is_deleted = row[d].is_deleted /\ row'[d].chunk_count = row[d].chunk_count
        /\ row[d].status = "absent" => row'[d] = row[d]
    BY <1>4, <2>1, StatusIsSet
  <2>3. unnoticed \subseteq unnoticed' /\ unnoticed' \subseteq unnoticed \union {d}
        /\ (to = "settled" /\ row[d].status = "absent" => d \in unnoticed')
    BY <1>4 DEF Missed
  <2>4. Apart(d) /\ DocTypeOK' /\ job'[d] = to
    BY <1>0, <1>2, <1>4, <2>2, <2>3 DEF Apart, DocTypeOK, RowType
  <2>5. status # "absent" /\ (to = "settled" => status \in Decided)
    BY <1>1 DEF Decided
  <2>6. ASSUME row[d].status = "absent" PROVE DocOf(d)'
    BY <1>0, <1>1, <1>2, <2>2, <2>3, <2>4, <2>5, <2>6 DEF DocOf, BeforeSave, NotBegun
  <2>7. ASSUME row[d].status # "absent" PROVE DocOf(d)'
    BY <1>0, <1>1, <1>2, <2>2, <2>3, <2>4, <2>5, <2>7 DEF DocOf, BeforeSave, NotBegun
  <2>8. DocOf(d)' => DocInv'
    BY <2>4, ApartInv
  <2> QED
    BY <2>6, <2>7, <2>8
<1> QED
  BY <1>2, <1>3, <1>4

LEMMA SaveInv == ASSUME DocInv, NEW d \in Docs, Save(d) PROVE DocInv'
<1>0. DocOf(d) /\ DocTypeOK /\ row[d] \in RowType /\ crashes \in Nat /\ Parts[d] \in Nat /\ chunkRows[d] \in Nat
  BY PartsAssumption DEF DocInv, DocTypeOK, RowType
<1>1. job[d] = "saving" /\ UNCHANGED <<objects, upload, deletion, queue, crashes, unnoticed>>
  BY DEF Save
<1>2. CASE row' = row /\ chunkRows' = chunkRows /\ job' = [job EXCEPT ![d] = "failing"]
  <2>1. Apart(d) /\ DocTypeOK' /\ job'[d] = "failing"
    BY <1>0, <1>1, <1>2 DEF Apart, DocTypeOK
  <2>2. DocOf(d)'
    BY <1>0, <1>1, <1>2, <2>1 DEF DocOf, BeforeSave, NotBegun
  <2> QED
    BY <2>1, <2>2, ApartInv
<1>3. CASE SaveChunks(d) /\ row' = WithStats(d) /\ job' = [job EXCEPT ![d] = "saved"]
  <2> DEFINE set == StatusSet(d, "chunking")
             n == chunkRows[d] + Parts[d]
  <2>1. "chunking" \in Status
    BY DEF Status
  <2>2. /\ set \in [Docs -> RowType] /\ \A e \in Docs \ {d} : set[e] = row[e]
        /\ set[d].status = IF row[d].status = "absent" THEN "absent" ELSE "chunking"
        /\ set[d].is_deleted = row[d].is_deleted /\ set[d].chunk_count = row[d].chunk_count
        /\ row[d].status = "absent" => set[d] = row[d]
    BY <2>1, StatusIsSet
  <2> HIDE DEF set
  <2>3. row[d].status = "absent" => Parts[d] = 0 /\ row[d].chunk_count = 0
    BY <1>0, <1>3 DEF SaveChunks, DocOf, Absent
  <2>4. /\ row' \in [Docs -> RowType] /\ \A e \in Docs \ {d} : row'[e] = row[e]
        /\ row'[d].status = IF row[d].status = "absent" THEN "absent" ELSE "chunking"
        /\ row'[d].is_deleted = row[d].is_deleted /\ row'[d].chunk_count = Parts[d]
        /\ row[d].status = "absent" => row'[d] = row[d]
    <3> DEFINE m == IF row[d].status = "absent" THEN set[d].chunk_count ELSE Parts[d]
               r == [set[d] EXCEPT !.chunk_count = m]
    <3>1. m = Parts[d] /\ set[d] \in RowType
      BY <2>2, <2>3
    <3>2. row' = [set EXCEPT ![d] = r]
      BY <1>3 DEF WithStats, set
    <3>3. ASSUME NEW x \in RowType, NEW k \in Nat
          PROVE  LET y == [x EXCEPT !.chunk_count = k]
                 IN y \in RowType /\ y.status = x.status /\ y.is_deleted = x.is_deleted /\ y.chunk_count = k
                    /\ (x.chunk_count = k => y = x)
      BY DEF RowType
    <3> HIDE DEF m
    <3>4. r \in RowType /\ r.status = set[d].status /\ r.is_deleted = set[d].is_deleted /\ r.chunk_count = m
          /\ (set[d].chunk_count = m => r = set[d])
      BY <1>0, <3>1, <3>3
    <3> HIDE DEF r
    <3> QED
      BY <2>2, <2>3, <3>1, <3>2, <3>4
  <2>5. chunkRows' = [chunkRows EXCEPT ![d] = n] /\ n \in Nat
    BY <1>0, <1>3 DEF SaveChunks
  <2> HIDE DEF n
  <2>6. Apart(d) /\ DocTypeOK' /\ job'[d] = "saved" /\ chunkRows'[d] = n
    BY <1>0, <1>1, <1>3, <2>4, <2>5 DEF Apart, DocTypeOK, RowType
  <2>7. n >= Parts[d] /\ n <= Parts[d] * (1 + crashes)
    <3>1. chunkRows[d] <= Parts[d] * crashes
      BY <1>0, <1>1 DEF DocOf, BeforeSave
    <3>2. Parts[d] * crashes \in Nat /\ Parts[d] * (1 + crashes) = Parts[d] * crashes + Parts[d]
      BY <1>0, OneMore
    <3> HIDE DEF DocOf
    <3> QED
      BY <1>0, <3>1, <3>2 DEF n
  <2>8. DocOf(d)'
    BY <1>0, <1>1, <2>4, <2>6, <2>7 DEF DocOf, BeforeSave, NotBegun, Decided
  <2> QED
    BY <2>6, <2>8, ApartInv
<1> QED
  BY <1>2, <1>3 DEF Save

LEMMA FailInv == ASSUME DocInv, NEW d \in Docs, Fail(d) PROVE DocInv'
<1>0. DocOf(d) /\ DocTypeOK /\ row[d] \in RowType
  BY DEF DocInv, DocTypeOK, RowType
<1>1. /\ job[d] = "failing" /\ job' = [job EXCEPT ![d] = "settled"]
      /\ UNCHANGED <<objects, chunkRows, upload, deletion, queue, crashes>>
      /\ \/ row' = StatusSet(d, "failed") /\ unnoticed' = Missed(d)
         \/ unnoticed' = unnoticed \union {d} /\ row' = row
  BY DEF Fail
<1>2. "failed" \in Status /\ "failed" \in Decided
  BY DEF Status, Decided
<1>3. /\ row' \in [Docs -> RowType] /\ \A e \in Docs \ {d} : row'[e] = row[e]
      /\ row'[d].is_deleted = row[d].is_deleted /\ row'[d].chunk_count = row[d].chunk_count
      /\ row[d].status = "absent" => row'[d] = row[d]
      /\ row[d].status # "absent" => row'[d].status # "absent"
      /\ row'[d].status \in {row[d].status, "failed"}
      /\ row'[d].status = "failed" \/ d \in unnoticed'
      /\ unnoticed \subseteq unnoticed' /\ unnoticed' \subseteq unnoticed \union {d}
  <2>1. CASE unnoticed' = unnoticed \union {d} /\ row' = row
    BY <1>0, <2>1 DEF DocTypeOK, RowType
  <2>2. CASE row' = StatusSet(d, "failed") /\ unnoticed' = Missed(d)
    <3>1. /\ row' \in [Docs -> RowType] /\ \A e \in Docs \ {d} : row'[e] = row[e]
          /\ row'[d].status = IF row[d].status = "absent" THEN "absent" ELSE "failed"
          /\ row'[d].is_deleted = row[d].is_deleted /\ row'[d].chunk_count = row[d].chunk_count
          /\ row[d].status = "absent" => row'[d] = row[d]
      BY <1>2, <2>2, StatusIsSet
    <3> QED
      BY <2>2, <3>1 DEF Missed
  <2> QED
    BY <1>1, <2>1, <2>2
<1>4. Apart(d) /\ DocTypeOK' /\ job'[d] = "settled"
  BY <1>0, <1>1, <1>3 DEF Apart, DocTypeOK, RowType
<1>5. DocOf(d)'
  BY <1>0, <1>1, <1>2, <1>3, <1>4 DEF DocOf, BeforeSave, NotBegun
<1> QED
  BY <1>4, <1>5, ApartInv

LEMMA JobInv ==
    ASSUME DocInv, NEW d \in Docs, Receive(d) \/ Extract(d) \/ Settle(d)
    PROVE  DocInv'
<1>0. DocOf(d) /\ DocTypeOK
  BY DEF DocInv
<1>1. /\ UNCHANGED <<row, objects, chunkRows, upload, deletion, crashes, unnoticed>>
      /\ \/ d \in queue /\ job[d] = "idle" /\ queue' = queue \ {d} /\ job' = [job EXCEPT ![d] = "received"]
         \/ job[d] = "fetching" /\ queue' = queue /\ job' = [job EXCEPT ![d] = "extracted"]
         \/ job[d] = "fetching" /\ queue' = queue /\ job' = [job EXCEPT ![d] = "failing"]
         \/ job[d] = "settled" /\ queue' = queue /\ job' = [job EXCEPT ![d] = "idle"]
  BY DEF Receive, Extract, Settle
<1>2. Apart(d) /\ DocTypeOK' /\ job'[d] \in {"received", "extracted", "failing", "idle"}
  BY <1>0, <1>1 DEF Apart, DocTypeOK
<1>3. /\ \/ d \in queue /\ job[d] = "idle" /\ d \notin queue' /\ job'[d] = "received"
         \/ job[d] = "fetching" /\ queue' = queue /\ job'[d] = "extracted"
         \/ job[d] = "fetching" /\ queue' = queue /\ job'[d] = "failing"
         \/ job[d] = "settled" /\ queue' = queue /\ job'[d] = "idle"
  BY <1>0, <1>1 DEF DocTypeOK
<1>4. DocOf(d)'
  BY <1>0, <1>1, <1>3 DEF DocOf, BeforeSave, NotBegun
<1> QED
  BY <1>2, <1>4, ApartInv

LEMMA LostInv == ASSUME DocInv, WorkerLost PROVE DocInv'
<1>1. PICK held \in SUBSET {d \in Docs : job[d] # "idle"} :
        /\ crashes < MaxCrashes
        /\ job' = [d \in Docs |-> IF d \in held THEN "idle" ELSE job[d]]
        /\ queue' = queue \union held
        /\ crashes' = crashes + 1
        /\ UNCHANGED <<row, objects, chunkRows, upload, deletion, unnoticed>>
  BY DEF WorkerLost
<1>2. DocTypeOK'
  BY <1>1, PartsAssumption DEF DocInv, DocTypeOK
<1>3. ASSUME NEW d \in Docs PROVE DocOf(d)'
  <2>1. DocOf(d) /\ crashes \in Nat /\ Parts[d] \in Nat /\ chunkRows[d] \in Nat
    BY PartsAssumption DEF DocInv, DocTypeOK
  <2>2. /\ Parts[d] * crashes \in Nat /\ Parts[d] * (1 + crashes) \in Nat
        /\ Parts[d] * (1 + crashes) = Parts[d] * crashes + Parts[d]
        /\ Parts[d] * (1 + (crashes + 1)) = Parts[d] * (1 + crashes) + Parts[d]
        /\ 1 + crashes = crashes + 1
    BY <2>1, OneMore
  <2>3. chunkRows'[d] <= Parts[d] * crashes' /\ chunkRows'[d] <= Parts[d] * (1 + crashes')
    <3>1. chunkRows[d] <= Parts[d] * (1 + crashes)
      BY <2>1 DEF DocOf
    <3>2. Parts[d] * crashes' = Parts[d] * (1 + crashes)
      BY <1>1, <2>2
    <3>3. Parts[d] * (1 + crashes') = Parts[d] * (1 + crashes) + Parts[d]
      BY <1>1, <2>2
    <3> QED
      BY <1>1, <2>1, <2>2, <3>1, <3>2, <3>3
  <2>4. d \in held => job[d] # "idle" /\ d \in queue' /\ job'[d] = "idle"
    BY <1>1
  <2>5. d \notin held => job'[d] = job[d] /\ (d \in queue' <=> d \in queue)
    BY <1>1
  <2> QED
    BY <1>1, <2>1, <2>3, <2>4, <2>5 DEF DocOf
<1> QED
  BY <1>2, <1>3 DEF DocInv

LEMMA DocNextInv == DocInv /\ [DocNext]_docVars => DocInv'
<1> SUFFICES ASSUME DocInv, [DocNext]_docVars PROVE DocInv'
  OBVIOUS
<1>1. CASE UNCHANGED docVars
  BY <1>1 DEF docVars, DocInv, DocTypeOK, DocOf
<1>2. CASE DocNext
  BY <1>2, UploadInv, DeletionInv, UpdateInv, SaveInv, FailInv, JobInv, LostInv DEF DocNext, Working
<1> QED
  BY <1>1, <1>2

LEMMA DocPromises == DocInv => DocTypeOK /\ FileBehindRow /\ SavedOncePerDelivery /\ EndIsRecorded
<1> SUFFICES ASSUME DocInv PROVE FileBehindRow /\ SavedOncePerDelivery /\ EndIsRecorded
  BY DEF DocInv
<1>1. FileBehindRow
  BY DEF DocInv, DocOf, FileBehindRow, Downloadable, Found
<1>2. SavedOncePerDelivery
  BY DEF DocInv, DocOf, SavedOncePerDelivery
<1>3. EndIsRecorded
  BY DEF DocInv, DocOf, EndIsRecorded, Found, StatusShown, ChunksShown, NotBegun
<1> QED
  BY <1>1, <1>2, <1>3

---------------------------------------------------------------------------
(* The shared client of RabbitMQ.                                        *)

\* A consumer that handles a message holds it, on the channel that delivered it
\* unless that one is gone.
ReaderInv(c) ==
    /\ hand[c] # NoLetter <=> reader[c] \in Busy
    /\ channel[c] # "open" => reader[c] \in Busy
    /\ reader[c] \in {"off", "over"} \/ channel[c] = "closed" => fetched[c] = {}
    /\ hand[c] # NoLetter /\ channel[c] = "open" => hand[c] \in fetched[c]
    /\ reader[c] = "succeeded" => successes[hand[c]] > 0

\* A message is with one consumer at most.
LetterInv(m) ==
    /\ letter[m] = "acked" => successes[m] > 0
    /\ letter[m] = "rejected" => returns[m] >= MaxRetries
    /\ letter[m] = "fetched" <=> \E c \in Readers : m \in fetched[c]
    /\ \A b, c \in Readers : m \in fetched[b] /\ m \in fetched[c] => b = c

\* Who may still process a message although its channel is gone, and whether it
\* will not come to anybody else before channels go away again.
Slow(m, c) == hand[c] = m /\ reader[c] = "handling" /\ channel[c] # "open"
Behind(m) == {c \in Readers : Slow(m, c)}
Held(m, c) == hand[c] = m /\ reader[c] = "succeeded" /\ channel[c] = "open"
Through(m) == letter[m] \in {"acked", "rejected"} \/ \E c \in Readers : Held(m, c)

\* What was processed and what may yet be, without further trouble.
CountInv(m) == successes[m] + Cardinality(Behind(m)) + (IF Through(m) THEN 0 ELSE 1) <= 1 + troubles

MsgInv ==
    /\ MessagingTypeOK
    /\ \A c \in Readers : ReaderInv(c)
    /\ \A m \in Letters : LetterInv(m) /\ CountInv(m)

LEMMA MsgInitInv == ASSUME NEW scene, Opening(scene) PROVE MsgInv
<1> USE MessagingAssumption DEF Opening
<1>1. MessagingTypeOK
  <2>1. letter \in [Letters -> {"unsent", "sending", "unrouted", "refused", "ready", "fetched",
                               "stranded", "acked", "rejected"}]
    OBVIOUS
  <2>2. reader \in [Readers -> {"off", "waiting", "over"} \union Busy]
    OBVIOUS
  <2>3. fetched \in [Readers -> SUBSET Letters] /\ hand \in [Readers -> Letters \union {NoLetter}]
    OBVIOUS
  <2>4. returns \in [Letters -> Nat] /\ successes \in [Letters -> Nat] /\ consuming \in [Readers -> BOOLEAN]
        /\ channel \in [Readers -> {"open", "replaced", "closed"}]
    OBVIOUS
  <2>5. MaxTroubles \in Nat /\ troubles = 0 /\ pooled \in BOOLEAN /\ bound \in BOOLEAN
    OBVIOUS
  <2>6. quorum \in BOOLEAN
    OBVIOUS
  <2> HIDE DEF Opening
  <2> QED
    BY <2>1, <2>2, <2>3, <2>4, <2>5, <2>6 DEF MessagingTypeOK
<1>2. \A c \in Readers : ReaderInv(c)
  BY DEF ReaderInv, Busy
<1>3. ASSUME NEW m \in Letters PROVE LetterInv(m) /\ CountInv(m)
  <2>1. LetterInv(m)
    BY DEF LetterInv
  <2>2. Behind(m) = {}
    BY DEF Behind, Slow
  <2> HIDE DEF Opening
  <2>3. Cardinality(Behind(m)) = 0 /\ successes[m] = 0 /\ troubles = 0
    BY <2>2, FS_EmptySet DEF Opening
  <2> QED
    BY <2>1, <2>3 DEF CountInv
<1> QED
  BY <1>1, <1>2, <1>3 DEF MsgInv

\* The types, one by one.
LEMMA MsgTypes ==
    ASSUME MsgInv
    PROVE  /\ quorum \in BOOLEAN /\ pooled \in BOOLEAN /\ bound \in BOOLEAN
           /\ \A m \in Letters : /\ letter[m] \in {"unsent", "sending", "unrouted", "refused", "ready", "fetched",
                                                   "stranded", "acked", "rejected"}
                                 /\ returns[m] \in Nat /\ successes[m] \in Nat
           /\ \A c \in Readers : /\ reader[c] \in {"off", "waiting", "over", "handling", "succeeded", "failed"}
                                 /\ fetched[c] \subseteq Letters
                                 /\ hand[c] \in Letters \union {NoLetter}
                                 /\ channel[c] \in {"open", "replaced", "closed"}
                                 /\ ReaderInv(c)
           /\ troubles \in Nat /\ troubles <= MaxTroubles /\ MaxTroubles \in Nat
           /\ NoLetter \notin Letters /\ IsFiniteSet(Readers)
BY MessagingAssumption DEF MsgInv, MessagingTypeOK, Busy

\* How many a set of consumers has after one joined, or left.
LEMMA FewMore ==
    ASSUME NEW S \in SUBSET Readers, NEW T \in SUBSET Readers
    PROVE  /\ Cardinality(S) \in Nat /\ Cardinality(T) \in Nat
           /\ T \subseteq S => Cardinality(T) <= Cardinality(S)
           /\ \A c : T \subseteq S \union {c} => Cardinality(T) <= Cardinality(S) + 1
           /\ \A c \in S : T \subseteq S \ {c} => Cardinality(T) + 1 <= Cardinality(S)
<1>1. IsFiniteSet(S) /\ IsFiniteSet(T)
  BY MessagingAssumption, FS_Subset
<1>2. Cardinality(S) \in Nat /\ Cardinality(T) \in Nat
  BY <1>1, FS_CardinalityType
<1>3. T \subseteq S => Cardinality(T) <= Cardinality(S)
  BY <1>1, FS_Subset
<1>4. ASSUME NEW c, T \subseteq S \union {c} PROVE Cardinality(T) <= Cardinality(S) + 1
  <2>1. /\ IsFiniteSet(S \union {c})
        /\ Cardinality(S \union {c}) = IF c \in S THEN Cardinality(S) ELSE Cardinality(S) + 1
    BY <1>1, FS_AddElement
  <2>2. Cardinality(T) <= Cardinality(S \union {c})
    BY <1>4, <2>1, FS_Subset
  <2> QED
    BY <1>2, <2>1, <2>2
<1>5. ASSUME NEW c \in S, T \subseteq S \ {c} PROVE Cardinality(T) + 1 <= Cardinality(S)
  <2>1. /\ IsFiniteSet(S \ {c})
        /\ Cardinality(S \ {c}) = IF c \in S THEN Cardinality(S) - 1 ELSE Cardinality(S)
    BY <1>1, FS_RemoveElement
  <2>2. Cardinality(T) <= Cardinality(S \ {c})
    BY <1>5, <2>1, FS_Subset
  <2> QED
    BY <1>2, <2>1, <2>2
<1> QED
  BY <1>2, <1>3, <1>4, <1>5

\* A step that lets nobody process a message who might not have, leaves the count.
LEMMA QuietCount ==
    ASSUME MsgInv, NEW m \in Letters, successes'[m] = successes[m], troubles' = troubles,
           \A c \in Readers : Slow(m, c)' => Slow(m, c),
           Through(m) => Through(m)'
    PROVE  CountInv(m)'
<1>1. Behind(m)' \subseteq Behind(m)
  BY DEF Behind
<1>2. Behind(m) \in SUBSET Readers /\ Behind(m)' \in SUBSET Readers
  BY DEF Behind
<1>3. Cardinality(Behind(m)) \in Nat /\ Cardinality(Behind(m)') \in Nat
      /\ Cardinality(Behind(m)') <= Cardinality(Behind(m))
  BY <1>1, <1>2, FewMore
<1>4. CountInv(m) /\ successes[m] \in Nat /\ troubles \in Nat
  BY MsgTypes DEF MsgInv
<1> HIDE DEF Behind
<1> QED
  BY <1>3, <1>4 DEF CountInv

\* Trouble lets one consumer more process it: who held it on its channel, or who
\* is given it after that one was through with it.
LEMMA TroubleCount ==
    ASSUME MsgInv, NEW m \in Letters, successes'[m] = successes[m], troubles' = troubles + 1,
           letter[m] \in {"acked", "rejected"} => letter'[m] = letter[m],
           \A c \in Readers : hand'[c] = hand[c] /\ (Slow(m, c)' => Slow(m, c) \/ (channel[c] = "open" /\ reader[c] = "handling" /\ hand[c] = m))
    PROVE  CountInv(m)'
<1>0. CountInv(m) /\ successes[m] \in Nat /\ troubles \in Nat /\ m # NoLetter
  BY MsgTypes DEF MsgInv
<1>1. ASSUME NEW b \in Readers, NEW c \in Readers, hand[b] = m, channel[b] = "open", hand[c] = m, channel[c] = "open"
      PROVE  b = c
  BY <1>0, <1>1 DEF MsgInv, ReaderInv, LetterInv
<1>2. Behind(m) \in SUBSET Readers /\ Behind(m)' \in SUBSET Readers
  BY DEF Behind
<1>3. CASE \E c \in Readers : Held(m, c)
  <2>1. Behind(m)' \subseteq Behind(m)
    BY <1>1, <1>3 DEF Behind, Held
  <2>2. Cardinality(Behind(m)) \in Nat /\ Cardinality(Behind(m)') \in Nat
        /\ Cardinality(Behind(m)') <= Cardinality(Behind(m))
    BY <1>2, <2>1, FewMore
  <2> HIDE DEF Behind
  <2> QED
    BY <1>0, <1>3, <2>2 DEF CountInv, Through
<1>4. CASE ~\E c \in Readers : Held(m, c)
  <2>1. \E c : Behind(m)' \subseteq Behind(m) \union {c}
    <3>1. CASE \E c \in Readers : hand[c] = m /\ channel[c] = "open"
      <4>1. PICK c \in Readers : hand[c] = m /\ channel[c] = "open"
        BY <3>1
      <4>2. Behind(m)' \subseteq Behind(m) \union {c}
        BY <1>1, <4>1 DEF Behind
      <4> QED
        BY <4>2
    <3>2. CASE ~\E c \in Readers : hand[c] = m /\ channel[c] = "open"
      BY <3>2 DEF Behind
    <3> QED
      BY <3>1, <3>2
  <2>2. Cardinality(Behind(m)) \in Nat /\ Cardinality(Behind(m)') \in Nat
        /\ Cardinality(Behind(m)') <= Cardinality(Behind(m)) + 1
    BY <1>2, <2>1, FewMore
  <2>3. Through(m) => Through(m)'
    BY <1>4 DEF Through
  <2> HIDE DEF Behind
  <2> QED
    BY <1>0, <2>2, <2>3 DEF CountInv
<1> QED
  BY <1>3, <1>4

\* Publishing and connecting touch no message that a consumer has.
LEMMA PublishInv ==
    ASSUME MsgInv, OpenPools \/ \E m \in Letters : BeginPublish(m) \/ EndPublish(m)
    PROVE  MsgInv'
<1>1. /\ UNCHANGED <<quorum, bound, returns, successes, reader, consuming, fetched, hand, channel, troubles>>
      /\ pooled' \in BOOLEAN
      /\ \/ letter' = letter
         \/ \E m \in Letters, at \in {"sending", "ready", "unrouted", "refused"} :
                letter[m] \in {"unsent", "sending"} /\ letter' = [letter EXCEPT ![m] = at]
  <2>1. CASE OpenPools
    BY <2>1 DEF OpenPools
  <2>2. ASSUME NEW m \in Letters, BeginPublish(m) \/ EndPublish(m)
        PROVE  /\ UNCHANGED <<quorum, bound, pooled, returns, successes, reader, consuming, fetched, hand, channel, troubles>>
               /\ \E at \in {"sending", "ready", "unrouted", "refused"} :
                      letter[m] \in {"unsent", "sending"} /\ letter' = [letter EXCEPT ![m] = at]
    BY <2>2 DEF BeginPublish, EndPublish, queueVars
  <2>3. pooled \in BOOLEAN
    BY MsgTypes
  <2> QED
    BY <2>1, <2>2, <2>3
<1>2. MessagingTypeOK'
  BY <1>1 DEF MsgInv, MessagingTypeOK
<1>3. ASSUME NEW c \in Readers PROVE ReaderInv(c)'
  BY <1>1 DEF MsgInv, ReaderInv
<1>4. ASSUME NEW m \in Letters PROVE LetterInv(m)' /\ CountInv(m)'
  <2>1. LetterInv(m) /\ (letter'[m] = letter[m] \/ (letter[m] \in {"unsent", "sending"}
            /\ letter'[m] \in {"sending", "ready", "unrouted", "refused"}))
    BY <1>1 DEF MsgInv, MessagingTypeOK
  <2>2. LetterInv(m)'
    BY <1>1, <2>1 DEF LetterInv
  <2>3. CountInv(m)'
    BY <1>1, <2>1, QuietCount DEF Slow, Held, Through
  <2> QED
    BY <2>2, <2>3
<1> QED
  BY <1>2, <1>3, <1>4 DEF MsgInv

LEMMA StartInv ==
    ASSUME MsgInv, NEW c \in Readers, StartConsuming(c) \/ StopConsuming(c)
    PROVE  MsgInv'
<1>1. /\ UNCHANGED <<quorum, pooled, letter, returns, successes, fetched, hand, channel, troubles>>
      /\ bound' \in BOOLEAN /\ consuming' \in [Readers -> BOOLEAN]
      /\ reader' = reader \/ (reader[c] = "off" /\ reader' = [reader EXCEPT ![c] = "waiting"])
  BY DEF StartConsuming, StopConsuming, queueVars, MsgInv, MessagingTypeOK
<1>2. MessagingTypeOK'
  BY <1>1 DEF MsgInv, MessagingTypeOK
<1>3. ASSUME NEW b \in Readers
      PROVE  reader'[b] = reader[b] \/ (reader[b] = "off" /\ reader'[b] = "waiting")
  BY <1>1 DEF MsgInv, MessagingTypeOK
<1>4. ASSUME NEW b \in Readers PROVE ReaderInv(b)'
  <2>1. ReaderInv(b)
    BY DEF MsgInv
  <2> QED
    BY <1>1, <1>3, <2>1 DEF ReaderInv, Busy
<1>5. ASSUME NEW m \in Letters PROVE LetterInv(m)' /\ CountInv(m)'
  <2>1. LetterInv(m)'
    BY <1>1 DEF MsgInv, LetterInv
  <2>2. CountInv(m)'
    BY <1>1, <1>3, QuietCount DEF Slow, Held, Through
  <2> QED
    BY <2>1, <2>2
<1> QED
  BY <1>2, <1>4, <1>5 DEF MsgInv

LEMMA PrefetchedInv ==
    ASSUME MsgInv, NEW c \in Readers, NEW n \in Letters, Prefetched(c, n)
    PROVE  MsgInv'
<1>1. /\ UNCHANGED <<quorum, pooled, bound, returns, successes, reader, consuming, hand, channel, troubles>>
      /\ letter[n] = "ready" /\ letter' = [letter EXCEPT ![n] = "fetched"]
      /\ fetched' = [fetched EXCEPT ![c] = @ \union {n}]
      /\ reader[c] \notin {"off", "over"} /\ channel[c] # "closed"
  BY DEF Prefetched, queueVars, Running
<1>2. MessagingTypeOK'
  BY <1>1 DEF MsgInv, MessagingTypeOK
<1>3. /\ \A b \in Readers : fetched'[b] = IF b = c THEN fetched[b] \union {n} ELSE fetched[b]
      /\ \A m \in Letters : letter'[m] = IF m = n THEN "fetched" ELSE letter[m]
  BY <1>1 DEF MsgInv, MessagingTypeOK
<1>4. ASSUME NEW b \in Readers PROVE ReaderInv(b)'
  <2>1. ReaderInv(b)
    BY DEF MsgInv
  <2> QED
    BY <1>1, <1>3, <2>1 DEF ReaderInv
<1>5. ASSUME NEW m \in Letters PROVE LetterInv(m)' /\ CountInv(m)'
  <2>1. LetterInv(m)
    BY DEF MsgInv
  <2>2. LetterInv(m)'
    BY <1>1, <1>3, <2>1 DEF LetterInv
  <2>3. CountInv(m)'
    BY <1>1, <1>3, QuietCount DEF Slow, Held, Through
  <2> QED
    BY <2>2, <2>3
<1> QED
  BY <1>2, <1>4, <1>5 DEF MsgInv

\* Putting messages back counts them, on a queue that counts.
LEMMA CountedUp ==
    ASSUME MsgInv, NEW ms, Counted(ms)
    PROVE  returns' \in [Letters -> Nat] /\ \A m \in Letters : returns[m] <= returns'[m]
<1>1. ASSUME NEW m \in Letters PROVE returns'[m] \in Nat /\ returns[m] <= returns'[m]
  <2>1. returns[m] \in Nat
    BY MsgTypes
  <2> QED
    BY <2>1 DEF Counted
<1> QED
  BY <1>1 DEF Counted

\* A consumer that leaves its loop gives back what it had; whatever it was
\* handling it does not hold on a channel.
LEMMA LeaveInv ==
    ASSUME MsgInv, NEW c \in Readers, NEW n \in Letters \union {NoLetter}, LeaveLoop(c, n),
           n \in fetched[c] \/ n = NoLetter, reader[c] = "waiting" \/ channel[c] # "open",
           UNCHANGED <<queueVars, successes, consuming, troubles>>
    PROVE  MsgInv'
<1> DEFINE given == fetched[c] \ {n}
<1>1. /\ reader' = [reader EXCEPT ![c] = "over"] /\ fetched' = [fetched EXCEPT ![c] = {}]
      /\ letter' = [m \in Letters |-> IF m = n THEN "stranded" ELSE IF m \in given THEN "ready" ELSE letter[m]]
      /\ hand' = [hand EXCEPT ![c] = NoLetter] /\ channel' = [channel EXCEPT ![c] = "open"]
      /\ UNCHANGED <<quorum, pooled, bound, successes, consuming, troubles>>
      /\ Counted(given)
  BY DEF LeaveLoop, queueVars
<1>2. returns' \in [Letters -> Nat] /\ \A m \in Letters : returns[m] <= returns'[m]
  BY <1>1, CountedUp
<1>3. MessagingTypeOK'
  <2>1. letter' \in [Letters -> {"unsent", "sending", "unrouted", "refused", "ready", "fetched",
                               "stranded", "acked", "rejected"}]
    BY <1>1 DEF MsgInv, MessagingTypeOK
  <2> QED
    BY <1>1, <1>2, <2>1 DEF MsgInv, MessagingTypeOK
<1>4. \A b \in Readers : IF b = c THEN reader'[b] = "over" /\ fetched'[b] = {} /\ hand'[b] = NoLetter /\ channel'[b] = "open"
                         ELSE reader'[b] = reader[b] /\ fetched'[b] = fetched[b] /\ hand'[b] = hand[b] /\ channel'[b] = channel[b]
  BY <1>1 DEF MsgInv, MessagingTypeOK
<1>5. ASSUME NEW b \in Readers PROVE ReaderInv(b)'
  <2>1. ReaderInv(b)
    BY DEF MsgInv
  <2>2. CASE b = c
    BY <1>4, <2>2 DEF ReaderInv, Busy
  <2>3. CASE b # c
    BY <1>1, <1>4, <2>1, <2>3 DEF ReaderInv
  <2> QED
    BY <2>2, <2>3
<1>6. ASSUME NEW m \in Letters PROVE LetterInv(m)' /\ CountInv(m)'
  <2>1. LetterInv(m) /\ returns[m] \in Nat /\ returns'[m] \in Nat /\ returns[m] <= returns'[m] /\ MaxRetries \in Nat
        /\ m # NoLetter
    BY <1>2, MsgTypes, MessagingAssumption DEF MsgInv
  <2>2. letter'[m] = IF m \in fetched[c] THEN (IF m = n THEN "stranded" ELSE "ready") ELSE letter[m]
    BY <1>1, <2>1
  <2>3. LetterInv(m)'
    BY <1>1, <1>4, <2>1, <2>2 DEF LetterInv
  <2>4. \A b \in Readers : Slow(m, b)' => Slow(m, b)
    BY <1>4, <2>1 DEF Slow
  <2>5. Through(m) => Through(m)'
    <3>1. \A b \in Readers : Held(m, b) => b # c
      BY <1>1 DEF Held
    <3>2. \A b \in Readers : Held(m, b) => Held(m, b)'
      BY <1>4, <3>1 DEF Held
    <3>3. letter[m] \in {"acked", "rejected"} => letter'[m] = letter[m]
      BY <2>1, <2>2 DEF LetterInv
    <3> QED
      BY <3>2, <3>3 DEF Through
  <2>6. CountInv(m)'
    BY <1>1, <2>4, <2>5, QuietCount
  <2> QED
    BY <2>3, <2>6
<1> QED
  BY <1>3, <1>5, <1>6 DEF MsgInv

LEMMA TakeInv == ASSUME MsgInv, NEW c \in Readers, TakeNext(c) PROVE MsgInv'
<1>1. PICK n \in fetched[c] :
        \/ /\ reader[c] = "waiting" /\ consuming[c]
           /\ hand' = [hand EXCEPT ![c] = n] /\ reader' = [reader EXCEPT ![c] = "handling"]
           /\ UNCHANGED <<letter, returns, fetched, channel>>
        \/ reader[c] = "waiting" /\ LeaveLoop(c, n)
  BY DEF TakeNext
<1>2. UNCHANGED <<queueVars, successes, consuming, troubles>> /\ n \in Letters
  BY MsgTypes DEF TakeNext
<1>3. CASE reader[c] = "waiting" /\ LeaveLoop(c, n)
  BY <1>2, <1>3, LeaveInv
<1>4. CASE /\ reader[c] = "waiting"
           /\ hand' = [hand EXCEPT ![c] = n] /\ reader' = [reader EXCEPT ![c] = "handling"]
           /\ UNCHANGED <<letter, returns, fetched, channel>>
  <2>1. MessagingTypeOK'
    BY <1>2, <1>4 DEF MsgInv, MessagingTypeOK, Busy, queueVars
  <2>2. \A b \in Readers : IF b = c THEN hand'[b] = n /\ reader'[b] = "handling"
                           ELSE hand'[b] = hand[b] /\ reader'[b] = reader[b]
    BY <1>4 DEF MsgInv, MessagingTypeOK
  <2>3. channel[c] = "open" /\ n # NoLetter
    BY <1>2, <1>4, MessagingAssumption DEF MsgInv, ReaderInv, Busy
  <2>4. ASSUME NEW b \in Readers PROVE ReaderInv(b)'
    <3>1. ReaderInv(b)
      BY DEF MsgInv
    <3>2. CASE b = c
      BY <1>1, <1>2, <1>4, <2>2, <2>3, <3>1, <3>2 DEF ReaderInv, Busy
    <3>3. CASE b # c
      BY <1>2, <1>4, <2>2, <3>1, <3>3 DEF ReaderInv
    <3> QED
      BY <3>2, <3>3
  <2>5. ASSUME NEW m \in Letters PROVE LetterInv(m)' /\ CountInv(m)'
    <3>1. LetterInv(m)'
      BY <1>2, <1>4 DEF MsgInv, LetterInv
    <3>2. CountInv(m)'
      <4>1. \A b \in Readers : (Slow(m, b)' => Slow(m, b)) /\ (Held(m, b) => Held(m, b)')
        BY <1>4, <2>2, <2>3 DEF Slow, Held
      <4> QED
        BY <1>2, <1>4, <4>1, QuietCount DEF Through
    <3> QED
      BY <3>1, <3>2
  <2> QED
    BY <2>1, <2>4, <2>5 DEF MsgInv
<1> QED
  BY <1>1, <1>3, <1>4

\* process_message returned, or raised.
LEMMA ProcessInv == ASSUME MsgInv, NEW c \in Readers, ProcessMessage(c) PROVE MsgInv'
<1> DEFINE n == hand[c]
<1>1. /\ reader[c] = "handling"
      /\ UNCHANGED <<quorum, pooled, bound, letter, returns, consuming, fetched, hand, channel, troubles>>
      /\ \/ reader' = [reader EXCEPT ![c] = "succeeded"] /\ successes' = [successes EXCEPT ![n] = @ + 1]
         \/ reader' = [reader EXCEPT ![c] = "failed"] /\ successes' = successes
  BY DEF ProcessMessage, queueVars
<1>2. n \in Letters /\ ReaderInv(c)
  BY <1>1, MsgTypes DEF MsgInv, ReaderInv, Busy
<1> HIDE DEF n
<1>3. CASE reader' = [reader EXCEPT ![c] = "failed"] /\ successes' = successes
  <2>1. MessagingTypeOK'
    BY <1>1, <1>3 DEF MsgInv, MessagingTypeOK, Busy
  <2>2. \A b \in Readers : reader'[b] = IF b = c THEN "failed" ELSE reader[b]
    BY <1>3 DEF MsgInv, MessagingTypeOK
  <2>3. ASSUME NEW b \in Readers PROVE ReaderInv(b)'
    <3>1. ReaderInv(b)
      BY DEF MsgInv
    <3> QED
      BY <1>1, <1>3, <2>2, <3>1 DEF ReaderInv, Busy
  <2>4. ASSUME NEW m \in Letters PROVE LetterInv(m)' /\ CountInv(m)'
    <3>1. LetterInv(m)'
      BY <1>1, <1>3 DEF MsgInv, LetterInv
    <3>2. \A b \in Readers : (Slow(m, b)' => Slow(m, b)) /\ (Held(m, b) => Held(m, b)')
      BY <1>1, <2>2 DEF Slow, Held
    <3>3. CountInv(m)'
      BY <1>1, <1>3, <3>2, QuietCount DEF Through
    <3> QED
      BY <3>1, <3>3
  <2> QED
    BY <2>1, <2>3, <2>4 DEF MsgInv
<1>4. CASE reader' = [reader EXCEPT ![c] = "succeeded"] /\ successes' = [successes EXCEPT ![n] = @ + 1]
  <2>1. successes \in [Letters -> Nat] /\ successes[n] \in Nat /\ successes[n] + 1 \in Nat
    BY <1>2 DEF MsgInv, MessagingTypeOK
  <2>2. /\ \A b \in Readers : reader'[b] = IF b = c THEN "succeeded" ELSE reader[b]
        /\ \A m \in Letters : successes'[m] = IF m = n THEN successes[m] + 1 ELSE successes[m]
        /\ reader' \in [Readers -> {"off", "waiting", "over"} \union Busy]
        /\ successes' \in [Letters -> Nat]
    BY <1>2, <1>4, <2>1 DEF MsgInv, MessagingTypeOK, Busy
  <2>3. MessagingTypeOK'
    BY <1>1, <2>2 DEF MsgInv, MessagingTypeOK
  <2>4. \A m \in Letters : successes[m] \in Nat /\ successes[m] <= successes'[m] /\ successes'[m] \in Nat
    BY <2>2, MsgTypes
  <2>5. ASSUME NEW b \in Readers PROVE ReaderInv(b)'
    <3>1. ReaderInv(b) /\ (hand[b] # NoLetter => hand[b] \in Letters)
      BY MsgTypes
    <3>2. CASE b = c
      BY <1>1, <1>2, <2>1, <2>2, <3>2 DEF ReaderInv, Busy, n
    <3>3. CASE b # c
      BY <1>1, <2>2, <2>4, <3>1, <3>3 DEF ReaderInv, Busy
    <3> QED
      BY <3>2, <3>3
  <2>6. ASSUME NEW m \in Letters PROVE LetterInv(m)' /\ CountInv(m)'
    <3>0. LetterInv(m) /\ CountInv(m) /\ troubles \in Nat
      BY MsgTypes DEF MsgInv
    <3>1. LetterInv(m)'
      BY <1>1, <2>4, <3>0 DEF LetterInv
    <3>2. \A b \in Readers : Held(m, b) => Held(m, b)'
      BY <1>1, <2>2 DEF Held
    <3>3. Through(m) => Through(m)'
      BY <1>1, <3>2 DEF Through
    <3>4. \A b \in Readers : (Slow(m, b)' => Slow(m, b)) /\ ~Slow(m, c)'
      BY <1>1, <2>2 DEF Slow
    <3>5. CASE m # n
      BY <1>1, <2>2, <3>1, <3>3, <3>4, <3>5, QuietCount
    <3>6. CASE m = n /\ channel[c] # "open"
      <4>1. c \in Behind(m) /\ Behind(m)' \subseteq Behind(m) \ {c}
        BY <1>1, <3>4, <3>6 DEF Behind, Slow, n
      <4>2. Behind(m) \in SUBSET Readers /\ Behind(m)' \in SUBSET Readers
        BY DEF Behind
      <4>3. Cardinality(Behind(m)) \in Nat /\ Cardinality(Behind(m)') \in Nat
            /\ Cardinality(Behind(m)') + 1 <= Cardinality(Behind(m))
        BY <4>1, <4>2, FewMore
      <4> HIDE DEF Behind
      <4> QED
        BY <1>1, <2>1, <2>2, <3>0, <3>1, <3>3, <3>6, <4>3 DEF CountInv
    <3>7. CASE m = n /\ channel[c] = "open"
      <4>1. m \in fetched[c] /\ letter[m] = "fetched" /\ m # NoLetter
        BY <1>1, <1>2, <3>0, <3>7, MsgTypes DEF ReaderInv, LetterInv, Busy, n
      <4>2. ASSUME NEW b \in Readers, Held(m, b) PROVE FALSE
        <5>1. m \in fetched[b] /\ reader[b] = "succeeded"
          BY <4>1, <4>2, MsgTypes DEF Held, ReaderInv
        <5>2. b = c
          BY <3>0, <4>1, <5>1 DEF LetterInv
        <5> QED
          BY <1>1, <5>1, <5>2
      <4>3. ~Through(m)
        BY <4>1, <4>2 DEF Through
      <4>4. Through(m)'
        BY <1>1, <2>2, <3>7 DEF Through, Held, n
      <4>5. Behind(m)' \subseteq Behind(m)
        BY <3>4 DEF Behind
      <4>6. Behind(m) \in SUBSET Readers /\ Behind(m)' \in SUBSET Readers
        BY DEF Behind
      <4>7. Cardinality(Behind(m)) \in Nat /\ Cardinality(Behind(m)') \in Nat
            /\ Cardinality(Behind(m)') <= Cardinality(Behind(m))
        BY <4>5, <4>6, FewMore
      <4> HIDE DEF Behind
      <4> QED
        BY <1>1, <2>1, <2>2, <3>0, <3>1, <3>7, <4>3, <4>4, <4>7 DEF CountInv
    <3> QED
      BY <3>1, <3>5, <3>6, <3>7
  <2> QED
    BY <2>3, <2>5, <2>6 DEF MsgInv
<1> QED
  BY <1>1, <1>3, <1>4

\* A message is settled on the channel that delivered it.
LEMMA SettlesInv ==
    ASSUME MsgInv, NEW c \in Readers, NEW where \in {"acked", "ready", "rejected"}, Settles(c, where),
           reader[c] \in {"succeeded", "failed"}, channel[c] = "open", channel' = channel,
           reader[c] = "succeeded" <=> where = "acked",
           where = "rejected" => returns[hand[c]] >= MaxRetries /\ returns' = returns,
           returns' = returns \/ Counted({hand[c]}),
           UNCHANGED <<queueVars, successes, consuming, troubles>>
    PROVE  MsgInv'
<1> DEFINE n == hand[c]
<1>1. /\ letter' = [letter EXCEPT ![n] = where] /\ fetched' = [fetched EXCEPT ![c] = @ \ {n}]
      /\ reader' = [reader EXCEPT ![c] = "waiting"] /\ hand' = [hand EXCEPT ![c] = NoLetter]
      /\ UNCHANGED <<quorum, pooled, bound, successes, consuming, troubles>>
  BY DEF Settles, queueVars
<1>2. n \in Letters /\ n \in fetched[c] /\ ReaderInv(c) /\ n # NoLetter
  BY MsgTypes DEF ReaderInv, Busy
<1>3. returns' \in [Letters -> Nat] /\ \A m \in Letters : returns[m] <= returns'[m]
  <2>1. CASE returns' = returns
    <3>1. \A m \in Letters : returns[m] \in Nat
      BY MsgTypes
    <3> QED
      BY <2>1, <3>1 DEF MsgInv, MessagingTypeOK
  <2>2. CASE Counted({n})
    BY <2>2, CountedUp
  <2> QED
    BY <2>1, <2>2
<1>4. where = "rejected" => returns'[n] >= MaxRetries
  OBVIOUS
<1>5. where = "acked" => successes[n] > 0
  BY <1>2 DEF ReaderInv
<1> HIDE DEF n
<1>6. MessagingTypeOK'
  BY <1>1, <1>2, <1>3 DEF MsgInv, MessagingTypeOK, Busy
<1>7. /\ \A b \in Readers : IF b = c THEN reader'[b] = "waiting" /\ fetched'[b] = fetched[b] \ {n} /\ hand'[b] = NoLetter
                            ELSE reader'[b] = reader[b] /\ fetched'[b] = fetched[b] /\ hand'[b] = hand[b]
      /\ \A m \in Letters : letter'[m] = IF m = n THEN where ELSE letter[m]
  BY <1>1, <1>2 DEF MsgInv, MessagingTypeOK
<1>8. ASSUME NEW b \in Readers PROVE ReaderInv(b)'
  <2>1. ReaderInv(b)
    BY DEF MsgInv
  <2>2. CASE b = c
    BY <1>7, <2>2 DEF ReaderInv, Busy
  <2>3. CASE b # c
    BY <1>1, <1>7, <2>1, <2>3 DEF ReaderInv
  <2> QED
    BY <2>2, <2>3
<1>9. ASSUME NEW m \in Letters PROVE LetterInv(m)' /\ CountInv(m)'
  <2>1. LetterInv(m) /\ returns[m] \in Nat /\ returns'[m] \in Nat /\ returns[m] <= returns'[m] /\ MaxRetries \in Nat
        /\ m # NoLetter
    BY <1>3, MsgTypes, MessagingAssumption DEF MsgInv
  <2>2. LetterInv(m)'
    <3>1. CASE m = n
      <4>1. \A b \in Readers : m \in fetched[b] => b = c
        BY <1>2, <2>1, <3>1 DEF LetterInv
      <4>2. \A b \in Readers : m \notin fetched'[b]
        BY <1>7, <3>1, <4>1
      <4> QED
        BY <1>1, <1>2, <1>4, <1>5, <1>7, <3>1, <4>2 DEF LetterInv
    <3>2. CASE m # n
      <4>1. \A b \in Readers : m \in fetched'[b] <=> m \in fetched[b]
        BY <1>7, <3>2
      <4> QED
        BY <1>1, <1>7, <2>1, <3>2, <4>1 DEF LetterInv
    <3> QED
      BY <3>1, <3>2
  <2>3. \A b \in Readers : Slow(m, b)' => Slow(m, b)
    BY <1>7 DEF Slow
  <2>4. Through(m) => Through(m)'
    <3>1. CASE m = n
      <4>1. ASSUME NEW b \in Readers, Held(m, b) PROVE b = c
        <5>1. m \in fetched[b]
          BY <1>2, <3>1, <4>1, MsgTypes DEF Held, ReaderInv
        <5> QED
          BY <1>2, <2>1, <3>1, <5>1 DEF LetterInv
      <4>2. letter[m] = "fetched"
        BY <1>2, <2>1, <3>1 DEF LetterInv
      <4>3. Through(m) => reader[c] = "succeeded"
        BY <4>1, <4>2 DEF Through, Held
      <4> QED
        BY <1>7, <3>1, <4>3 DEF Through
    <3>2. CASE m # n
      <4>1. \A b \in Readers : Held(m, b) => Held(m, b)'
        BY <1>7, <3>2 DEF Held, n
      <4> QED
        BY <1>7, <3>2, <4>1 DEF Through
    <3> QED
      BY <3>1, <3>2
  <2>5. CountInv(m)'
    BY <1>1, <2>3, <2>4, QuietCount
  <2> QED
    BY <2>2, <2>5
<1> QED
  BY <1>6, <1>8, <1>9 DEF MsgInv

\* On a channel that took the place of another nothing is settled.
LEMMA IgnoresInv ==
    ASSUME MsgInv, NEW c \in Readers, Ignores(c), UNCHANGED <<queueVars, successes, consuming, troubles>>
    PROVE  MsgInv'
<1>1. /\ channel[c] = "replaced"
      /\ reader' = [reader EXCEPT ![c] = "waiting"] /\ hand' = [hand EXCEPT ![c] = NoLetter]
      /\ channel' = [channel EXCEPT ![c] = "open"]
      /\ UNCHANGED <<quorum, pooled, bound, letter, returns, fetched, successes, consuming, troubles>>
  BY DEF Ignores, queueVars
<1>2. MessagingTypeOK'
  BY <1>1 DEF MsgInv, MessagingTypeOK, Busy
<1>3. \A b \in Readers : IF b = c THEN reader'[b] = "waiting" /\ hand'[b] = NoLetter /\ channel'[b] = "open"
                         ELSE reader'[b] = reader[b] /\ hand'[b] = hand[b] /\ channel'[b] = channel[b]
  BY <1>1 DEF MsgInv, MessagingTypeOK
<1>4. ASSUME NEW b \in Readers PROVE ReaderInv(b)'
  <2>1. ReaderInv(b)
    BY DEF MsgInv
  <2>2. CASE b = c
    BY <1>3, <2>2 DEF ReaderInv, Busy
  <2>3. CASE b # c
    BY <1>1, <1>3, <2>1, <2>3 DEF ReaderInv
  <2> QED
    BY <2>2, <2>3
<1>5. ASSUME NEW m \in Letters PROVE LetterInv(m)' /\ CountInv(m)'
  <2>1. LetterInv(m)'
    BY <1>1 DEF MsgInv, LetterInv
  <2>2. \A b \in Readers : (Slow(m, b)' => Slow(m, b)) /\ (Held(m, b) => Held(m, b)')
    BY <1>1, <1>3 DEF Slow, Held
  <2>3. CountInv(m)'
    BY <1>1, <2>2, QuietCount DEF Through
  <2> QED
    BY <2>1, <2>3
<1> QED
  BY <1>2, <1>4, <1>5 DEF MsgInv

LEMMA AckInv == ASSUME MsgInv, NEW c \in Readers, AckMessage(c) PROVE MsgInv'
<1>0. reader[c] = "succeeded" /\ UNCHANGED <<queueVars, successes, consuming, troubles>>
  BY DEF AckMessage
<1>1. CASE channel[c] = "open" /\ Settles(c, "acked") /\ UNCHANGED <<returns, channel>>
  BY <1>0, <1>1, SettlesInv
<1>2. CASE Ignores(c)
  BY <1>0, <1>2, IgnoresInv
<1>3. CASE /\ channel[c] # "open" /\ reader' = [reader EXCEPT ![c] = "failed"]
           /\ UNCHANGED <<letter, returns, fetched, hand, channel>>
  <2>1. MessagingTypeOK'
    BY <1>0, <1>3 DEF MsgInv, MessagingTypeOK, Busy, queueVars
  <2>2. \A b \in Readers : reader'[b] = IF b = c THEN "failed" ELSE reader[b]
    BY <1>3 DEF MsgInv, MessagingTypeOK
  <2>3. ASSUME NEW b \in Readers PROVE ReaderInv(b)'
    <3>1. ReaderInv(b)
      BY DEF MsgInv
    <3> QED
      BY <1>0, <1>3, <2>2, <3>1 DEF ReaderInv, Busy
  <2>4. ASSUME NEW m \in Letters PROVE LetterInv(m)' /\ CountInv(m)'
    <3>1. LetterInv(m)'
      BY <1>0, <1>3 DEF MsgInv, LetterInv
    <3>2. \A b \in Readers : (Slow(m, b)' => Slow(m, b)) /\ (Held(m, b) => Held(m, b)')
      BY <1>3, <2>2 DEF Slow, Held
    <3>3. CountInv(m)'
      BY <1>0, <1>3, <3>2, QuietCount DEF Through
    <3> QED
      BY <3>1, <3>3
  <2> QED
    BY <2>1, <2>3, <2>4 DEF MsgInv
<1> QED
  BY <1>1, <1>2, <1>3 DEF AckMessage

LEMMA NackInv == ASSUME MsgInv, NEW c \in Readers, NackMessage(c) PROVE MsgInv'
<1>0. reader[c] = "failed" /\ UNCHANGED <<queueVars, successes, consuming, troubles>> /\ hand[c] \in Letters
  BY MsgTypes DEF NackMessage, ReaderInv, Busy
<1>1. CASE channel[c] = "open" /\ Settles(c, "ready") /\ Counted({hand[c]}) /\ UNCHANGED channel
  BY <1>0, <1>1, SettlesInv
<1>2. CASE channel[c] = "open" /\ ~ShouldRequeue(hand[c]) /\ Settles(c, "rejected") /\ UNCHANGED <<returns, channel>>
  <2>1. returns[hand[c]] >= MaxRetries
    BY <1>0, <1>2, MsgTypes, MessagingAssumption DEF ShouldRequeue
  <2> QED
    BY <1>0, <1>2, <2>1, SettlesInv
<1>3. CASE Ignores(c)
  BY <1>0, <1>3, IgnoresInv
<1>4. CASE channel[c] # "open" /\ LeaveLoop(c, NoLetter)
  BY <1>0, <1>4, LeaveInv
<1> QED
  BY <1>1, <1>2, <1>3, <1>4 DEF NackMessage

LEMMA LoseInv == ASSUME MsgInv, LoseChannels PROVE MsgInv'
<1>1. PICK cs \in SUBSET Running, ms \in SUBSET {m \in Letters : letter[m] = "stranded"} :
        LET gone == ms \union UNION {fetched[c] : c \in cs} IN
        /\ troubles < MaxTroubles /\ troubles' = troubles + 1
        /\ Back(gone) /\ Counted(gone)
        /\ fetched' = [c \in Readers |-> IF c \in cs THEN {} ELSE fetched[c]]
        /\ channel' = [c \in Readers |-> IF c \in cs /\ reader[c] \in Busy THEN "replaced" ELSE channel[c]]
        /\ UNCHANGED <<queueVars, successes, reader, consuming, hand>>
  BY DEF LoseChannels
<1> DEFINE gone == ms \union UNION {fetched[c] : c \in cs}
<1>2. /\ letter' = [m \in Letters |-> IF m \in gone THEN "ready" ELSE letter[m]] /\ Counted(gone)
      /\ \A m \in Letters : m \in gone <=> m \in ms \/ \E c \in cs : m \in fetched[c]
      /\ UNCHANGED <<quorum, pooled, bound, successes, reader, consuming, hand>>
  BY <1>1 DEF Back, queueVars
<1> HIDE DEF gone
<1>3. returns' \in [Letters -> Nat] /\ \A m \in Letters : returns[m] <= returns'[m]
  BY <1>2, CountedUp
<1>4. MessagingTypeOK'
  <2>1. letter' \in [Letters -> {"unsent", "sending", "unrouted", "refused", "ready", "fetched",
                               "stranded", "acked", "rejected"}]
    BY <1>2 DEF MsgInv, MessagingTypeOK
  <2>2. fetched' \in [Readers -> SUBSET Letters] /\ channel' \in [Readers -> {"open", "replaced", "closed"}]
    BY <1>1 DEF MsgInv, MessagingTypeOK
  <2>3. troubles' \in 0..MaxTroubles
    BY <1>1, MsgTypes
  <2> QED
    BY <1>2, <1>3, <2>1, <2>2, <2>3 DEF MsgInv, MessagingTypeOK
<1>5. \A c \in cs : c \in Readers /\ reader[c] \notin {"off", "over"} /\ channel[c] # "closed"
  BY DEF Running
<1>6. \A c \in Readers : /\ fetched'[c] = IF c \in cs THEN {} ELSE fetched[c]
                         /\ channel'[c] = IF c \in cs /\ reader[c] \in Busy THEN "replaced" ELSE channel[c]
  BY <1>1
<1>7. ASSUME NEW c \in Readers PROVE ReaderInv(c)'
  <2>1. ReaderInv(c)
    BY DEF MsgInv
  <2> QED
    BY <1>2, <1>5, <1>6, <2>1 DEF ReaderInv
<1>8. ASSUME NEW m \in Letters PROVE LetterInv(m)' /\ CountInv(m)'
  <2>1. LetterInv(m) /\ returns[m] \in Nat /\ returns'[m] \in Nat /\ returns[m] <= returns'[m] /\ MaxRetries \in Nat
        /\ m # NoLetter
    BY <1>3, MsgTypes, MessagingAssumption DEF MsgInv
  <2>2. m \in ms => letter[m] = "stranded"
    OBVIOUS
  <2>3. letter'[m] = IF m \in ms \/ \E c \in cs : m \in fetched[c] THEN "ready" ELSE letter[m]
    BY <1>2
  <2>4. LetterInv(m)'
    <3>1. CASE m \in ms \/ \E c \in cs : m \in fetched[c]
      <4>1. \A b \in Readers : m \notin fetched'[b]
        BY <1>5, <1>6, <2>1, <2>2, <3>1 DEF LetterInv
      <4> QED
        BY <2>3, <3>1, <4>1 DEF LetterInv
    <3>2. CASE ~(m \in ms \/ \E c \in cs : m \in fetched[c])
      <4>1. \A b \in Readers : m \in fetched'[b] <=> m \in fetched[b]
        BY <1>6, <3>2
      <4> QED
        BY <1>2, <2>1, <2>3, <3>2, <4>1 DEF LetterInv
    <3> QED
      BY <3>1, <3>2
  <2>5. letter[m] \in {"acked", "rejected"} => letter'[m] = letter[m]
    BY <1>5, <2>1, <2>2, <2>3 DEF LetterInv
  <2>6. \A c \in Readers : hand'[c] = hand[c]
          /\ (Slow(m, c)' => Slow(m, c) \/ (channel[c] = "open" /\ reader[c] = "handling" /\ hand[c] = m))
    BY <1>2, <1>6 DEF Slow
  <2>7. CountInv(m)'
    BY <1>1, <1>2, <2>5, <2>6, TroubleCount
  <2> QED
    BY <2>4, <2>7
<1> QED
  BY <1>4, <1>7, <1>8 DEF MsgInv

LEMMA CloseInv == ASSUME MsgInv, ClosePools PROVE MsgInv'
<1> DEFINE gone == {m \in Letters : letter[m] \in {"fetched", "stranded"}}
<1>1. /\ troubles < MaxTroubles /\ troubles' = troubles + 1 /\ pooled' = FALSE
      /\ letter' = [m \in Letters |-> IF m \in gone THEN "ready" ELSE IF letter[m] = "sending" THEN "refused" ELSE letter[m]]
      /\ Counted(gone)
      /\ fetched' = [c \in Readers |-> {}]
      /\ reader' = [c \in Readers |-> IF reader[c] = "waiting" THEN "over" ELSE reader[c]]
      /\ channel' = [c \in Readers |-> IF reader[c] \in Busy THEN "closed" ELSE "open"]
      /\ UNCHANGED <<quorum, bound, successes, consuming, hand>>
  BY DEF ClosePools
<1>2. \A m \in Letters : m \in gone <=> letter[m] \in {"fetched", "stranded"}
  OBVIOUS
<1> HIDE DEF gone
<1>3. returns' \in [Letters -> Nat] /\ \A m \in Letters : returns[m] <= returns'[m]
  BY <1>1, CountedUp
<1>4. MessagingTypeOK'
  <2>1. letter' \in [Letters -> {"unsent", "sending", "unrouted", "refused", "ready", "fetched",
                               "stranded", "acked", "rejected"}]
    BY <1>1 DEF MsgInv, MessagingTypeOK
  <2>2. fetched' \in [Readers -> SUBSET Letters] /\ channel' \in [Readers -> {"open", "replaced", "closed"}]
        /\ reader' \in [Readers -> {"off", "waiting", "over"} \union Busy]
    BY <1>1 DEF MsgInv, MessagingTypeOK
  <2>3. troubles' \in 0..MaxTroubles
    BY <1>1, MsgTypes
  <2> QED
    BY <1>1, <1>3, <2>1, <2>2, <2>3 DEF MsgInv, MessagingTypeOK
<1>5. ASSUME NEW c \in Readers PROVE ReaderInv(c)'
  <2>1. ReaderInv(c)
    BY DEF MsgInv
  <2> QED
    BY <1>1, <2>1 DEF ReaderInv, Busy
<1>6. ASSUME NEW m \in Letters PROVE LetterInv(m)' /\ CountInv(m)'
  <2>1. LetterInv(m) /\ returns[m] \in Nat /\ returns'[m] \in Nat /\ returns[m] <= returns'[m] /\ MaxRetries \in Nat
    BY <1>3, MsgTypes, MessagingAssumption DEF MsgInv
  <2>2. letter'[m] = IF letter[m] \in {"fetched", "stranded"} THEN "ready"
                     ELSE IF letter[m] = "sending" THEN "refused" ELSE letter[m]
    BY <1>1, <1>2
  <2>3. LetterInv(m)'
    BY <1>1, <2>1, <2>2 DEF LetterInv
  <2>4. \A c \in Readers : hand'[c] = hand[c]
          /\ (Slow(m, c)' => Slow(m, c) \/ (channel[c] = "open" /\ reader[c] = "handling" /\ hand[c] = m))
    BY <1>1 DEF Slow
  <2>5. CountInv(m)'
    BY <1>1, <2>2, <2>4, TroubleCount
  <2> QED
    BY <2>3, <2>5
<1> QED
  BY <1>4, <1>5, <1>6 DEF MsgInv

LEMMA MsgNextInv == MsgInv /\ [MessagingNext]_messagingVars => MsgInv'
<1> SUFFICES ASSUME MsgInv, [MessagingNext]_messagingVars PROVE MsgInv'
  OBVIOUS
<1>1. CASE UNCHANGED messagingVars
  <2>1. MessagingTypeOK' /\ \A c \in Readers : ReaderInv(c)'
    BY <1>1 DEF messagingVars, MsgInv, MessagingTypeOK, ReaderInv
  <2>2. ASSUME NEW m \in Letters PROVE LetterInv(m)' /\ CountInv(m)'
    <3>1. LetterInv(m)'
      BY <1>1 DEF messagingVars, MsgInv, LetterInv
    <3>2. CountInv(m)'
      BY <1>1, QuietCount DEF messagingVars, Slow, Through, Held
    <3> QED
      BY <3>1, <3>2
  <2> QED
    BY <2>1, <2>2 DEF MsgInv
<1>2. CASE MessagingNext
  BY <1>2, PublishInv, StartInv, PrefetchedInv, TakeInv, ProcessInv, AckInv, NackInv, LoseInv, CloseInv
     DEF MessagingNext, Reading
<1> QED
  BY <1>1, <1>2

LEMMA MsgPromises == MsgInv => MessagingTypeOK /\ LettersAreKept /\ HandledAgainAfterTrouble
<1> SUFFICES ASSUME MsgInv PROVE LettersAreKept /\ HandledAgainAfterTrouble
  BY DEF MsgInv
<1>1. ASSUME NEW m \in Letters
      PROVE  /\ letter[m] = "acked" => successes[m] > 0
             /\ letter[m] = "rejected" => returns[m] >= MaxRetries
             /\ letter[m] = "fetched" <=> \E c \in Running : m \in fetched[c]
             /\ successes[m] <= 1 + troubles
  <2>1. LetterInv(m) /\ CountInv(m) /\ successes[m] \in Nat /\ troubles \in Nat
    BY MsgTypes DEF MsgInv
  <2>2. Behind(m) \in SUBSET Readers
    BY DEF Behind
  <2>3. Cardinality(Behind(m)) \in Nat
    BY <2>2, FewMore
  <2>4. \A c \in Readers : m \in fetched[c] => c \in Running
    BY MsgTypes DEF ReaderInv, Running
  <2>5. Running \subseteq Readers
    BY DEF Running
  <2> QED
    BY <2>1, <2>3, <2>4, <2>5 DEF LetterInv, CountInv
<1>2. ASSUME NEW b \in Readers, NEW c \in Readers, b # c, hand[b] # NoLetter, channel[b] = "open", channel[c] = "open"
      PROVE  hand[b] # hand[c]
  BY <1>2, MsgTypes DEF MsgInv, ReaderInv, LetterInv
<1> QED
  BY <1>1, <1>2 DEF LettersAreKept, HandledAgainAfterTrouble

---------------------------------------------------------------------------
(* The audit service: the log and the exports.                           *)

QueueInv ==
    /\ message \in [Events -> {"new", "ready", "parsed", "put", "acked"}]
    /\ late \subseteq Events
    /\ buffer \in Seq(Events)
    /\ batch \in Seq(Events) /\ Len(batch) <= BatchSize
    /\ logRows \in [Events -> Nat]

\* Where an event is once its message is as good as acknowledged.
IsKept(e) ==
    \/ e \in ToSet(buffer) \union ToSet(batch)
    \/ logRows[e] > 0
    \/ e \in refused \union forsaken

\* An event is kept before its message is acknowledged, and the flusher has
\* nothing in its hands when it closes the connection.
HandsInv ==
    /\ \A e \in Events : message[e] \in {"put", "acked"} => IsKept(e)
    /\ flusher \in {"flushed", "ended"} => batch = <<>>

ExportStatus == {"none", "pending", "running", "stuck", "completed", "failed"}
SomeRows == Events \X Int
ExportJob == [status : ExportStatus, asked : SUBSET SomeRows, cursor : SUBSET SomeRows, file : SUBSET SomeRows]

\* What an export has before it all came in is still in its stream.
ExportInv ==
    /\ export \in ExportJob
    /\ export.status = "pending" => export.asked \subseteq Rows
    /\ export.status = "running" => export.asked \subseteq export.cursor \union export.file
    /\ ExportIsWhole

LogInv == QueueInv /\ HandsInv /\ ExportInv

---------------------------------------------------------------------------
(* Sequences as sets of their elements. *)

LEMMA AppendedIsIn ==
    ASSUME NEW s \in Seq(Events), NEW e \in Events
    PROVE  Append(s, e) \in Seq(Events) /\ ToSet(Append(s, e)) = ToSet(s) \union {e}
<1> DEFINE t == Append(s, e)
<1>1. /\ t \in Seq(Events) /\ Len(t) = Len(s) + 1 /\ t[Len(s) + 1] = e
      /\ \A i \in 1..Len(s) : t[i] = s[i]
      OBVIOUS
<1> HIDE DEF t
<1>2. DOMAIN s = 1..Len(s) /\ DOMAIN t = 1..(Len(s) + 1) /\ Len(s) \in Nat
      BY <1>1, LenProperties
<1>3. \A i \in DOMAIN t : i \in DOMAIN s \/ i = Len(s) + 1
      BY <1>2
<1>4. ToSet(t) \subseteq ToSet(s) \union {e}
      BY <1>1, <1>2, <1>3 DEF ToSet
<1>5. \A i \in DOMAIN s : i \in DOMAIN t /\ t[i] = s[i]
      BY <1>1, <1>2
<1>6. ToSet(s) \union {e} \subseteq ToSet(t)
      BY <1>1, <1>2, <1>5 DEF ToSet
<1>7. t \in Seq(Events) /\ ToSet(t) = ToSet(s) \union {e}
      BY <1>1, <1>4, <1>6
<1> QED BY <1>7 DEF t

LEMMA NothingIsIn == ToSet(<<>>) = {}
  BY DEF ToSet

\* Items taken from the head of one sequence to the end of another stay in one
\* of the two.
LEMMA MovedIsIn ==
    ASSUME NEW s \in Seq(Events), NEW t \in Seq(Events), NEW n \in 0..Len(t)
    PROVE  LET moved == s \o SubSeq(t, 1, n)
               rest  == SubSeq(t, n + 1, Len(t))
           IN /\ moved \in Seq(Events) /\ rest \in Seq(Events)
              /\ Len(moved) = Len(s) + n
              /\ ToSet(s) \union ToSet(t) \subseteq ToSet(moved) \union ToSet(rest)
<1> DEFINE head  == SubSeq(t, 1, n)
           moved == s \o head
           rest  == SubSeq(t, n + 1, Len(t))
<1>1. Len(t) \in Nat /\ n \in Nat /\ n <= Len(t) /\ \A i \in 1..Len(t) : t[i] \in Events
      BY LenProperties, ElementOfSeq
<1>2. head \in Seq(Events) /\ Len(head) = n /\ \A i \in 1..n : head[i] = t[i]
      BY <1>1
<1>3. rest \in Seq(Events) /\ Len(rest) = Len(t) - n
      /\ \A i \in 1..(Len(t) - n) : rest[i] = t[n + i]
      BY <1>1
<1>4. /\ moved \in Seq(Events) /\ Len(moved) = Len(s) + n
      /\ \A i \in 1..Len(s) : moved[i] = s[i]
      /\ \A i \in 1..n : moved[Len(s) + i] = t[i]
      <2> HIDE DEF head
      <2>1. /\ moved \in Seq(Events) /\ Len(moved) = Len(s) + Len(head)
            /\ \A i \in 1..(Len(s) + Len(head)) :
                  moved[i] = IF i <= Len(s) THEN s[i] ELSE head[i - Len(s)]
            BY <1>2, ConcatProperties
      <2>2. Len(s) \in Nat
            BY LenProperties
      <2> QED BY <1>1, <1>2, <2>1, <2>2
<1> HIDE DEF head, moved, rest
<1>5. /\ DOMAIN s = 1..Len(s) /\ DOMAIN t = 1..Len(t) /\ Len(s) \in Nat
      /\ DOMAIN moved = 1..(Len(s) + n) /\ DOMAIN rest = 1..(Len(t) - n)
      BY <1>3, <1>4, LenProperties
<1>6. ASSUME NEW i \in DOMAIN s PROVE s[i] \in ToSet(moved)
      BY <1>1, <1>4, <1>5 DEF ToSet
<1>7. ASSUME NEW i \in DOMAIN t PROVE t[i] \in ToSet(moved) \union ToSet(rest)
      <2>1. CASE i <= n
            <3>1. i \in 1..n /\ Len(s) + i \in 1..(Len(s) + n)
                  BY <1>1, <1>5, <2>1
            <3> QED BY <1>4, <1>5, <3>1 DEF ToSet
      <2>2. CASE i > n
            <3>1. i - n \in 1..(Len(t) - n) /\ n + (i - n) = i
                  BY <1>1, <1>5, <2>2
            <3> QED BY <1>3, <1>5, <3>1 DEF ToSet
      <2> QED BY <1>1, <1>5, <2>1, <2>2
<1>8. ToSet(s) \union ToSet(t) \subseteq ToSet(moved) \union ToSet(rest)
      BY <1>6, <1>7 DEF ToSet
<1> QED BY <1>3, <1>4, <1>8 DEF moved, head, rest

\* A batch holds every event a number of times, which is not 0 for one it has.
LEMMA CountIsSound ==
    ASSUME NEW s \in Seq(Events), NEW e \in Events
    PROVE  LET n == Cardinality({i \in DOMAIN s : s[i] = e})
           IN  n \in Nat /\ (e \in ToSet(s) => n > 0)
<1> DEFINE at == {i \in DOMAIN s : s[i] = e}
<1>1. DOMAIN s = 1..Len(s) /\ Len(s) \in Nat
      BY LenProperties
<1>2. IsFiniteSet(1..Len(s)) /\ at \in SUBSET (1..Len(s))
      BY <1>1, FS_Interval
<1>3. IsFiniteSet(at) /\ Cardinality(at) \in Nat
      BY <1>2, FS_Subset, FS_CardinalityType
<1>4. e \in ToSet(s) => at # {}
      BY DEF ToSet
<1>5. at # {} => Cardinality(at) # 0
      <2> HIDE DEF at
      <2> QED BY <1>3, FS_EmptySet
<1> QED BY <1>3, <1>4, <1>5

---------------------------------------------------------------------------
(* The steps. *)

LEMMA LogInit == AuditInit => LogInv
  BY AuditAssumption, NothingIsIn, EmptySeq
     DEF AuditInit, LogInv, QueueInv, HandsInv, ExportInv, ExportIsWhole, NoExport,
         ExportJob, ExportStatus

\* A step that adds to no log leaves the export as it is.
LEMMA ExportStays ==
    ASSUME LogInv, UNCHANGED <<export, logRows>>
    PROVE  ExportInv'
  BY DEF LogInv, ExportInv, ExportIsWhole, Rows

LEMMA ConsumeLog ==
    ASSUME LogInv, NEW e \in Events, Emit(e) \/ Deliver(e) \/ Put(e) \/ Ack(e)
    PROVE  LogInv'
<1>1. UNCHANGED <<batch, flusher, logRows, forsaken, export>> /\ ExportInv'
      BY ExportStays DEF Emit, Deliver, Put, Ack
<1>2. CASE Emit(e) \/ Deliver(e) \/ Ack(e)
      <2>1. /\ UNCHANGED <<late, buffer>> /\ refused \subseteq refused'
            /\ \E m \in {"ready", "parsed", "acked"} :
                  /\ message' = [message EXCEPT ![e] = m]
                  /\ m = "acked" => IsKept(e) \/ e \in refused'
            BY <1>2 DEF Emit, Deliver, Ack, LogInv, HandsInv
      <2>2. QueueInv'
            BY <1>1, <2>1 DEF LogInv, QueueInv
      <2>3. HandsInv'
            BY <1>1, <2>1 DEF LogInv, QueueInv, HandsInv, IsKept
      <2> QED BY <1>1, <2>2, <2>3 DEF LogInv
<1>3. CASE Put(e)
      <2>1. buffer' \in Seq(Events) /\ ToSet(buffer') = ToSet(buffer) \union {e}
            BY <1>3, AppendedIsIn DEF Put, LogInv, QueueInv
      <2>2. QueueInv'
            BY <1>1, <1>3, <2>1 DEF Put, LogInv, QueueInv
      <2>3. \A f \in Events \ {e} : message'[f] = message[f]
            BY <1>3 DEF Put, LogInv, QueueInv
      <2>4. HandsInv'
            BY <1>1, <1>3, <2>1, <2>3 DEF Put, LogInv, HandsInv, IsKept
      <2> QED BY <1>1, <2>2, <2>4 DEF LogInv
<1> QED BY <1>2, <1>3

\* What is delivered again is not as good as acknowledged any more.
LEMMA RedeliveredIsOpen ==
    ASSUME LogInv
    PROVE  /\ Redelivered \in [Events -> {"new", "ready", "parsed", "put", "acked"}]
           /\ \A e \in Events : Redelivered[e] \in {"put", "acked"} => IsKept(e)
  BY DEF LogInv, QueueInv, HandsInv, Redelivered, Unsettled

LEMMA LossLog ==
    ASSUME LogInv, LoseConnection \/ Close \/ Kill
    PROVE  LogInv'
<1>1. UNCHANGED <<logRows, refused, export>> /\ ExportInv' /\ message' = Redelivered
      BY ExportStays DEF LoseConnection, Close, Kill
<1>2. CASE LoseConnection
      <2>1. QueueInv'
            BY <1>1, <1>2, RedeliveredIsOpen DEF LoseConnection, LogInv, QueueInv
      <2>2. HandsInv'
            BY <1>1, <1>2, RedeliveredIsOpen DEF LoseConnection, LogInv, HandsInv, IsKept
      <2> QED BY <1>1, <2>1, <2>2 DEF LogInv
<1>3. CASE Close \/ Kill
      <2>1. /\ late' = {} /\ buffer' = <<>> /\ batch' = <<>>
            /\ forsaken \union ToSet(buffer) \union ToSet(batch) \subseteq forsaken'
            BY <1>3, NothingIsIn DEF Close, Kill, LogInv, HandsInv
      <2>2. QueueInv'
            BY <1>1, <2>1, RedeliveredIsOpen, EmptySeq, AuditAssumption DEF LogInv, QueueInv
      <2>3. HandsInv'
            BY <1>1, <2>1, RedeliveredIsOpen DEF HandsInv, IsKept
      <2> QED BY <1>1, <2>2, <2>3 DEF LogInv
<1> QED BY <1>2, <1>3 DEF LoseConnection

LEMMA RoundLog == ASSUME LogInv, Round PROVE LogInv'
<1>1. UNCHANGED <<message, late, logRows, refused, forsaken, export>> /\ ExportInv'
      BY ExportStays DEF Round
<1>2. Taken \in 0..Len(buffer) /\ Len(batch) + Taken <= BatchSize
      <2>1. Len(buffer) \in Nat /\ Len(batch) \in Nat /\ BatchSize \in Nat /\ Len(batch) <= BatchSize
            BY AuditAssumption, LenProperties DEF LogInv, QueueInv
      <2> QED BY <2>1 DEF Taken
<1>3. /\ batch' \in Seq(Events) /\ buffer' \in Seq(Events) /\ Len(batch') = Len(batch) + Taken
      /\ ToSet(batch) \union ToSet(buffer) \subseteq ToSet(batch') \union ToSet(buffer')
      BY <1>2, MovedIsIn DEF Round, LogInv, QueueInv
<1>4. QueueInv'
      BY <1>1, <1>2, <1>3 DEF LogInv, QueueInv
<1>5. flusher' \in {"flush", "round"}
      BY DEF Round
<1>6. HandsInv'
      BY <1>1, <1>3, <1>5 DEF LogInv, HandsInv, IsKept
<1> QED BY <1>1, <1>4, <1>6 DEF LogInv

LEMMA FlushLog == ASSUME LogInv, Flush PROVE LogInv'
<1>1. /\ UNCHANGED <<message, late, buffer, forsaken, export>>
      /\ batch' = <<>> /\ refused \subseteq refused'
      BY DEF Flush
<1>2. /\ logRows' \in [Events -> Nat]
      /\ \A e \in Events : logRows[e] <= logRows'[e]
      /\ \A e \in ToSet(batch) : e \in Events => logRows'[e] > 0 \/ e \in refused'
      <2>1. CASE UNCHANGED logRows /\ refused' = refused \union ToSet(batch)
            BY <2>1 DEF LogInv, QueueInv
      <2>2. CASE logRows' = Inserted(batch)
            <3>1. batch \in Seq(Events) /\ logRows \in [Events -> Nat]
                  BY DEF LogInv, QueueInv
            <3>2. ASSUME NEW e \in Events
                  PROVE  /\ logRows'[e] \in Nat /\ logRows[e] <= logRows'[e]
                         /\ e \in ToSet(batch) => logRows'[e] > 0
                  <4> DEFINE n == Cardinality({i \in DOMAIN batch : batch[i] = e})
                  <4>1. n \in Nat /\ (e \in ToSet(batch) => n > 0)
                        BY <3>1, CountIsSound
                  <4>2. logRows'[e] = logRows[e] + n
                        BY <2>2 DEF Inserted
                  <4> HIDE DEF n
                  <4> QED BY <3>1, <4>1, <4>2
            <3> QED BY <2>2, <3>2 DEF Inserted
      <2> QED BY <2>1, <2>2 DEF Flush
<1>3. QueueInv'
      BY <1>1, <1>2, AuditAssumption, EmptySeq DEF LogInv, QueueInv
<1>4. HandsInv'
      <2>1. ASSUME NEW e \in Events, IsKept(e) PROVE IsKept(e)'
            BY <1>1, <1>2, <2>1 DEF IsKept, LogInv, QueueInv
      <2> QED BY <1>1, <2>1 DEF LogInv, HandsInv
<1>5. ExportInv'
      <2>1. Rows \subseteq Rows'
            BY <1>2, AuditAssumption DEF Rows, LogInv, QueueInv
      <2> QED BY <1>1, <2>1 DEF LogInv, ExportInv, ExportIsWhole
<1> QED BY <1>3, <1>4, <1>5 DEF LogInv

LEMMA QuietLog == ASSUME LogInv, Elapse \/ Signal \/ Start \/ Leave PROVE LogInv'
<1>1. /\ UNCHANGED <<message, late, buffer, batch, logRows, refused, forsaken, export>>
      /\ flusher' \in {"flushed", "ended"} => flusher \in {"flushed", "ended"}
      BY DEF Elapse, Signal, Start, Leave
<1>2. QueueInv'
      BY <1>1 DEF LogInv, QueueInv
<1>3. HandsInv'
      BY <1>1 DEF LogInv, HandsInv, IsKept
<1> QED BY <1>1, <1>2, <1>3, ExportStays DEF LogInv

LEMMA ExportLog == ASSUME LogInv, Ask \/ Run \/ Write \/ EndExport PROVE LogInv'
<1>1. QueueInv' /\ HandsInv' /\ Rows' = Rows /\ Rows \in SUBSET SomeRows
      <2>1. UNCHANGED <<message, late, buffer, batch, flusher, logRows, refused, forsaken>>
            BY DEF Ask, Run, Write, EndExport, ExportUnchanged
      <2>2. QueueInv' /\ HandsInv'
            BY <2>1 DEF LogInv, QueueInv, HandsInv, IsKept
      <2>3. Rows' = Rows
            BY <2>1 DEF Rows
      <2>4. 1..MaxLosses + 1 \subseteq Int
            BY AuditAssumption
      <2>5. Rows \subseteq Events \X Int
            BY <2>4 DEF Rows
      <2> QED BY <2>2, <2>3, <2>5 DEF SomeRows
<1>2. CASE Ask
      BY <1>1, <1>2 DEF Ask, LogInv, ExportInv, ExportIsWhole, ExportJob, ExportStatus
<1>3. CASE Run
      BY <1>1, <1>3 DEF Run, LogInv, ExportInv, ExportIsWhole, ExportJob, ExportStatus
<1>4. CASE Write
      <2>1. PICK part \in SUBSET export.cursor :
                export' = [export EXCEPT !.cursor = @ \ part, !.file = @ \union part]
            BY <1>4 DEF Write
      <2>2. export \in ExportJob /\ export.status = "running"
            BY <1>4 DEF Write, LogInv, ExportInv
      <2>3. /\ export' \in ExportJob /\ export'.status = "running" /\ export'.asked = export.asked
            /\ export'.cursor = export.cursor \ part /\ export'.file = export.file \union part
            BY <2>1, <2>2 DEF ExportJob
      <2> QED BY <1>1, <2>2, <2>3 DEF LogInv, ExportInv, ExportIsWhole
<1>5. CASE EndExport
      BY <1>1, <1>5 DEF EndExport, LogInv, ExportInv, ExportIsWhole, ExportJob, ExportStatus
<1> QED BY <1>1, <1>2, <1>3, <1>4, <1>5 DEF LogInv

LEMMA LogNext == LogInv /\ [AuditNext]_auditVars => LogInv'
<1> SUFFICES ASSUME LogInv, [AuditNext]_auditVars PROVE LogInv'
    OBVIOUS
<1>1. CASE UNCHANGED auditVars
      BY <1>1 DEF auditVars, LogInv, QueueInv, HandsInv, IsKept, ExportInv, ExportIsWhole, Rows
<1>2. CASE AuditNext
      BY <1>2, ConsumeLog, LossLog, RoundLog, FlushLog, QuietLog, ExportLog
         DEF AuditNext, Consume, Flushing, Exporting
<1> QED BY <1>1, <1>2


---------------------------------------------------------------------------
(* The audit service: how often an event may be stored.                  *)

FlusherStates == {"round", "flush", "last", "flushed", "ended"}

\* How often an event is in a sequence, and the copies of it there are: what is
\* stored, queued or taken, and what a delivery, a late handler or the end of
\* the process may still add.
Occurrences(s, e) == Cardinality({i \in DOMAIN s : s[i] = e})
Late(e) == IF e \in late THEN 1 ELSE 0
Open(e) == IF message[e] \in {"new", "ready", "parsed"} THEN 1 ELSE 0
Stopping == IF ~running /\ flusher # "ended" THEN 1 ELSE 0
Copies(e) == logRows[e] + Occurrences(buffer, e) + Occurrences(batch, e) + Late(e) + Open(e) + Stopping

FlusherInv ==
    /\ Len(buffer) <= QueueSize
    /\ flusher \in FlusherStates /\ due \in BOOLEAN /\ running \in BOOLEAN
    /\ flusher \in {"last", "flushed"} => ~running
    /\ refused \subseteq Events /\ forsaken \subseteq Events
    /\ losses \in 0..MaxLosses

CopiesInv == \A e \in Events : Copies(e) <= 1 + losses

LEMMA OccurrencesCount ==
    ASSUME NEW s \in Seq(Events), NEW e
    PROVE  /\ IsFiniteSet({i \in DOMAIN s : s[i] = e})
           /\ Occurrences(s, e) \in Nat
<1> DEFINE at == {i \in DOMAIN s : s[i] = e}
<1>1. DOMAIN s = 1..Len(s) /\ Len(s) \in Nat
      BY LenProperties
<1>2. IsFiniteSet(1..Len(s)) /\ at \in SUBSET (1..Len(s))
      BY <1>1, FS_Interval
<1>3. IsFiniteSet(at) /\ Cardinality(at) \in Nat
      BY <1>2, FS_Subset, FS_CardinalityType
<1> QED BY <1>3 DEF Occurrences

LEMMA NoOccurrences == ASSUME NEW e PROVE Occurrences(<<>>, e) = 0
<1>1. {i \in DOMAIN <<>> : <<>>[i] = e} = {}
      OBVIOUS
<1> QED BY <1>1, FS_EmptySet DEF Occurrences

LEMMA ConcatOccurrences ==
    ASSUME NEW s \in Seq(Events), NEW t \in Seq(Events), NEW e
    PROVE  Occurrences(s \o t, e) = Occurrences(s, e) + Occurrences(t, e)
<1> DEFINE u == s \o t
           here == {i \in DOMAIN s : s[i] = e}
           there == {i \in DOMAIN t : t[i] = e}
           f == [i \in there |-> Len(s) + i]
           moved == {Len(s) + i : i \in there}
           all == {i \in DOMAIN u : u[i] = e}
<1>1. /\ DOMAIN s = 1..Len(s) /\ Len(s) \in Nat /\ DOMAIN t = 1..Len(t) /\ Len(t) \in Nat
      /\ u \in Seq(Events) /\ Len(u) = Len(s) + Len(t) /\ DOMAIN u = 1..(Len(s) + Len(t))
      /\ \A i \in 1..Len(s) : u[i] = s[i]
      /\ \A i \in 1..Len(t) : u[Len(s) + i] = t[i]
      <2>1. /\ u \in Seq(Events) /\ Len(u) = Len(s) + Len(t)
            /\ \A i \in 1..(Len(s) + Len(t)) : u[i] = IF i <= Len(s) THEN s[i] ELSE t[i - Len(s)]
            BY ConcatProperties
      <2>2. /\ DOMAIN s = 1..Len(s) /\ Len(s) \in Nat /\ DOMAIN t = 1..Len(t) /\ Len(t) \in Nat
            BY LenProperties
      <2> HIDE DEF u
      <2>3. DOMAIN u = 1..Len(u)
            BY <2>1, LenProperties
      <2>4. \A i \in 1..Len(s) : u[i] = s[i]
            BY <2>1, <2>2
      <2>5. ASSUME NEW i \in 1..Len(t) PROVE u[Len(s) + i] = t[i]
            <3>1. /\ Len(s) + i \in 1..(Len(s) + Len(t))
                  /\ ~(Len(s) + i <= Len(s)) /\ (Len(s) + i) - Len(s) = i
                  BY <2>2
            <3> QED BY <2>1, <3>1
      <2> QED BY <2>1, <2>2, <2>3, <2>4, <2>5
<1>2. IsFiniteSet(here) /\ IsFiniteSet(there) /\ Cardinality(here) \in Nat /\ Cardinality(there) \in Nat
      BY OccurrencesCount, FS_CardinalityType
<1>3. IsFiniteSet(moved) /\ Cardinality(moved) = Cardinality(there)
      <2>1. \A i \in there : i \in Nat
            BY <1>1
      <2>2. f \in [there -> moved] /\ \A i \in there : f[i] = Len(s) + i
            OBVIOUS
      <2>3. \A i, j \in there : f[i] = f[j] => i = j
            BY <1>1, <2>1, <2>2
      <2>4. \A j \in moved : \E i \in there : f[i] = j
            OBVIOUS
      <2> HIDE DEF there, moved, f
      <2>5. f \in Bijection(there, moved)
            BY <2>2, <2>3, <2>4 DEF Bijection, Injection, Surjection, IsInjective
      <2>6. ExistsBijection(there, moved)
            BY <2>5 DEF ExistsBijection
      <2> QED BY <1>2, <2>6, FS_Bijection
<1> HIDE DEF u
<1>4. all \subseteq here \union moved
      <2> SUFFICES ASSUME NEW i \in DOMAIN u, u[i] = e, i \notin here PROVE i \in moved
          OBVIOUS
      <2>1. i > Len(s)
            BY <1>1
      <2>2. i - Len(s) \in 1..Len(t) /\ i = Len(s) + (i - Len(s))
            BY <1>1, <2>1
      <2>3. i - Len(s) \in there
            BY <1>1, <2>2
      <2> QED BY <2>2, <2>3
<1>5. here \subseteq all
      BY <1>1
<1>6. moved \subseteq all
      <2> SUFFICES ASSUME NEW i \in there PROVE Len(s) + i \in all
          OBVIOUS
      <2>1. i \in 1..Len(t) /\ t[i] = e
            BY <1>1
      <2>2. Len(s) + i \in DOMAIN u /\ u[Len(s) + i] = e
            BY <1>1, <2>1
      <2> QED BY <2>2
<1>7. here \intersect moved = {}
      <2> SUFFICES ASSUME NEW i \in there, Len(s) + i \in here PROVE FALSE
          OBVIOUS
      <2> QED BY <1>1
<1> HIDE DEF here, there, moved, all
<1>8. all = here \union moved
      BY <1>4, <1>5, <1>6
<1>9. Cardinality(all) = Cardinality(here) + Cardinality(moved) - 0
      BY <1>2, <1>3, <1>7, <1>8, FS_Union, FS_EmptySet
<1>10. Cardinality(all) = Cardinality(here) + Cardinality(there)
      BY <1>2, <1>3, <1>9
<1> QED BY <1>10 DEF Occurrences, all, here, there, u

LEMMA AppendOccurrences ==
    ASSUME NEW s \in Seq(Events), NEW f \in Events, NEW e
    PROVE  Occurrences(Append(s, f), e) = Occurrences(s, e) + (IF f = e THEN 1 ELSE 0)
<1> DEFINE one == <<f>>
<1>1. one \in Seq(Events) /\ Append(s, f) = s \o one
      BY AppendIsConcat
<1>2. DOMAIN one = {1} /\ one[1] = f
      OBVIOUS
<1>3. {i \in DOMAIN one : one[i] = e} = IF f = e THEN {1} ELSE {}
      BY <1>2
<1>4. Occurrences(one, e) = IF f = e THEN 1 ELSE 0
      BY <1>3, FS_Singleton, FS_EmptySet DEF Occurrences
<1> HIDE DEF one
<1> QED BY <1>1, <1>4, ConcatOccurrences

LEMMA MovedOccurrences ==
    ASSUME NEW s \in Seq(Events), NEW t \in Seq(Events), NEW n \in 0..Len(t), NEW e
    PROVE  Occurrences(s \o SubSeq(t, 1, n), e) + Occurrences(SubSeq(t, n + 1, Len(t)), e)
               = Occurrences(s, e) + Occurrences(t, e)
<1> DEFINE head == SubSeq(t, 1, n)
           rest == SubSeq(t, n + 1, Len(t))
<1>1. Len(t) \in Nat /\ n \in Nat /\ n <= Len(t)
      BY LenProperties
<1>2. head \in Seq(Events) /\ rest \in Seq(Events)
      BY <1>1
<1>3. head \o rest = t
      <2>1. 1 \in 1..Len(t)+1 /\ n \in 1-1..Len(t) /\ Len(t) \in n..Len(t)
            BY <1>1
      <2>2. head \o rest = SubSeq(t, 1, Len(t))
            BY <2>1, ConcatAdjacentSubSeq
      <2> QED BY <2>2, SubSeqFull
<1> HIDE DEF head, rest
<1>4. /\ Occurrences(s \o head, e) = Occurrences(s, e) + Occurrences(head, e)
      /\ Occurrences(head \o rest, e) = Occurrences(head, e) + Occurrences(rest, e)
      BY <1>2, ConcatOccurrences
<1>5. Occurrences(s, e) \in Nat /\ Occurrences(head, e) \in Nat /\ Occurrences(rest, e) \in Nat
      BY <1>2, OccurrencesCount
<1>6. Occurrences(s \o head, e) + Occurrences(rest, e) = Occurrences(s, e) + Occurrences(t, e)
      BY <1>3, <1>4, <1>5
<1> QED BY <1>6 DEF head, rest

---------------------------------------------------------------------------
TallyInv == QueueInv /\ FlusherInv /\ CopiesInv

\* The parts of the count are numbers.
LEMMA TallyTypes ==
    ASSUME QueueInv, NEW e \in Events
    PROVE  /\ Occurrences(buffer, e) \in Nat /\ Occurrences(batch, e) \in Nat
           /\ logRows[e] \in Nat /\ Late(e) \in {0, 1} /\ Open(e) \in {0, 1} /\ Stopping \in {0, 1}
  BY OccurrencesCount DEF QueueInv, Late, Open, Stopping

\* The count of an event is kept by a step after which no part of it has more,
\* but for what the next loss allows or the shutdown gives up.
LEMMA CopiesStay ==
    ASSUME QueueInv, FlusherInv, CopiesInv, QueueInv', NEW n \in Nat, losses' = losses + n,
           \A e \in Events : Copies(e)' <= Copies(e) + n
    PROVE  CopiesInv'
<1> SUFFICES ASSUME NEW e \in Events PROVE Copies(e)' <= 1 + losses'
    BY DEF CopiesInv
<1>1. Copies(e) \in Nat /\ losses \in Nat
      <2>1. Copies(e) \in Nat
            BY TallyTypes DEF Copies
      <2>2. losses \in Nat
            BY AuditAssumption DEF FlusherInv
      <2> QED BY <2>1, <2>2
<1>2. Copies(e)' \in Nat
      <2>1. /\ Occurrences(buffer', e) \in Nat /\ Occurrences(batch', e) \in Nat
            /\ logRows'[e] \in Nat
            BY OccurrencesCount DEF QueueInv
      <2>2. Late(e)' \in Nat /\ Open(e)' \in Nat /\ Stopping' \in Nat
            BY DEF Late, Open, Stopping
      <2> QED BY <2>1, <2>2 DEF Copies
<1>3. Copies(e)' <= Copies(e) + n /\ Copies(e) <= 1 + losses
      BY DEF CopiesInv
<1> HIDE DEF Copies
<1> QED BY <1>1, <1>2, <1>3

LEMMA InitTally == AuditInit => FlusherInv /\ CopiesInv
<1> SUFFICES ASSUME AuditInit PROVE FlusherInv /\ CopiesInv
    OBVIOUS
<1>1. FlusherInv
      <2>1. due \in BOOLEAN /\ running \in BOOLEAN
            BY DEF AuditInit
      <2>4. losses \in 0..MaxLosses
            BY AuditAssumption DEF AuditInit
      <2>2. Len(buffer) <= QueueSize
            BY AuditAssumption, EmptySeq DEF AuditInit
      <2>3. flusher = "round" /\ refused = {} /\ forsaken = {}
            BY DEF AuditInit
      <2> QED BY <2>1, <2>2, <2>3, <2>4 DEF FlusherInv, FlusherStates
<1>2. ASSUME NEW e \in Events PROVE Copies(e) <= 1 + losses
      <2>1. Occurrences(buffer, e) = 0 /\ Occurrences(batch, e) = 0
            BY NoOccurrences DEF AuditInit
      <2>2. logRows[e] = 0 /\ Late(e) = 0 /\ Open(e) \in {0, 1} /\ Stopping = 0 /\ losses = 0
            BY DEF AuditInit, Late, Open, Stopping
      <2> QED BY <2>1, <2>2 DEF Copies
<1> QED BY <1>1, <1>2 DEF CopiesInv

LEMMA ConsumeTally ==
    ASSUME TallyInv, QueueInv', NEW d \in Events, Emit(d) \/ Deliver(d) \/ Put(d) \/ Ack(d)
    PROVE  FlusherInv' /\ CopiesInv'
<1>1. UNCHANGED <<batch, flusher, due, running, logRows, forsaken, losses>>
      BY DEF Emit, Deliver, Put, Ack
<1>2. losses' = losses + 0
      BY <1>1, AuditAssumption DEF TallyInv, FlusherInv
<1>3. Stopping' = Stopping
      BY <1>1 DEF Stopping
<1>4. CASE Emit(d) \/ Deliver(d) \/ Ack(d)
      <2>1. /\ UNCHANGED <<late, buffer>> /\ refused' \subseteq Events
            /\ \A e \in Events : Open(e)' <= Open(e)
            BY <1>4 DEF Emit, Deliver, Ack, TallyInv, FlusherInv, QueueInv, Open
      <2>2. FlusherInv'
            BY <1>1, <2>1 DEF TallyInv, FlusherInv
      <2>3. ASSUME NEW e \in Events PROVE Copies(e)' <= Copies(e) + 0
            <3>1. Late(e)' = Late(e) /\ Occurrences(buffer', e) = Occurrences(buffer, e)
                  /\ Occurrences(batch', e) = Occurrences(batch, e)
                  BY <1>1, <2>1 DEF Late
            <3>2. Open(e)' \in {0, 1} /\ Open(e)' <= Open(e)
                  BY <2>1 DEF Open
            <3> QED BY <1>1, <1>3, <3>1, <3>2, TallyTypes DEF Copies, TallyInv
      <2> QED BY <1>2, <2>2, <2>3, CopiesStay DEF TallyInv
<1>5. CASE Put(d)
      <2>1. buffer' = Append(buffer, d) /\ Len(buffer') = Len(buffer) + 1 /\ Len(buffer) < QueueSize
            /\ UNCHANGED refused /\ Len(buffer) \in Nat
            BY <1>5, LenProperties DEF Put, TallyInv, QueueInv
      <2>2. FlusherInv'
            BY <1>1, <2>1, AuditAssumption DEF TallyInv, FlusherInv
      <2>3. ASSUME NEW e \in Events PROVE Copies(e)' <= Copies(e) + 0
            <3> DEFINE more == IF d = e THEN 1 ELSE 0
            <3>1. Occurrences(buffer', e) = Occurrences(buffer, e) + more
                  /\ Occurrences(batch', e) = Occurrences(batch, e)
                  BY <1>1, <2>1, AppendOccurrences DEF TallyInv, QueueInv
            <3>2. Late(e)' \in {0, 1} /\ Open(e)' \in {0, 1} /\ Late(e)' + Open(e)' + more <= Late(e) + Open(e)
                  BY <1>5 DEF Put, Late, Open, TallyInv, QueueInv
            <3> HIDE DEF more
            <3>3. more \in {0, 1}
                  BY DEF more
            <3> QED BY <1>1, <1>3, <3>1, <3>2, <3>3, TallyTypes DEF Copies, TallyInv
      <2> QED BY <1>2, <2>2, <2>3, CopiesStay DEF TallyInv
<1> QED BY <1>4, <1>5

\* What a lost connection, a kill or a close makes of a message adds one copy
\* at most, and none of one that waits for room.
LEMMA RedeliveredOnce ==
    ASSUME TallyInv, NEW e \in Events, message' = Redelivered
    PROVE  /\ Open(e)' \in {0, 1}
           /\ Open(e)' <= Open(e) + 1
           /\ message[e] = "parsed" => Open(e)' = Open(e)
  BY DEF TallyInv, QueueInv, Redelivered, Unsettled, Open

LEMMA LossTally ==
    ASSUME TallyInv, QueueInv', LoseConnection \/ Close \/ Kill
    PROVE  FlusherInv' /\ CopiesInv'
<1>1. UNCHANGED <<logRows, refused, due, running>> /\ message' = Redelivered
      BY DEF LoseConnection, Close, Kill
<1>2. losses \in Nat
      BY AuditAssumption DEF TallyInv, FlusherInv
<1>3. CASE LoseConnection
      <2>1. FlusherInv'
            BY <1>1, <1>3, AuditAssumption DEF LoseConnection, TallyInv, FlusherInv
      <2>2. ASSUME NEW e \in Events PROVE Copies(e)' <= Copies(e) + 1
            <3>1. Stopping' = Stopping /\ Occurrences(buffer', e) = Occurrences(buffer, e)
                  /\ Occurrences(batch', e) = Occurrences(batch, e)
                  BY <1>1, <1>3 DEF LoseConnection, Stopping
            <3>2. Late(e)' \in {0, 1} /\ Open(e)' \in {0, 1} /\ Late(e)' + Open(e)' <= Late(e) + Open(e) + 1
                  BY <1>1, <1>3, RedeliveredOnce DEF LoseConnection, Late, Open
            <3> QED BY <1>1, <3>1, <3>2, TallyTypes DEF Copies, TallyInv
      <2> QED BY <1>3, <2>1, <2>2, CopiesStay DEF TallyInv, LoseConnection
<1>4. CASE Close \/ Kill
      <2>1. /\ late' = {} /\ buffer' = <<>> /\ batch' = <<>> /\ flusher' = "ended"
            /\ forsaken' \subseteq forsaken \union ToSet(buffer) \union ToSet(batch)
            BY <1>4 DEF Close, Kill
      <2>2. ToSet(buffer) \subseteq Events /\ ToSet(batch) \subseteq Events
            BY ElementOfSeq, LenProperties DEF ToSet, TallyInv, QueueInv
      <2>3. losses' \in 0..MaxLosses
            BY <1>4, AuditAssumption DEF Close, Kill, TallyInv, FlusherInv
      <2>4. FlusherInv'
            BY <1>1, <2>1, <2>2, <2>3, AuditAssumption, EmptySeq DEF TallyInv, FlusherInv, FlusherStates
      <2>5. \A e \in Events : Occurrences(buffer', e) = 0 /\ Occurrences(batch', e) = 0
            /\ Late(e)' = 0 /\ Stopping' = 0
            BY <2>1, NoOccurrences DEF Late, Stopping
      <2>6. CASE Close
            <3>1. Stopping = 1 /\ losses' = losses + 0
                  BY <1>2, <2>6 DEF Close, Stopping, TallyInv, FlusherInv
            <3>2. ASSUME NEW e \in Events PROVE Copies(e)' <= Copies(e) + 0
                  <4>1. Open(e)' \in {0, 1} /\ Open(e)' <= Open(e) + 1
                        BY <1>1, RedeliveredOnce
                  <4> QED BY <1>1, <2>5, <3>1, <4>1, TallyTypes DEF Copies, TallyInv
            <3> QED BY <2>4, <3>1, <3>2, CopiesStay DEF TallyInv
      <2>7. CASE Kill
            <3>1. losses' = losses + 1
                  BY <2>7 DEF Kill
            <3>2. ASSUME NEW e \in Events PROVE Copies(e)' <= Copies(e) + 1
                  <4>1. Open(e)' \in {0, 1} /\ Open(e)' <= Open(e) + 1
                        BY <1>1, RedeliveredOnce
                  <4> QED BY <1>1, <2>5, <4>1, TallyTypes DEF Copies, TallyInv
            <3> QED BY <2>4, <3>1, <3>2, CopiesStay DEF TallyInv
      <2> QED BY <1>4, <2>6, <2>7
<1> QED BY <1>3, <1>4

LEMMA RoundTally == ASSUME TallyInv, QueueInv', Round PROVE FlusherInv' /\ CopiesInv'
<1>1. UNCHANGED <<message, late, due, running, logRows, refused, forsaken, losses>>
      BY DEF Round
<1>2. Taken \in 0..Len(buffer) /\ Len(buffer) \in Nat
      <2>1. Len(buffer) \in Nat /\ Len(batch) \in Nat /\ BatchSize \in Nat /\ Len(batch) <= BatchSize
            BY AuditAssumption, LenProperties DEF TallyInv, QueueInv
      <2> QED BY <2>1 DEF Taken
<1>3. Len(buffer') = Len(buffer) - Taken
      <2> DEFINE n == Taken
      <2>1. buffer' = SubSeq(buffer, n + 1, Len(buffer)) /\ n \in 0..Len(buffer)
            BY <1>2 DEF Round
      <2> HIDE DEF n
      <2>2. Len(buffer') = Len(buffer) - n
            BY <1>2, <2>1 DEF TallyInv, QueueInv
      <2> QED BY <2>2 DEF n
<1>4. flusher' \in {"flush", "round"}
      BY DEF Round
<1>5. FlusherInv'
      BY <1>1, <1>2, <1>3, <1>4, AuditAssumption DEF TallyInv, FlusherInv, FlusherStates
<1>6. ASSUME NEW e \in Events PROVE Copies(e)' <= Copies(e) + 0
      <2>1. Occurrences(batch', e) + Occurrences(buffer', e) = Occurrences(batch, e) + Occurrences(buffer, e)
            BY <1>2, MovedOccurrences DEF Round, TallyInv, QueueInv
      <2>2. Occurrences(batch', e) \in Nat /\ Occurrences(buffer', e) \in Nat
            BY OccurrencesCount DEF QueueInv
      <2>3. Late(e)' = Late(e) /\ Open(e)' = Open(e) /\ Stopping' = Stopping /\ logRows' = logRows
            BY <1>1, <1>4 DEF Late, Open, Stopping, Round
      <2> QED BY <2>1, <2>2, <2>3, TallyTypes DEF Copies, TallyInv
<1>7. losses' = losses + 0
      BY <1>1, AuditAssumption DEF TallyInv, FlusherInv
<1> QED BY <1>5, <1>6, <1>7, CopiesStay DEF TallyInv

LEMMA FlushTally == ASSUME TallyInv, QueueInv', Flush PROVE FlusherInv' /\ CopiesInv'
<1>1. UNCHANGED <<message, late, buffer, running, forsaken, losses>> /\ batch' = <<>>
      BY DEF Flush
<1>a. due' \in BOOLEAN
      BY DEF Flush
<1>b. \/ flusher = "flush" /\ flusher' = "round"
      \/ flusher = "last" /\ flusher' = "flushed"
      BY DEF Flush
<1>2. ToSet(batch) \subseteq Events
      BY ElementOfSeq, LenProperties DEF ToSet, TallyInv, QueueInv
<1>3. refused' \subseteq Events
      BY <1>2 DEF Flush, TallyInv, FlusherInv
<1>4. FlusherInv'
      BY <1>1, <1>3, <1>a, <1>b DEF TallyInv, FlusherInv, FlusherStates
<1>5. ASSUME NEW e \in Events PROVE Copies(e)' <= Copies(e) + 0
      <2>1. Late(e)' = Late(e) /\ Open(e)' = Open(e) /\ Stopping' = Stopping
            /\ Occurrences(buffer', e) = Occurrences(buffer, e) /\ Occurrences(batch', e) = 0
            BY <1>1, <1>b, NoOccurrences DEF Late, Open, Stopping
      <2>2. logRows'[e] \in Nat /\ logRows'[e] <= logRows[e] + Occurrences(batch, e)
            <3>1. CASE UNCHANGED logRows
                  BY <3>1, TallyTypes DEF TallyInv
            <3>2. CASE logRows' = Inserted(batch)
                  <4>1. logRows'[e] = logRows[e] + Occurrences(batch, e)
                        BY <3>2 DEF Inserted, Occurrences
                  <4> QED BY <4>1, TallyTypes DEF TallyInv
            <3> QED BY <3>1, <3>2 DEF Flush
      <2> QED BY <2>1, <2>2, TallyTypes DEF Copies, TallyInv
<1>6. losses' = losses + 0
      BY <1>1, AuditAssumption DEF TallyInv, FlusherInv
<1> QED BY <1>4, <1>5, <1>6, CopiesStay DEF TallyInv

LEMMA QuietTally ==
    ASSUME TallyInv, QueueInv', Elapse \/ Signal \/ Start \/ Leave
    PROVE  FlusherInv' /\ CopiesInv'
<1>1. /\ UNCHANGED <<message, late, buffer, batch, logRows, refused, forsaken>>
      BY DEF Elapse, Signal, Start, Leave
<1>2. losses \in Nat
      BY AuditAssumption DEF TallyInv, FlusherInv
<1>3. FlusherInv'
      <2>1. due' \in BOOLEAN /\ running' \in BOOLEAN
            BY DEF TallyInv, FlusherInv, Elapse, Signal, Start, Leave
      <2>2. losses' \in 0..MaxLosses
            BY <1>2, AuditAssumption DEF TallyInv, FlusherInv, Elapse, Signal, Start, Leave
      <2>3. flusher' \in FlusherStates /\ (flusher' \in {"last", "flushed"} => ~running')
            BY DEF TallyInv, FlusherInv, FlusherStates, Elapse, Signal, Start, Leave
      <2> QED BY <1>1, <2>1, <2>2, <2>3 DEF TallyInv, FlusherInv
<1>4. \E n \in {0, 1} : losses' = losses + n /\ Stopping' \in {0, 1} /\ Stopping' <= Stopping + n
      BY <1>2 DEF Elapse, Signal, Start, Leave, Stopping, TallyInv, FlusherInv
<1>5. PICK n \in {0, 1} : losses' = losses + n /\ Stopping' \in {0, 1} /\ Stopping' <= Stopping + n
      BY <1>4
<1>6. ASSUME NEW e \in Events PROVE Copies(e)' <= Copies(e) + n
      <2>1. Late(e)' = Late(e) /\ Open(e)' = Open(e) /\ logRows' = logRows
            /\ Occurrences(buffer', e) = Occurrences(buffer, e)
            /\ Occurrences(batch', e) = Occurrences(batch, e)
            BY <1>1 DEF Late, Open
      <2> QED BY <1>5, <2>1, TallyTypes DEF Copies, TallyInv
<1> QED BY <1>3, <1>5, <1>6, CopiesStay DEF TallyInv

LEMMA TallyStays ==
    ASSUME TallyInv,
           UNCHANGED <<message, late, buffer, batch, flusher, due, running, logRows, refused,
                       forsaken, losses>>
    PROVE  FlusherInv' /\ CopiesInv'
<1>1. FlusherInv'
      BY DEF TallyInv, FlusherInv
<1>2. \A e \in Events : Copies(e)' = Copies(e)
      BY DEF Copies, Late, Open, Stopping
<1> QED BY <1>1, <1>2 DEF TallyInv, CopiesInv

LEMMA TypesHold == LogInv /\ FlusherInv /\ CopiesInv => AuditTypeOK
<1> SUFFICES ASSUME LogInv, FlusherInv, CopiesInv PROVE AuditTypeOK
    OBVIOUS
<1>1. ASSUME NEW e \in Events PROVE logRows[e] \in 0..MaxLosses + 1
      BY TallyTypes, AuditAssumption DEF LogInv, FlusherInv, CopiesInv, Copies
<1>2. logRows \in [Events -> 0..MaxLosses + 1]
      BY <1>1 DEF LogInv, QueueInv
<1>3. export.status \in ExportStatus
      BY DEF LogInv, ExportInv, ExportJob
<1> QED BY <1>2, <1>3 DEF LogInv, QueueInv, FlusherInv, FlusherStates, AuditTypeOK, ExportStatus

\* The inductive invariant of the worker, the flusher and the export.
AuditInv == LogInv /\ FlusherInv /\ CopiesInv

LEMMA AuditInitInv == AuditInit => AuditInv
  BY LogInit, InitTally DEF AuditInv

LEMMA AuditNextInv == AuditInv /\ [AuditNext]_auditVars => AuditInv'
<1> SUFFICES ASSUME AuditInv, [AuditNext]_auditVars PROVE AuditInv'
    OBVIOUS
<1>1. TallyInv
      BY DEF AuditInv, LogInv, TallyInv
<1>2. LogInv' /\ QueueInv'
      BY LogNext DEF AuditInv, LogInv
<1>3. CASE UNCHANGED auditVars \/ Ask \/ Run \/ Write \/ EndExport
      <2>1. UNCHANGED <<message, late, buffer, batch, flusher, due, running, logRows, refused,
                        forsaken, losses>>
            BY <1>3 DEF auditVars, Ask, Run, Write, EndExport, ExportUnchanged
      <2> QED BY <1>1, <1>2, <2>1, TallyStays DEF AuditInv
<1>4. ASSUME NEW e \in Events, Emit(e) \/ Deliver(e) \/ Put(e) \/ Ack(e)
      PROVE  AuditInv'
      BY <1>1, <1>2, <1>4, ConsumeTally DEF AuditInv
<1>5. CASE LoseConnection \/ Close \/ Kill
      BY <1>1, <1>2, <1>5, LossTally DEF AuditInv
<1>6. CASE Round \/ Flush
      BY <1>1, <1>2, <1>6, RoundTally, FlushTally DEF AuditInv
<1>7. CASE Elapse \/ Signal \/ Start \/ Leave
      BY <1>1, <1>2, <1>7, QuietTally DEF AuditInv
<1> QED BY <1>3, <1>4, <1>5, <1>6, <1>7 DEF AuditNext, Consume, Flushing, Exporting

LEMMA AuditPromises == AuditInv => AuditTypeOK /\ ExportIsWhole /\ AckedIsKept
  BY TypesHold DEF AuditInv, LogInv, ExportInv, HandsInv, IsKept, AckedIsKept

---------------------------------------------------------------------------
(* Induction and recursion, without operators as parameters: the set of    *)
(* what fulfils a claim takes the place of the claim.                      *)

LEMMA LeastNatural ==
    ASSUME NEW S, S \subseteq Nat, S # {}
    PROVE  \E m \in S : \A n \in S : m <= n
<1> DEFINE R == {p \in Nat \X Nat : p[1] < p[2]}
<1>1. IsWellFoundedOn(R, Nat)
  BY NatLessThanWellFounded DEF OpToRel
<1>2. PICK m \in S : \A n \in S : ~(<<n, m>> \in R)
  <2> HIDE DEF R
  <2> QED
    BY <1>1, WFMin
<1>3. \A n \in S : m \in Nat /\ n \in Nat /\ ~(n < m)
  BY <1>2
<1> HIDE DEF R
<1>4. \A n \in S : m <= n
  BY <1>3
<1> QED
  BY <1>4

LEMMA GreatestNatural ==
    ASSUME NEW n \in Nat, NEW S, S \subseteq 0..n, S # {}
    PROVE  \E m \in S : \A i \in S : i <= m
<1> DEFINE T == {t \in 0..n : n - t \in S}
<1>1. \A i \in S : i \in 0..n /\ n - i \in 0..n /\ n - (n - i) = i
  OBVIOUS
<1>2. T \subseteq Nat /\ T # {}
  <2>1. PICK i \in S : TRUE
    OBVIOUS
  <2>2. n - i \in T
    BY <1>1, <2>1
  <2>3. T \subseteq Nat
    OBVIOUS
  <2> HIDE DEF T
  <2> QED
    BY <2>2, <2>3
<1>3. PICK t \in T : \A v \in T : t <= v
  <2> HIDE DEF T
  <2> QED
    BY <1>2, LeastNatural
<1>4. t \in 0..n /\ n - t \in S
  BY <1>3
<1>5. \A i \in S : n - i \in T
  BY <1>1
<1> HIDE DEF T
<1>6. \A i \in S : i <= n - t
  BY <1>1, <1>3, <1>4, <1>5
<1> QED
  BY <1>4, <1>6

LEMMA SetInduction ==
    ASSUME NEW n \in Nat, NEW S, 0 \in S, \A i \in 0..(n - 1) : i \in S => i + 1 \in S
    PROVE  \A i \in 0..n : i \in S
<1> SUFFICES ASSUME NEW k \in 0..n, k \notin S PROVE FALSE
  OBVIOUS
<1> DEFINE T == {i \in 0..n : i \notin S}
<1>1. T \subseteq Nat /\ T # {}
  OBVIOUS
<1>2. PICK m \in T : \A i \in T : m <= i
  <2> HIDE DEF T
  <2> QED
    BY <1>1, LeastNatural
<1>3. m \in 1..n /\ m - 1 \in 0..(n - 1) /\ m - 1 \notin T
  BY <1>2
<1> QED
  BY <1>2, <1>3

\* A function that is given step by step: each step is a function on S.
Steps(n, S) == [1..n -> [S -> S]]
Follows(f, n, S, base, step) ==
    /\ f = [i \in 0..n |-> f[i]] /\ f[0] = base
    /\ \A i \in 1..n : f[i - 1] \in S => f[i] = step[i][f[i - 1]]

\* It exists.
LEMMA RecursionExists ==
    ASSUME NEW n \in Nat, NEW S, NEW base \in S, NEW step \in Steps(n, S)
    PROVE  \E f \in [0..n -> S] : Follows(f, n, S, base, step)
<1>0. step \in [1..n -> [S -> S]]
  BY DEF Steps
<1> DEFINE Upto(m) == {f \in [0..n -> S] : f[0] = base /\ \A i \in 1..m : f[i] = step[i][f[i - 1]]}
           T == {m \in 0..n : Upto(m) # {}}
<1>1. 0 \in T
  <2>1. [i \in 0..n |-> base] \in Upto(0)
    OBVIOUS
  <2> QED
    BY <2>1
<1>2. ASSUME NEW m \in 0..(n - 1), m \in T PROVE m + 1 \in T
  <2>1. PICK f \in Upto(m) : TRUE
    BY <1>2
  <2> DEFINE g == [f EXCEPT ![m + 1] = step[m + 1][f[m]]]
  <2>2. step[m + 1][f[m]] \in S
    BY <1>0, <2>1
  <2>3. g \in [0..n -> S] /\ g[m + 1] = step[m + 1][f[m]] /\ \A i \in 0..m : g[i] = f[i]
    BY <2>1, <2>2
  <2>4. g \in Upto(m + 1)
    <3>1. ASSUME NEW i \in 1..(m + 1) PROVE g[i] = step[i][g[i - 1]]
      <4>1. CASE i = m + 1
        BY <2>3, <4>1
      <4>2. CASE i # m + 1
        BY <2>1, <2>3, <4>2
      <4> QED
        BY <4>1, <4>2
    <3>2. g[0] = base
      BY <2>1, <2>3
    <3> HIDE DEF g
    <3> QED
      BY <2>3, <3>1, <3>2
  <2> HIDE DEF Upto
  <2> QED
    BY <2>4
<1>3. n \in T
  <2> HIDE DEF T
  <2>1. \A i \in 0..n : i \in T
    BY <1>1, <1>2, SetInduction
  <2> QED
    BY <2>1
<1>4. PICK f \in Upto(n) : TRUE
  BY <1>3
<1>5. f = [i \in 0..n |-> f[i]]
  BY <1>4
<1> QED
  BY <1>4, <1>5 DEF Follows

\* And whatever follows the steps is such a function.
LEMMA RecursionType ==
    ASSUME NEW n \in Nat, NEW S, NEW base \in S, NEW step \in Steps(n, S),
           NEW f, Follows(f, n, S, base, step)
    PROVE  f \in [0..n -> S]
<1>0. /\ step \in [1..n -> [S -> S]] /\ f = [i \in 0..n |-> f[i]] /\ f[0] = base
      /\ \A i \in 1..n : f[i - 1] \in S => f[i] = step[i][f[i - 1]]
  BY DEF Steps, Follows
<1> DEFINE T == {i \in 0..n : f[i] \in S}
<1>1. 0 \in T
  BY <1>0
<1>2. ASSUME NEW i \in 0..(n - 1), i \in T PROVE i + 1 \in T
  <2>1. f[i] \in S /\ i + 1 \in 1..n /\ (i + 1) - 1 = i
    BY <1>2
  <2>2. f[i + 1] = step[i + 1][f[i]] /\ step[i + 1] \in [S -> S]
    BY <1>0, <2>1
  <2> QED
    BY <2>1, <2>2
<1>3. \A i \in 0..n : i \in T
  <2> HIDE DEF T
  <2> QED
    BY <1>1, <1>2, SetInduction
<1>4. \A i \in 0..n : f[i] \in S
  BY <1>3
<1> QED
  BY <1>0, <1>4

---------------------------------------------------------------------------
(* The operators of the text pipeline.                                     *)

IsInOrder(f, set, n) ==
    /\ f \in [0..n -> Seq(Nat)] /\ f[0] = <<>>
    /\ \A i \in 1..n : f[i] = IF i \in set THEN Append(f[i - 1], i) ELSE f[i - 1]

LEMMA InOrderSteps ==
    ASSUME NEW set, NEW n \in Nat
    PROVE  \E f : InOrder(set, n) = f[n] /\ IsInOrder(f, set, n)
<1> DEFINE Q == Seq(Nat)
           Step(f, i) == IF i \in set THEN Append(f[i - 1], i) ELSE f[i - 1]
           Def(f) == [i \in 0..n |-> IF i = 0 THEN <<>> ELSE Step(f, i)]
           step == [i \in 1..n |-> [s \in Q |-> IF i \in set THEN Append(s, i) ELSE s]]
<1>1. step \in Steps(n, Q) /\ <<>> \in Q
  BY DEF Steps
<1>2. \A f : \A i \in 1..n : f[i - 1] \in Q => step[i][f[i - 1]] = Step(f, i)
  OBVIOUS
<1> HIDE DEF step, Step, Q
<1>3. PICK g \in [0..n -> Q] : Follows(g, n, Q, <<>>, step)
  BY <1>1, RecursionExists
<1>4. g = Def(g)
  <2>1. g[0] = <<>> /\ \A i \in 1..n : g[i - 1] \in Q => g[i] = step[i][g[i - 1]]
    BY <1>3 DEF Follows
  <2>2. \A i \in 1..n : g[i] = Step(g, i)
    BY <1>2, <1>3, <2>1
  <2>3. \A i \in 0..n : g[i] = IF i = 0 THEN <<>> ELSE Step(g, i)
    BY <2>1, <2>2
  <2> QED
    BY <1>3, <2>3
<1> DEFINE u == CHOOSE f : f = Def(f)
<1>5. u = Def(u)
  BY <1>4
<1>6. InOrder(set, n) = u[n]
  BY DEF InOrder, Step
<1> HIDE DEF u
<1>7. u = [i \in 0..n |-> u[i]] /\ u[0] = <<>> /\ \A i \in 1..n : u[i] = Step(u, i)
  <2>1. \A i \in 0..n : u[i] = IF i = 0 THEN <<>> ELSE Step(u, i)
    BY <1>5
  <2>2. u = [i \in 0..n |-> u[i]]
    BY <1>5, <2>1
  <2>3. 0 \in 0..n /\ \A i \in 1..n : i \in 0..n /\ i # 0
    OBVIOUS
  <2> QED
    BY <2>1, <2>2, <2>3
<1> HIDE DEF Def
<1>8. Follows(u, n, Q, <<>>, step)
  BY <1>2, <1>7 DEF Follows
<1>9. u \in [0..n -> Q]
  BY <1>1, <1>8, RecursionType
<1> QED
  BY <1>6, <1>7, <1>9 DEF Step, Q, IsInOrder

(* The text pipeline.                                                    *)

SheetType == [written : Seq(Glyphs), scan : BOOLEAN]
PageType == [text : Seq(Glyphs), needs_ocr : BOOLEAN]
SpanType == [page : Nat, from : Nat, to : Nat]
Kinds == {"chunk", "parent", "child"}
PieceType == [kind : Kinds, from : Nat, to : Nat, page : Nat]

Begun == {"chunking", "dividing", "chunked"}

TextTypes ==
    /\ stage \in {"uploaded", "extracted", "read", "cleaned", "chunking", "dividing", "chunked", "failed"}
    /\ file \in Seq(SheetType) /\ pages \in Seq(PageType)
    /\ strategy \in Strategies /\ full \in Seq(Glyphs) /\ offset \in Nat
    /\ spans \in Seq(SpanType) /\ pieces \in Seq(PieceType)

\* What each stage leaves to the next.
StageInv ==
    /\ stage = "extracted" => \A i \in DOMAIN pages : pages[i].needs_ocr => i \in DOMAIN file
    /\ stage \notin Begun => offset = 0 /\ spans = <<>> /\ pieces = <<>>
    /\ stage \in Begun => full = Merged(pages)
    /\ stage = "chunking" => strategy \in {"fixed", "parent_child"}
    /\ stage = "chunked" \/ strategy = "fixed" => spans = <<>>

SpanOf(s) ==
    /\ s.from <= s.to /\ s.page <= Len(pages)
    /\ strategy = "recursive" => s.page \in DOMAIN pages /\ s.from = 0 /\ s.to = Len(pages[s.page].text)
    /\ strategy = "parent_child" => s.to <= Len(full)
    /\ strategy = "semantic" => s.to > 0

PieceOf(c) ==
    /\ c.from < c.to /\ c.page <= Len(pages)
    /\ strategy \in {"fixed", "parent_child"} => c.to <= Len(full) /\ c.page = PageOf(c.from)

Within(s, i) == s.from < i /\ i <= s.to
InPiece(i) == \E k \in DOMAIN pieces : pieces[k].kind # "parent" /\ Within(pieces[k], i)
InPieceOf(p, i) == \E k \in DOMAIN pieces : pieces[k].kind # "parent" /\ pieces[k].page = p /\ Within(pieces[k], i)

\* A span that is still to be divided has it: of the first one, what is after offset.
Left(k, i) == Within(spans[k], i) /\ (stage = "dividing" /\ k = 1 => offset < i)

\* Every visible character is in a piece or is still to come.
FixedInv ==
    strategy = "fixed" /\ stage \in Begun =>
        \A i \in DOMAIN full : Visible(full[i]) => InPiece(i) \/ (stage = "chunking" /\ offset < i)
FamilyInv ==
    strategy = "parent_child" /\ stage \in Begun =>
        \A i \in DOMAIN full : Visible(full[i]) =>
            \/ stage # "chunking" /\ InPiece(i)
            \/ stage = "chunking" /\ offset < i
            \/ \E k \in DOMAIN spans : Left(k, i)
RecursiveInv ==
    strategy = "recursive" /\ stage \in Begun =>
        \A p \in DOMAIN pages : \A i \in DOMAIN pages[p].text : Visible(pages[p].text[i]) =>
            InPieceOf(p, i) \/ \E k \in DOMAIN spans : spans[k].page = p /\ Left(k, i)

TextInv ==
    /\ TextTypes /\ StageInv
    /\ \A k \in DOMAIN spans : SpanOf(spans[k])
    /\ \A k \in DOMAIN pieces : PieceOf(pieces[k])
    /\ FixedInv /\ FamilyInv /\ RecursiveInv

LEMMA SumsSteps ==
    ASSUME NEW nums \in Seq(Nat)
    PROVE  /\ Sums(nums) \in [0..Len(nums) -> Nat] /\ Sums(nums)[0] = 0
           /\ \A i \in 1..Len(nums) : Sums(nums)[i] = Sums(nums)[i - 1] + nums[i]
<1> DEFINE With(s, x) == s + x
<1>a. \A s, x \in Nat : With(s, x) \in Nat
  OBVIOUS
<1>b. \A i \in 1..Len(nums) : nums[i] \in Nat
  OBVIOUS
<1> HIDE DEF With
<1> DEFINE n == Len(nums)
           Q == Nat
           Step(f, i) == With(f[i - 1], nums[i])
           Def(f) == [i \in 0..n |-> IF i = 0 THEN 0 ELSE Step(f, i)]
           step == [i \in 1..n |-> [s \in Q |-> With(s, nums[i])]]
<1>1. step \in Steps(n, Q) /\ 0 \in Q /\ n \in Nat
  <2>1. \A i \in 1..n : \A s \in Q : With(s, nums[i]) \in Q
    BY <1>a, <1>b
  <2>2. 0 \in Q /\ n \in Nat
    OBVIOUS
  <2> HIDE DEF Q, n
  <2> QED
    BY <2>1, <2>2 DEF Steps
<1>2. \A f : \A i \in 1..n : f[i - 1] \in Q => step[i][f[i - 1]] = Step(f, i)
  OBVIOUS
<1> HIDE DEF step, Step, Q, n
<1>3. PICK g \in [0..n -> Q] : Follows(g, n, Q, 0, step)
  BY <1>1, RecursionExists
<1>4. g = Def(g)
  <2>1. g[0] = 0 /\ \A i \in 1..n : g[i - 1] \in Q => g[i] = step[i][g[i - 1]]
    BY <1>3 DEF Follows
  <2>2. \A i \in 1..n : i - 1 \in 0..n
    BY <1>1
  <2>3. \A i \in 0..n : g[i] = IF i = 0 THEN 0 ELSE Step(g, i)
    BY <1>1, <1>2, <1>3, <2>1, <2>2
  <2> QED
    BY <1>3, <2>3
<1> DEFINE u == CHOOSE f : f = Def(f)
<1>5. u = Def(u)
  BY <1>4
<1>6. Sums(nums) = u
  BY DEF Sums, With, Step, n
<1> HIDE DEF u
<1>7. u = [i \in 0..n |-> u[i]] /\ u[0] = 0 /\ \A i \in 1..n : u[i] = Step(u, i)
  <2>1. \A i \in 0..n : u[i] = IF i = 0 THEN 0 ELSE Step(u, i)
    BY <1>5
  <2>2. u = [i \in 0..n |-> u[i]]
    BY <1>5, <2>1
  <2>3. 0 \in 0..n /\ \A i \in 1..n : i \in 0..n /\ i # 0
    BY <1>1
  <2> QED
    BY <2>1, <2>2, <2>3
<1> HIDE DEF Def
<1>8. Follows(u, n, Q, 0, step)
  BY <1>2, <1>7 DEF Follows
<1>9. u \in [0..n -> Q]
  BY <1>1, <1>8, RecursionType
<1> QED
  BY <1>6, <1>7, <1>9 DEF Step, Q, n, With

LEMMA MergedSteps ==
    ASSUME NEW ps \in Seq(PageType)
    PROVE  /\ MergedUpto(ps) \in [0..Len(ps) -> Seq(Glyphs)] /\ MergedUpto(ps)[0] = <<>>
           /\ \A i \in 1..Len(ps) :
                MergedUpto(ps)[i] =
                    IF ps[i].text = <<>> THEN MergedUpto(ps)[i - 1]
                    ELSE IF MergedUpto(ps)[i - 1] = <<>> THEN ps[i].text
                    ELSE MergedUpto(ps)[i - 1] \o <<"line", "line">> \o ps[i].text
<1> DEFINE With(s, txt) ==
               IF txt = <<>> THEN s ELSE IF s = <<>> THEN txt ELSE s \o <<"line", "line">> \o txt
<1>a. \A s, txt \in Seq(Glyphs) : With(s, txt) \in Seq(Glyphs)
  <2>1. <<"line", "line">> \in Seq(Glyphs)
    BY DEF Glyphs
  <2>2. PICK blank \in Seq(Glyphs) : blank = <<"line", "line">>
    BY <2>1
  <2>3. \A s, txt \in Seq(Glyphs) : s \o blank \o txt \in Seq(Glyphs)
    OBVIOUS
  <2> QED
    BY <2>2, <2>3
<1>b. \A i \in 1..Len(ps) : ps[i].text \in Seq(Glyphs)
  <2>1. \A i \in 1..Len(ps) : ps[i] \in PageType
    OBVIOUS
  <2> QED
    BY <2>1 DEF PageType
<1> HIDE DEF With
<1> DEFINE n == Len(ps)
           Q == Seq(Glyphs)
           Step(f, i) == With(f[i - 1], ps[i].text)
           Def(f) == [i \in 0..n |-> IF i = 0 THEN <<>> ELSE Step(f, i)]
           step == [i \in 1..n |-> [s \in Q |-> With(s, ps[i].text)]]
<1>1. step \in Steps(n, Q) /\ <<>> \in Q /\ n \in Nat
  <2>1. \A i \in 1..n : \A s \in Q : With(s, ps[i].text) \in Q
    BY <1>a, <1>b
  <2>2. <<>> \in Q /\ n \in Nat
    OBVIOUS
  <2> HIDE DEF Q, n
  <2> QED
    BY <2>1, <2>2 DEF Steps
<1>2. \A f : \A i \in 1..n : f[i - 1] \in Q => step[i][f[i - 1]] = Step(f, i)
  OBVIOUS
<1> HIDE DEF step, Step, Q, n
<1>3. PICK g \in [0..n -> Q] : Follows(g, n, Q, <<>>, step)
  BY <1>1, RecursionExists
<1>4. g = Def(g)
  <2>1. g[0] = <<>> /\ \A i \in 1..n : g[i - 1] \in Q => g[i] = step[i][g[i - 1]]
    BY <1>3 DEF Follows
  <2>2. \A i \in 1..n : i - 1 \in 0..n
    BY <1>1
  <2>3. \A i \in 0..n : g[i] = IF i = 0 THEN <<>> ELSE Step(g, i)
    BY <1>1, <1>2, <1>3, <2>1, <2>2
  <2> QED
    BY <1>3, <2>3
<1> DEFINE u == CHOOSE f : f = Def(f)
<1>5. u = Def(u)
  BY <1>4
<1>6. MergedUpto(ps) = u
  BY DEF MergedUpto, With, Step, n
<1> HIDE DEF u
<1>7. u = [i \in 0..n |-> u[i]] /\ u[0] = <<>> /\ \A i \in 1..n : u[i] = Step(u, i)
  <2>1. \A i \in 0..n : u[i] = IF i = 0 THEN <<>> ELSE Step(u, i)
    BY <1>5
  <2>2. u = [i \in 0..n |-> u[i]]
    BY <1>5, <2>1
  <2>3. 0 \in 0..n /\ \A i \in 1..n : i \in 0..n /\ i # 0
    BY <1>1
  <2> QED
    BY <2>1, <2>2, <2>3
<1> HIDE DEF Def
<1>8. Follows(u, n, Q, <<>>, step)
  BY <1>2, <1>7 DEF Follows
<1>9. u \in [0..n -> Q]
  BY <1>1, <1>8, RecursionType
<1> QED
  BY <1>6, <1>7, <1>9 DEF Step, Q, n, With

\* The sequence s has the members of the set up to m, in order.
Ordered(s, set, m) ==
    /\ s \in Seq(Nat)
    /\ \A k \in 1..Len(s) : s[k] \in set /\ s[k] \in 1..m
    /\ \A j, k \in 1..Len(s) : j < k => s[j] < s[k]
    /\ \A i \in 1..m : i \in set => \E k \in 1..Len(s) : s[k] = i

LEMMA OrderedAppend ==
    ASSUME NEW set, NEW m \in Nat, NEW s, Ordered(s, set, m), m + 1 \in set
    PROVE  Ordered(Append(s, m + 1), set, m + 1)
<1>1. s \in Seq(Nat)
  BY DEF Ordered
<1>2. PICK n \in Nat : n = Len(s)
  BY <1>1
<1>3. PICK t \in Seq(Nat) :
          t = Append(s, m + 1) /\ Len(t) = n + 1 /\ t[n + 1] = m + 1 /\ \A k \in 1..n : t[k] = s[k]
  <2>1. PICK e \in Nat : e = m + 1
    OBVIOUS
  <2>2. /\ Append(s, e) \in Seq(Nat) /\ Len(Append(s, e)) = Len(s) + 1 /\ Append(s, e)[Len(s) + 1] = e
        /\ \A k \in 1..Len(s) : Append(s, e)[k] = s[k]
    BY <1>1, AppendProperties
  <2>3. PICK t : t = Append(s, e)
    OBVIOUS
  <2> QED
    BY <1>2, <2>1, <2>2, <2>3
<1>4. /\ \A k \in 1..n : s[k] \in set /\ s[k] \in 1..m
      /\ \A j, k \in 1..n : j < k => s[j] < s[k]
      /\ \A i \in 1..m : i \in set => \E k \in 1..n : s[k] = i
  BY <1>2 DEF Ordered
<1>5. 1..(n + 1) = (1..n) \union {n + 1} /\ 1..(m + 1) = (1..m) \union {m + 1}
  OBVIOUS
<1>6. ASSUME NEW k \in 1..(n + 1) PROVE t[k] \in set /\ t[k] \in 1..(m + 1)
  BY <1>3, <1>4, <1>5
<1>7. ASSUME NEW j \in 1..(n + 1), NEW k \in 1..(n + 1), j < k PROVE t[j] < t[k]
  <2>1. j \in 1..n /\ t[j] = s[j] /\ s[j] \in 1..m
    BY <1>3, <1>4, <1>7
  <2>2. CASE k = n + 1
    BY <1>3, <2>1, <2>2
  <2>3. CASE k # n + 1
    <3>1. k \in 1..n
      BY <2>3
    <3> QED
      BY <1>3, <1>4, <1>7, <2>1, <3>1
  <2> QED
    BY <2>2, <2>3
<1>8. ASSUME NEW i \in 1..(m + 1), i \in set PROVE \E k \in 1..(n + 1) : t[k] = i
  <2>1. CASE i = m + 1
    <3>1. n + 1 \in 1..(n + 1)
      OBVIOUS
    <3> QED
      BY <1>3, <2>1, <3>1
  <2>2. CASE i # m + 1
    <3>1. i \in 1..m
      BY <2>2
    <3>2. PICK k \in 1..n : s[k] = i
      BY <1>4, <1>8, <3>1
    <3> QED
      BY <1>3, <3>2
  <2> QED
    BY <2>1, <2>2
<1>9. Ordered(t, set, m + 1)
  BY <1>3, <1>6, <1>7, <1>8 DEF Ordered
<1> QED
  BY <1>3, <1>9

LEMMA InOrderMeans ==
    ASSUME NEW set, NEW n \in Nat
    PROVE  Ordered(InOrder(set, n), set, n)
<1>0. PICK f : InOrder(set, n) = f[n] /\ IsInOrder(f, set, n)
  BY InOrderSteps
<1>1. /\ f \in [0..n -> Seq(Nat)] /\ f[0] = <<>>
      /\ \A i \in 1..n : f[i] = IF i \in set THEN Append(f[i - 1], i) ELSE f[i - 1]
  BY <1>0 DEF IsInOrder
<1> DEFINE T == {m \in 0..n : Ordered(f[m], set, m)}
<1>2. 0 \in T
  BY <1>1 DEF Ordered
<1>3. ASSUME NEW m \in 0..(n - 1), m \in T PROVE m + 1 \in T
  <2>1. m \in Nat /\ m + 1 \in 1..n /\ m + 1 \in 0..n /\ (m + 1) - 1 = m /\ Ordered(f[m], set, m)
    BY <1>3
  <2>2. f[m + 1] = IF m + 1 \in set THEN Append(f[m], m + 1) ELSE f[m]
    BY <1>1, <2>1
  <2> HIDE DEF T
  <2>3. Ordered(f[m + 1], set, m + 1)
    <3>1. CASE m + 1 \in set
      BY <2>1, <2>2, <3>1, OrderedAppend
    <3>2. CASE m + 1 \notin set
      <4>1. 1..(m + 1) = (1..m) \union {m + 1}
        BY <2>1
      <4>2. f[m + 1] = f[m]
        BY <2>2, <3>2
      <4>3. PICK s : s = f[m]
        OBVIOUS
      <4>4. Ordered(s, set, m + 1)
        BY <2>1, <3>2, <4>1, <4>3 DEF Ordered
      <4> QED
        BY <4>2, <4>3, <4>4
    <3> QED
      BY <3>1, <3>2
  <2> QED
    BY <2>1, <2>3 DEF T
<1>4. \A m \in 0..n : m \in T
  <2> HIDE DEF T
  <2> QED
    BY <1>2, <1>3, SetInduction
<1> QED
  BY <1>0, <1>4

\* What is kept of a sequence are members of it, and nothing that is to be kept
\* is left out.
LEMMA KeptMeans ==
    ASSUME NEW S, NEW seq \in Seq(S), NEW set
    PROVE  /\ Kept(seq, set) \in Seq(S)
           /\ \A k \in 1..Len(Kept(seq, set)) : \E i \in 1..Len(seq) : i \in set /\ Kept(seq, set)[k] = seq[i]
           /\ \A i \in 1..Len(seq) : i \in set => \E k \in 1..Len(Kept(seq, set)) : Kept(seq, set)[k] = seq[i]
<1>1. PICK s : s = InOrder(set, Len(seq)) /\ Ordered(s, set, Len(seq))
  BY InOrderMeans
<1>2. Kept(seq, set) = [k \in 1..Len(s) |-> seq[s[k]]] /\ s \in Seq(Nat)
  BY <1>1 DEF Kept, Ordered
<1>3. \A k \in 1..Len(s) : s[k] \in 1..Len(seq) /\ s[k] \in set
  BY <1>1 DEF Ordered
<1>4. \A i \in 1..Len(seq) : i \in set => \E k \in 1..Len(s) : s[k] = i
  BY <1>1 DEF Ordered
<1>5. \A k \in 1..Len(s) : seq[s[k]] \in S
  BY <1>3
<1>6. Kept(seq, set) \in [1..Len(s) -> S] /\ Len(s) \in Nat
  BY <1>2, <1>5
<1>7. PICK kept \in Seq(S) : kept = Kept(seq, set) /\ Len(kept) = Len(s)
  BY <1>6
<1>8. \A k \in 1..Len(s) : kept[k] = seq[s[k]]
  BY <1>2, <1>7
<1>9. ASSUME NEW k \in 1..Len(kept) PROVE \E i \in 1..Len(seq) : i \in set /\ kept[k] = seq[i]
  <2>1. k \in 1..Len(s)
    BY <1>7
  <2> QED
    BY <1>3, <1>8, <2>1
<1>10. ASSUME NEW i \in 1..Len(seq), i \in set PROVE \E k \in 1..Len(kept) : kept[k] = seq[i]
  <2>1. PICK k \in 1..Len(s) : s[k] = i
    BY <1>4, <1>10
  <2>2. k \in 1..Len(kept)
    BY <1>7
  <2> QED
    BY <1>8, <2>1, <2>2
<1> QED
  BY <1>7, <1>9, <1>10

LEMMA SumsGrow ==
    ASSUME NEW nums \in Seq(Nat), NEW i \in 0..Len(nums), NEW j \in 0..Len(nums), i <= j
    PROVE  Sums(nums)[i] <= Sums(nums)[j]
<1>1. PICK n \in Nat : n = Len(nums)
  OBVIOUS
<1> DEFINE f == Sums(nums)
<1>0. f \in [0..n -> Nat] /\ \A m \in 1..n : f[m] = f[m - 1] + nums[m]
  BY <1>1, SumsSteps
<1> HIDE DEF f
<1>2. \A m \in 0..(n - 1) : f[m + 1] = f[m] + nums[m + 1]
  <2>1. \A m \in 0..(n - 1) : m + 1 \in 1..n /\ (m + 1) - 1 = m
    OBVIOUS
  <2> QED
    BY <1>0, <2>1
<1>3. \A m \in 1..n : nums[m] \in Nat
  BY <1>1
<1> DEFINE T == {m \in 0..n : i <= m => f[i] <= f[m]}
<1>4. 0 \in T
  BY <1>0, <1>1
<1>5. ASSUME NEW m \in 0..(n - 1), m \in T PROVE m + 1 \in T
  <2>1. m \in 0..n /\ m + 1 \in 0..n /\ m + 1 \in 1..n /\ f[m + 1] = f[m] + nums[m + 1] /\ nums[m + 1] \in Nat
    BY <1>1, <1>2, <1>3
  <2>2. i \in 0..n /\ f[m] \in Nat /\ f[m + 1] \in Nat /\ f[i] \in Nat
    BY <1>0, <1>1, <2>1
  <2>3. f[m] <= f[m + 1]
    BY <2>1, <2>2
  <2>4. i <= m => f[i] <= f[m]
    BY <1>5
  <2> HIDE DEF T
  <2>5. i <= m + 1 => f[i] <= f[m + 1]
    BY <2>1, <2>2, <2>3, <2>4
  <2> QED
    BY <2>1, <2>5 DEF T
<1>6. \A m \in 0..n : m \in T
  <2> HIDE DEF T
  <2> QED
    BY <1>4, <1>5, SetInduction
<1> QED
  BY <1>1, <1>6 DEF f

LEMMA FlattenType ==
    ASSUME NEW S, NEW seqs \in Seq(Seq(S))
    PROVE  FlattenSeq(seqs) \in Seq(S)
<1> DEFINE n == Len(seqs)
           Q == Seq(S)
           Def(f) == [i \in 1..n |-> IF i = 1 THEN seqs[i] ELSE f[i - 1] \o seqs[i]]
           step == [i \in 1..n |-> [s \in Q |-> IF i = 1 THEN seqs[i] ELSE s \o seqs[i]]]
<1>1. CASE n = 0
  BY <1>1 DEF FlattenSeq
<1>2. CASE n # 0
  <2>1. n \in Nat /\ n > 0 /\ <<>> \in Q /\ \A i \in 1..n : seqs[i] \in Q
    BY <1>2
  <2>2. \A s, t \in Q : s \o t \in Q
    OBVIOUS
  <2>3. step \in Steps(n, Q)
    <3> HIDE DEF n, Q
    <3>1. \A i \in 1..n : \A s \in Q : (IF i = 1 THEN seqs[i] ELSE s \o seqs[i]) \in Q
      BY <2>1, <2>2
    <3> QED
      BY <3>1 DEF Steps
  <2>4. \A i \in 1..n : \A s \in Q : step[i][s] = IF i = 1 THEN seqs[i] ELSE s \o seqs[i]
    OBVIOUS
  <2>5. FlattenSeq(seqs) = (CHOOSE f : f = Def(f))[n]
    BY <1>2 DEF FlattenSeq
  <2> HIDE DEF step, Q, n
  <2>6. PICK g \in [0..n -> Q] : Follows(g, n, Q, <<>>, step)
    BY <2>1, <2>3, RecursionExists
  <2>7. \A i \in 1..n : g[i - 1] \in Q => g[i] = step[i][g[i - 1]]
    BY <2>6 DEF Follows
  <2> DEFINE h == [i \in 1..n |-> g[i]]
  <2>8. h = Def(h)
    <3>1. \A i \in 1..n : i - 1 \in 0..n
      BY <2>1
    <3>2. \A i \in 1..n : g[i] = IF i = 1 THEN seqs[i] ELSE g[i - 1] \o seqs[i]
      BY <2>4, <2>6, <2>7, <3>1
    <3>3. \A i \in 1..n : i # 1 => i - 1 \in 1..n
      BY <2>1
    <3>4. \A i \in 1..n : i # 1 => h[i - 1] = g[i - 1]
      BY <3>3
    <3> HIDE DEF h
    <3>5. \A i \in 1..n : g[i] = IF i = 1 THEN seqs[i] ELSE h[i - 1] \o seqs[i]
      BY <3>2, <3>4
    <3> QED
      BY <3>5 DEF h
  <2> DEFINE u == CHOOSE f : f = Def(f)
  <2>9. u = Def(u)
    <3> HIDE DEF h
    <3> QED
      BY <2>8
  <2> HIDE DEF u
  <2>10. \A i \in 1..n : u[i] = IF i = 1 THEN seqs[i] ELSE u[i - 1] \o seqs[i]
    BY <2>9
  <2> DEFINE T == {i \in 0..n : i = 0 \/ u[i] \in Q}
  <2> HIDE DEF Def
  <2>11. 0 \in T
    BY <2>1
  <2>12. ASSUME NEW i \in 0..(n - 1), i \in T PROVE i + 1 \in T
    <3>1. i + 1 \in 1..n /\ i + 1 \in 0..n /\ (i + 1) - 1 = i /\ (i = 0 \/ u[i] \in Q)
      BY <2>1, <2>12
    <3>2. u[i + 1] = IF i + 1 = 1 THEN seqs[i + 1] ELSE u[i] \o seqs[i + 1]
      BY <2>10, <3>1
    <3>3. seqs[i + 1] \in Q
      BY <2>1, <3>1
    <3>4. u[i + 1] \in Q
      BY <2>1, <2>2, <3>1, <3>2, <3>3
    <3> QED
      BY <3>1, <3>4
  <2>13. \A i \in 0..n : i \in T
    <3> HIDE DEF T
    <3> QED
      BY <2>1, <2>11, <2>12, SetInduction
  <2>14. u[n] \in Q
    BY <2>1, <2>13
  <2> QED
    BY <2>5, <2>14 DEF u, Q
<1> QED
  BY <1>1, <1>2

LEMMA SubSeqType ==
    ASSUME NEW S, NEW txt \in Seq(S), NEW m \in 1..Len(txt), NEW n \in 0..Len(txt)
    PROVE  SubSeq(txt, m, n) \in Seq(S)
<1>1. \A i \in m..n : txt[i] \in S
  OBVIOUS
<1> QED
  BY <1>1, SubSeqProperties

LEMMA StrippedType ==
    ASSUME NEW txt \in Seq(Glyphs)
    PROVE  Stripped(txt) \in Seq(Glyphs)
<1> DEFINE ink == {i \in DOMAIN txt : Visible(txt[i])}
<1>1. CASE ink = {}
  BY <1>1 DEF Stripped
<1>2. CASE ink # {}
  <2> DEFINE a == CHOOSE i \in ink : \A j \in ink : i <= j
             b == CHOOSE i \in ink : \A j \in ink : j <= i
  <2>1. ink \subseteq 1..Len(txt) /\ Len(txt) \in Nat
    OBVIOUS
  <2>2. Stripped(txt) = SubSeq(txt, a, b)
    BY <1>2 DEF Stripped
  <2> HIDE DEF ink
  <2>3. ink \subseteq Nat /\ ink \subseteq 0..Len(txt)
    BY <2>1
  <2>4. a \in ink
    <3>1. \E i \in ink : \A j \in ink : i <= j
      BY <1>2, <2>3, LeastNatural
    <3> QED
      BY <3>1
  <2>5. b \in ink
    <3>1. \E i \in ink : \A j \in ink : j <= i
      BY <1>2, <2>1, <2>3, GreatestNatural
    <3> QED
      BY <3>1
  <2> HIDE DEF a, b
  <2>6. a \in 1..Len(txt) /\ b \in 0..Len(txt)
    BY <2>1, <2>3, <2>4, <2>5
  <2>7. SubSeq(txt, a, b) \in Seq(Glyphs)
    BY <2>6, SubSeqType
  <2> QED
    BY <2>2, <2>7
<1> QED
  BY <1>1, <1>2

LEMMA CleanType ==
    ASSUME NEW txt \in Seq(Glyphs)
    PROVE  Clean(txt) \in Seq(Glyphs)
<1>1. \A t \in Seq(Glyphs) : \A set : Kept(t, set) \in Seq(Glyphs)
  BY KeptMeans
<1>2. \A t \in Seq(Glyphs) : Without(t) \in Seq(Glyphs)
  BY <1>1 DEF Without
<1>3. \A t \in Seq(Glyphs) : \A n, glyph : AtMost(n, glyph, t) \in Seq(Glyphs)
  BY <1>1 DEF AtMost
<1>4. \A t \in Seq(Glyphs) : Trimmed(t) \in Seq(Glyphs)
  BY <1>1 DEF Trimmed
<1> QED
  BY <1>2, <1>3, <1>4, StrippedType DEF Clean

LEMMA WrittenType ==
    ASSUME NEW f \in Seq(SheetType)
    PROVE  Written(f) \in Seq(Glyphs)
<1>1. \A i \in 1..Len(f) : f[i].written \in Seq(Glyphs)
  <2>1. \A i \in 1..Len(f) : f[i] \in SheetType
    OBVIOUS
  <2> QED
    BY <2>1 DEF SheetType
<1> DEFINE all == [i \in DOMAIN f |-> f[i].written]
<1>2. all \in Seq(Seq(Glyphs))
  BY <1>1
<1> HIDE DEF all
<1>3. FlattenSeq(all) \in Seq(Glyphs)
  BY <1>2, FlattenType
<1> QED
  BY <1>3 DEF Written, all

\* What an extractor returns are pages, and those that it flags are pages of the
\* file.
LEMMA ExtractedType ==
    ASSUME NEW f \in Seq(SheetType), NEW ps \in Extracted(f)
    PROVE  /\ ps \in Seq(PageType)
           /\ \A i \in 1..Len(ps) : ps[i].needs_ocr => i \in 1..Len(f)
<1>1. \A i \in 1..Len(f) : f[i].written \in Seq(Glyphs)
  <2>1. \A i \in 1..Len(f) : f[i] \in SheetType
    OBVIOUS
  <2> QED
    BY <2>1 DEF SheetType
<1>2. \A txt \in Seq(Glyphs) : Page(txt) \in PageType /\ ~Page(txt).needs_ocr
  BY DEF Page, PageType
<1>3. Scan \in PageType
  BY DEF Scan, PageType
<1>4. ASSUME NEW txt \in Seq(Glyphs), ps = <<Page(txt)>>
      PROVE  ps \in Seq(PageType) /\ \A i \in 1..Len(ps) : ~ps[i].needs_ocr
  <2>1. PICK p \in PageType : p = Page(txt) /\ ~p.needs_ocr
    BY <1>2
  <2>2. ps = <<p>>
    BY <1>4, <2>1
  <2>3. Len(ps) = 1 /\ ps[1] = p /\ ps \in Seq(PageType)
    BY <2>2
  <2>4. \A i \in 1..Len(ps) : i = 1
    BY <2>3
  <2> QED
    BY <2>1, <2>3, <2>4
<1>5. CASE ps \in Pdf(f)
  <2> DEFINE r == Read(f)
  <2>1. r \in Seq(SheetType) /\ Len(r) \in Nat /\ Len(r) <= Len(f)
        /\ \A i \in 1..Len(r) : r[i].written \in Seq(Glyphs)
    <3>1. PICK n \in 0..Len(f) : r = SubSeq(f, 1, n)
      <4>1. (IF Len(f) < MaxPages THEN Len(f) ELSE MaxPages) \in 0..Len(f)
        BY StepsAssumption
      <4> QED
        BY <4>1 DEF Read
    <3>2. \A i \in 1..n : f[i] \in SheetType
      OBVIOUS
    <3>3. r \in Seq(SheetType) /\ Len(r) = n
      BY <3>1, <3>2, SubSeqProperties
    <3> HIDE DEF r
    <3>4. \A i \in 1..Len(r) : r[i] \in SheetType
      BY <3>3
    <3> QED
      BY <3>1, <3>3, <3>4 DEF SheetType
  <2> HIDE DEF r
  <2>2. \A i \in 1..Len(r) : i \in 1..Len(f)
    BY <2>1
  <2>3. CASE ps = PyMuPdf(r)
    <3>1. ps = [i \in 1..Len(r) |-> IF r[i].scan \/ Blankish(r[i].written) THEN Scan ELSE Page(r[i].written)]
      BY <2>1, <2>3 DEF PyMuPdf
    <3>2. \A i \in 1..Len(r) : ps[i] \in PageType
      BY <1>2, <1>3, <2>1, <3>1
    <3>3. ps \in Seq(PageType) /\ Len(ps) = Len(r)
      BY <2>1, <3>1, <3>2
    <3> QED
      BY <2>2, <3>3
  <2>4. CASE ps = PdfPlumber(r)
    <3>1. ps = [i \in 1..Len(r) |-> Page(IF r[i].scan THEN <<>> ELSE r[i].written)]
      BY <2>1, <2>4 DEF PdfPlumber
    <3>a. <<>> \in Seq(Glyphs)
      OBVIOUS
    <3>b. \A i \in 1..Len(r) : (IF r[i].scan THEN <<>> ELSE r[i].written) \in Seq(Glyphs)
      BY <2>1, <3>a
    <3>2. \A i \in 1..Len(r) : Page(IF r[i].scan THEN <<>> ELSE r[i].written) \in PageType
      BY <1>2, <3>b
    <3>3. ps \in Seq(PageType) /\ Len(ps) = Len(r)
      BY <2>1, <3>1, <3>2
    <3> QED
      BY <2>2, <3>3
  <2> QED
    BY <1>5, <2>3, <2>4 DEF Pdf, r
<1>6. CASE ps \in Image(f)
  <2>1. PICK txt \in Recognised(Written(f)) : ps = <<Page(txt)>>
    BY <1>6 DEF Image
  <2>2. txt \in Seq(Glyphs)
    <3>1. PICK w \in Seq(Glyphs) : w = Written(f)
      BY WrittenType
    <3>2. txt = w \/ txt = <<>>
      BY <2>1, <3>1 DEF Recognised, Azure, Tesseract
    <3>3. <<>> \in Seq(Glyphs)
      OBVIOUS
    <3> QED
      BY <3>2, <3>3
  <2> QED
    BY <1>4, <2>1, <2>2
<1>7. CASE ps \in Excel(f)
  <2>1. ps = [i \in 1..Len(f) |-> Page(f[i].written)]
    BY <1>7 DEF Excel
  <2>2. \A i \in 1..Len(f) : ps[i] \in PageType
    BY <1>1, <1>2, <2>1
  <2>3. ps \in Seq(PageType) /\ Len(ps) = Len(f)
    BY <2>1, <2>2
  <2> QED
    BY <2>3
<1>8. CASE ps \in UNION {Docx(f), Csv(f), Html(f), Plain(f)}
  <2>1. ps = <<Page(Written(f))>>
    BY <1>8 DEF Docx, Csv, Html, Plain
  <2> QED
    BY <1>4, <2>1, WrittenType
<1> QED
  BY <1>5, <1>6, <1>7, <1>8 DEF Extracted

\* No text comes together that the counting of _find_page_for_offset does not
\* allow for.
LengthsOf(ps) == [i \in DOMAIN ps |-> Len(ps[i].text) + 2]

LEMMA LengthsType ==
    ASSUME NEW ps \in Seq(PageType)
    PROVE  LengthsOf(ps) \in Seq(Nat) /\ Len(LengthsOf(ps)) = Len(ps)
<1>1. \A i \in 1..Len(ps) : Len(ps[i].text) + 2 \in Nat
  <2>1. \A i \in 1..Len(ps) : ps[i] \in PageType
    OBVIOUS
  <2>2. \A i \in 1..Len(ps) : ps[i].text \in Seq(Glyphs)
    BY <2>1 DEF PageType
  <2> QED
    BY <2>2
<1> QED
  BY <1>1 DEF LengthsOf

LEMMA MergedFits ==
    ASSUME NEW ps \in Seq(PageType), NEW i \in 0..Len(ps)
    PROVE  Len(MergedUpto(ps)[i]) <= Sums(LengthsOf(ps))[i]
<1>1. PICK n \in Nat : n = Len(ps)
  OBVIOUS
<1> DEFINE s == Sums(LengthsOf(ps))
           m == MergedUpto(ps)
<1>2. s \in [0..n -> Nat] /\ s[0] = 0 /\ \A k \in 1..n : s[k] = s[k - 1] + LengthsOf(ps)[k]
  BY <1>1, LengthsType, SumsSteps
<1>3. m \in [0..n -> Seq(Glyphs)] /\ m[0] = <<>>
  BY <1>1, MergedSteps
<1>4. \A k \in 1..n : m[k] \in {m[k - 1], ps[k].text, m[k - 1] \o <<"line", "line">> \o ps[k].text}
  BY <1>1, MergedSteps
<1>5. \A k \in 1..n : ps[k].text \in Seq(Glyphs) /\ LengthsOf(ps)[k] = Len(ps[k].text) + 2
  <2>1. \A k \in 1..n : ps[k] \in PageType
    BY <1>1
  <2>2. DOMAIN ps = 1..n
    BY <1>1
  <2> QED
    BY <2>1, <2>2 DEF PageType, LengthsOf
<1> HIDE DEF s, m
<1> DEFINE T == {k \in 0..n : Len(m[k]) <= s[k]}
<1>6. 0 \in T
  BY <1>2, <1>3
<1>7. ASSUME NEW k \in 0..(n - 1), k \in T PROVE k + 1 \in T
  <2>1. k \in 0..n /\ k + 1 \in 0..n /\ k + 1 \in 1..n /\ (k + 1) - 1 = k
    BY <1>1
  <2>2. PICK a \in Seq(Glyphs) : a = m[k]
    BY <1>3, <2>1
  <2>3. PICK t \in Seq(Glyphs) : t = ps[k + 1].text
    BY <1>5, <2>1
  <2>4. s[k] \in Nat /\ s[k + 1] \in Nat /\ s[k + 1] = s[k] + (Len(t) + 2) /\ Len(a) <= s[k]
    BY <1>2, <1>5, <1>7, <2>1, <2>2, <2>3
  <2>5. m[k + 1] \in {a, t, a \o <<"line", "line">> \o t}
    BY <1>4, <2>1, <2>2, <2>3
  <2>6. Len(a \o <<"line", "line">> \o t) = Len(a) + 2 + Len(t)
    <3>1. PICK blank \in Seq(Glyphs) : blank = <<"line", "line">> /\ Len(blank) = 2
      <4>1. <<"line", "line">> \in Seq(Glyphs) /\ Len(<<"line", "line">>) = 2
        BY DEF Glyphs
      <4> QED
        BY <4>1
    <3>2. PICK ab \in Seq(Glyphs) : ab = a \o blank /\ Len(ab) = Len(a) + 2
      <4>1. a \o blank \in Seq(Glyphs) /\ Len(a \o blank) = Len(a) + Len(blank)
        OBVIOUS
      <4> QED
        BY <3>1, <4>1
    <3>3. Len(ab \o t) = Len(ab) + Len(t)
      OBVIOUS
    <3> QED
      BY <3>1, <3>2, <3>3
  <2>7. Len(a) \in Nat /\ Len(t) \in Nat
    OBVIOUS
  <2>8. Len(m[k + 1]) <= s[k + 1]
    BY <2>4, <2>5, <2>6, <2>7
  <2> QED
    BY <2>1, <2>8
<1>8. \A k \in 0..n : k \in T
  <2> HIDE DEF T
  <2> QED
    BY <1>6, <1>7, SetInduction
<1> QED
  BY <1>1, <1>8 DEF s, m

\* The page of an offset in the text is a page, and not after what follows the
\* offset.
LEMMA PageOfMeans ==
    ASSUME pages \in Seq(PageType), NEW at \in Nat, at < Len(Merged(pages))
    PROVE  /\ PageOf(at) \in 1..Len(pages)
           /\ \A i \in 1..Len(Merged(pages)) : at < i => PageOf(at) <= TruePage(i)
<1>1. PICK n \in Nat : n = Len(pages) /\ DOMAIN pages = 1..n
  OBVIOUS
<1> DEFINE s == Sums(LengthsOf(pages))
           m == MergedUpto(pages)
           found == {p \in 1..n : s[p] >= at}
<1>2. s \in [0..n -> Nat] /\ \A p \in 0..n : Len(m[p]) <= s[p]
  BY <1>1, LengthsType, SumsSteps, MergedFits
<1>3. m \in [0..n -> Seq(Glyphs)] /\ m[0] = <<>> /\ Merged(pages) = m[n]
  BY <1>1, MergedSteps DEF Merged
<1>4. PageOf(at) = IF found = {} THEN 0 ELSE CHOOSE p \in found : \A q \in found : p <= q
  BY <1>1 DEF PageOf, LengthsOf
<1>5. \A i : TruePage(i) = CHOOSE p \in 1..n : Len(m[p]) >= i /\ \A q \in 1..(p - 1) : Len(m[q]) < i
  BY <1>1 DEF TruePage
<1> HIDE DEF s, m
<1>6. \A p \in 0..n : s[p] \in Nat /\ Len(m[p]) \in Nat
  <2>1. \A p \in 0..n : s[p] \in Nat
    BY <1>2
  <2>2. \A p \in 0..n : m[p] \in Seq(Glyphs)
    BY <1>3
  <2>3. \A txt \in Seq(Glyphs) : Len(txt) \in Nat
    OBVIOUS
  <2> QED
    BY <2>1, <2>2, <2>3
<1>7. n \in found
  <2>1. n # 0
    <3>1. Len(<<>>) = 0
      OBVIOUS
    <3> QED
      BY <1>3, <3>1
  <2>2. n \in 1..n /\ n \in 0..n
    BY <2>1
  <2> QED
    BY <1>2, <1>3, <1>6, <2>2
<1>8. PageOf(at) \in found /\ \A q \in found : PageOf(at) <= q
  <2>1. found \subseteq Nat
    OBVIOUS
  <2> HIDE DEF found
  <2>2. \E p \in found : \A q \in found : p <= q
    BY <1>7, <2>1, LeastNatural
  <2> QED
    BY <1>4, <1>7, <2>2
<1>9. ASSUME NEW i \in 1..Len(Merged(pages)), at < i PROVE PageOf(at) <= TruePage(i)
  <2> DEFINE long == {p \in 1..n : Len(m[p]) >= i}
  <2>1. n \in long /\ long \subseteq Nat
    BY <1>3, <1>6, <1>7
  <2>2. \E p \in long : \A q \in long : p <= q
    <3> HIDE DEF long
    <3> QED
      BY <2>1, LeastNatural
  <2>3. \E p \in 1..n : Len(m[p]) >= i /\ \A q \in 1..(p - 1) : Len(m[q]) < i
    <3>1. PICK p \in long : \A q \in long : p <= q
      BY <2>2
    <3>2. ASSUME NEW q \in 1..(p - 1) PROVE Len(m[q]) < i
      <4>1. q \in 1..n /\ q \in 0..n /\ ~(p <= q)
        BY <3>1
      <4>2. q \notin long
        BY <3>1, <4>1
      <4> QED
        BY <1>6, <4>1, <4>2
    <3> QED
      BY <3>1, <3>2
  <2>4. TruePage(i) \in 1..n /\ Len(m[TruePage(i)]) >= i
    BY <1>5, <2>3
  <2>5. TruePage(i) \in found
    BY <1>2, <1>6, <1>9, <2>4
  <2> QED
    BY <1>8, <2>5
<1> QED
  BY <1>1, <1>8, <1>9

LEMMA PageOfType ==
    ASSUME pages \in Seq(PageType), NEW at
    PROVE  PageOf(at) \in 0..Len(pages)
<1> DEFINE ends == Sums([i \in DOMAIN pages |-> Len(pages[i].text) + 2])
           found == {i \in DOMAIN pages : ends[i] >= at}
<1>1. found \subseteq Nat /\ 0 \in 0..Len(pages) /\ \A p \in found : p \in 0..Len(pages)
  OBVIOUS
<1>2. PageOf(at) = IF found = {} THEN 0 ELSE CHOOSE p \in found : \A q \in found : p <= q
  BY DEF PageOf
<1> HIDE DEF found
<1>3. CASE found = {}
  BY <1>1, <1>2, <1>3
<1>4. CASE found # {}
  <2>2. \E p \in found : \A q \in found : p <= q
    BY <1>1, <1>4, LeastNatural
  <2>3. PageOf(at) \in found
    BY <1>2, <1>4, <2>2
  <2> QED
    BY <1>1, <2>3
<1> QED
  BY <1>3, <1>4

LEMMA SentencesType ==
    ASSUME NEW txt \in Seq(Glyphs)
    PROVE  Sentences(txt) \in Seq(Seq(Glyphs) \ {<<>>})
<1> DEFINE set == {i \in DOMAIN txt : i = Len(txt) \/ (txt[i] = "stop" /\ ~Visible(txt[i + 1]))}
           ends == InOrder(set, Len(txt))
           from == [k \in DOMAIN ends |-> IF k = 1 THEN 1 ELSE ends[k - 1] + 1]
           all == [k \in DOMAIN ends |-> Stripped(SubSeq(txt, from[k], ends[k]))]
           inked == {k \in DOMAIN all : all[k] # <<>>}
<1>0. Sentences(txt) = Kept(all, inked)
  BY DEF Sentences
<1>1. PICK n \in Nat : n = Len(txt)
  OBVIOUS
<1>2. Ordered(ends, set, n)
  BY <1>1, InOrderMeans
<1> HIDE DEF set, ends
<1>3. PICK m \in Nat : m = Len(ends) /\ DOMAIN ends = 1..m
  BY <1>2 DEF Ordered
<1>4. /\ \A k \in 1..m : ends[k] \in 1..n
      /\ \A j, k \in 1..m : j < k => ends[j] < ends[k]
  BY <1>2, <1>3 DEF Ordered
<1>5. ASSUME NEW k \in 1..m PROVE all[k] \in Seq(Glyphs)
  <2>1. from[k] = IF k = 1 THEN 1 ELSE ends[k - 1] + 1
    BY <1>3
  <2>2. from[k] \in 1..n
    <3>1. CASE k = 1
      BY <1>4, <2>1, <3>1
    <3>2. CASE k # 1
      <4>1. k - 1 \in 1..m /\ k - 1 < k
        BY <3>2
      <4>2. ends[k - 1] \in 1..n /\ ends[k] \in 1..n /\ ends[k - 1] < ends[k]
        BY <1>4, <4>1
      <4> HIDE DEF from
      <4> QED
        BY <2>1, <3>2, <4>2
    <3> QED
      BY <3>1, <3>2
  <2>3. all[k] = Stripped(SubSeq(txt, from[k], ends[k]))
    BY <1>3
  <2> HIDE DEF from, all
  <2>4. ends[k] \in 0..n
    BY <1>4
  <2>5. SubSeq(txt, from[k], ends[k]) \in Seq(Glyphs)
    BY <1>1, <2>2, <2>4, SubSeqType
  <2> QED
    BY <2>3, <2>5, StrippedType
<1>6. all \in [1..m -> Seq(Glyphs)] /\ DOMAIN all = 1..m
  BY <1>3, <1>5
<1> HIDE DEF all, from
<1>7. all \in Seq(Seq(Glyphs)) /\ Len(all) = m
  BY <1>6
<1>8. PICK s : s = Sentences(txt)
  OBVIOUS
<1>9. s \in Seq(Seq(Glyphs)) /\ \A k \in 1..Len(s) : \E i \in 1..Len(all) : i \in inked /\ s[k] = all[i]
  <2> DEFINE Q == Seq(Glyphs)
  <2>1. all \in Seq(Q) /\ s = Kept(all, inked)
    BY <1>0, <1>7, <1>8
  <2> HIDE DEF inked, Q
  <2>a. /\ Kept(all, inked) \in Seq(Q)
        /\ \A k \in 1..Len(Kept(all, inked)) :
              \E i \in 1..Len(all) : i \in inked /\ Kept(all, inked)[k] = all[i]
    <3>1. all \in Seq(Q)
      BY <2>1
    <3>2. \A seq \in Seq(Q) : \A places : Kept(seq, places) \in Seq(Q)
              /\ \A k \in 1..Len(Kept(seq, places)) :
                    \E i \in 1..Len(seq) : i \in places /\ Kept(seq, places)[k] = seq[i]
      BY KeptMeans
    <3> QED
      BY <3>1, <3>2
  <2>2. s \in Seq(Q) /\ \A k \in 1..Len(s) : \E i \in 1..Len(all) : i \in inked /\ s[k] = all[i]
    BY <2>1, <2>a
  <2> QED
    BY <2>2 DEF Q
<1>10. \A k \in 1..Len(s) : s[k] \in Seq(Glyphs) \ {<<>>}
  <2>1. \A k \in 1..Len(s) : s[k] \in Seq(Glyphs)
    BY <1>9
  <2>2. \A k \in 1..Len(s) : s[k] # <<>>
    BY <1>9
  <2> QED
    BY <2>1, <2>2
<1>11. s \in Seq(Seq(Glyphs) \ {<<>>})
  <2>1. s \in [1..Len(s) -> Seq(Glyphs) \ {<<>>}] /\ Len(s) \in Nat
    <3>1. Len(s) \in Nat /\ s = [k \in 1..Len(s) |-> s[k]]
      BY <1>9
    <3> QED
      BY <1>10, <3>1
  <2> QED
    BY <2>1, SeqDef
<1> QED
  BY <1>8, <1>11

LEMMA GroupsType ==
    ASSUME NEW sentences \in Seq(Seq(Glyphs) \ {<<>>}), sentences # <<>>,
           NEW breakpoints \in SUBSET (2..Len(sentences))
    PROVE  /\ Groups(sentences, breakpoints) \in Seq(SpanType)
           /\ \A k \in 1..Len(Groups(sentences, breakpoints)) :
                  LET g == Groups(sentences, breakpoints)[k] IN g.page = 0 /\ g.from = 0 /\ g.to > 0
<1> DEFINE starts == InOrder({1} \union breakpoints, Len(sentences))
           upto == [k \in DOMAIN starts |-> IF k = Len(starts) THEN Len(sentences) ELSE starts[k + 1] - 1]
           lengths == [k \in DOMAIN sentences |-> Len(sentences[k]) + 1]
           ends == Sums(lengths)
           size == [k \in DOMAIN starts |-> ends[upto[k]] - ends[starts[k] - 1] - 1]
           groups == Groups(sentences, breakpoints)
<1>a. \A x, y, z, l \in Nat : z = y + l /\ z <= x /\ l >= 2 => x - y - 1 \in Nat /\ x - y - 1 > 0
  OBVIOUS
<1>0. groups = [k \in DOMAIN starts |-> [page |-> 0, from |-> 0, to |-> size[k]]]
  BY DEF Groups
<1>1. PICK n \in Nat : n = Len(sentences) /\ DOMAIN sentences = 1..n
  OBVIOUS
<1>2. lengths \in Seq(Nat) /\ Len(lengths) = n /\ \A k \in 1..n : lengths[k] \in Nat /\ lengths[k] >= 2
  <2>1. \A k \in 1..n : sentences[k] \in Seq(Glyphs) /\ sentences[k] # <<>>
    <3>1. \A k \in 1..n : sentences[k] \in Seq(Glyphs) \ {<<>>}
      BY <1>1
    <3> QED
      BY <3>1
  <2>2. \A k \in 1..n : Len(sentences[k]) \in Nat \ {0}
    BY <2>1, EmptySeq
  <2>3. \A k \in 1..n : lengths[k] = Len(sentences[k]) + 1
    BY <1>1
  <2>4. DOMAIN lengths = 1..n /\ lengths = [k \in 1..n |-> lengths[k]]
    BY <1>1
  <2> HIDE DEF lengths
  <2>5. \A k \in 1..n : lengths[k] \in Nat /\ lengths[k] >= 2
    BY <2>2, <2>3
  <2>6. lengths \in [1..n -> Nat]
    BY <2>4, <2>5
  <2> QED
    BY <2>5, <2>6
<1> HIDE DEF lengths
<1>3. /\ ends \in [0..n -> Nat] /\ \A k \in 1..n : ends[k] = ends[k - 1] + lengths[k]
      /\ \A i, j \in 0..n : i <= j => ends[i] <= ends[j]
  BY <1>2, SumsSteps, SumsGrow
<1> HIDE DEF ends
<1>4. Ordered(starts, {1} \union breakpoints, n)
  BY <1>1, InOrderMeans
<1> HIDE DEF starts
<1>5. PICK m \in Nat : m = Len(starts) /\ DOMAIN starts = 1..m
  BY <1>4 DEF Ordered
<1>6. /\ \A k \in 1..m : starts[k] \in 1..n
      /\ \A j, k \in 1..m : j < k => starts[j] < starts[k]
  BY <1>4, <1>5 DEF Ordered
<1>7. ASSUME NEW k \in 1..m PROVE size[k] \in Nat /\ size[k] > 0
  <2>1. upto[k] = IF k = m THEN n ELSE starts[k + 1] - 1
    BY <1>1, <1>5
  <2>2. upto[k] \in 0..n /\ starts[k] <= upto[k]
    <3> HIDE DEF upto
    <3>1. CASE k = m
      BY <1>6, <2>1, <3>1
    <3>2. CASE k # m
      <4>1. k + 1 \in 1..m /\ k < k + 1
        BY <3>2
      <4>2. starts[k] \in 1..n /\ starts[k + 1] \in 1..n /\ starts[k] < starts[k + 1]
        BY <1>6, <4>1
      <4> QED
        BY <2>1, <3>2, <4>2
    <3> QED
      BY <3>1, <3>2
  <2>3. size[k] = ends[upto[k]] - ends[starts[k] - 1] - 1
    BY <1>5
  <2> HIDE DEF size, upto
  <2>4. PICK a \in 1..n : a = starts[k]
    BY <1>6
  <2>5. a \in 0..n /\ a - 1 \in 0..n /\ ends[a] = ends[a - 1] + lengths[a] /\ lengths[a] \in Nat /\ lengths[a] >= 2
    BY <1>2, <1>3
  <2>6. ends[a] <= ends[upto[k]] /\ ends[a] \in Nat /\ ends[a - 1] \in Nat /\ ends[upto[k]] \in Nat
    BY <1>3, <2>2, <2>4, <2>5
  <2>7. PICK x, y, z, l \in Nat :
            x = ends[upto[k]] /\ y = ends[a - 1] /\ z = ends[a] /\ l = lengths[a]
            /\ z = y + l /\ z <= x /\ l >= 2
    BY <2>5, <2>6
  <2>8. size[k] = x - y - 1
    BY <2>3, <2>4, <2>7
  <2>9. x - y - 1 \in Nat /\ x - y - 1 > 0
    BY <1>a, <2>7
  <2> QED
    BY <2>8, <2>9
<1>8. \A k \in 1..m : groups[k] = [page |-> 0, from |-> 0, to |-> size[k]]
  BY <1>0, <1>5
<1>9. groups = [k \in 1..m |-> groups[k]]
  BY <1>0, <1>5
<1> HIDE DEF groups, size
<1>10. ASSUME NEW k \in 1..m
      PROVE  groups[k] \in SpanType /\ groups[k].page = 0 /\ groups[k].from = 0 /\ groups[k].to > 0
  <2>1. PICK z \in Nat : z = size[k] /\ z > 0
    BY <1>7
  <2>2. groups[k] = [page |-> 0, from |-> 0, to |-> z]
    BY <1>8, <2>1
  <2> QED
    BY <2>1, <2>2 DEF SpanType
<1>11. groups \in [1..m -> SpanType]
  BY <1>9, <1>10
<1>12. groups \in Seq(SpanType) /\ Len(groups) = m
  BY <1>11
<1> QED
  BY <1>10, <1>12 DEF groups

---------------------------------------------------------------------------
(* Steps of the text pipeline.                                             *)

LEMMA PageStays ==
    ASSUME pages' = pages
    PROVE  \A at : PageOf(at)' = PageOf(at)
  BY DEF PageOf

\* From pieces to after at most one piece is new.
Grown(after, piece) ==
    /\ after \in Seq(PieceType)
    /\ \A k \in DOMAIN pieces : k \in DOMAIN after /\ after[k] = pieces[k]
    /\ \A k \in DOMAIN after : k \in DOMAIN pieces \/ (after[k] = piece /\ piece.from < piece.to)
Has(after, piece) == after # pieces /\ \E k \in DOMAIN after : after[k] = piece

LEMMA AppendGrown ==
    ASSUME pieces \in Seq(PieceType), NEW piece \in PieceType, piece.from < piece.to
    PROVE  Grown(Append(pieces, piece), piece) /\ Has(Append(pieces, piece), piece)
<1>1. PICK n \in Nat : n = Len(pieces) /\ DOMAIN pieces = 1..n
  OBVIOUS
<1>2. PICK a : a = Append(pieces, piece)
  OBVIOUS
<1>3. /\ a \in Seq(PieceType) /\ Len(a) = n + 1 /\ a[n + 1] = piece
      /\ \A k \in 1..n : a[k] = pieces[k]
  BY <1>1, <1>2, AppendProperties
<1>4. DOMAIN a = 1..(n + 1)
  BY <1>3
<1>5. \A k \in 1..(n + 1) : k \in 1..n \/ k = n + 1
  OBVIOUS
<1>6. n + 1 \in 1..(n + 1) /\ \A k \in 1..n : k \in 1..(n + 1)
  OBVIOUS
<1>7. Grown(a, piece)
  BY <1>1, <1>3, <1>4, <1>5, <1>6 DEF Grown
<1>8. a # pieces
  BY <1>1, <1>3
<1>9. Has(a, piece)
  BY <1>3, <1>4, <1>6, <1>8 DEF Has
<1> QED
  BY <1>2, <1>7, <1>9

LEMMA PieceIs ==
    \A kind \in Kinds : \A from, to, page \in Nat :
        /\ Piece(kind, from, to, page) \in PieceType
        /\ Piece(kind, from, to, page).kind = kind /\ Piece(kind, from, to, page).page = page
        /\ Piece(kind, from, to, page).from = from /\ Piece(kind, from, to, page).to = to
  BY DEF Piece, PieceType, Kinds

\* What Cut does.
LEMMA CutMeans ==
    ASSUME pieces \in Seq(PieceType), NEW txt \in Seq(Glyphs), NEW kind \in Kinds,
           NEW from \in Nat, NEW to \in Nat, from <= to, to <= Len(txt), NEW page \in Nat
    PROVE  /\ Grown(Cut(txt, kind, from, to, page), Piece(kind, from, to, page))
           /\ \A i \in 1..Len(txt) : from < i /\ i <= to /\ Visible(txt[i]) =>
                  Has(Cut(txt, kind, from, to, page), Piece(kind, from, to, page))
<1> DEFINE part == SubSeq(txt, from + 1, to)
<1>0. PICK n \in Nat : n = Len(txt) /\ DOMAIN txt = 1..n
  OBVIOUS
<1> DEFINE p == Piece(kind, from, to, page)
<1>1. p \in PieceType /\ p.from = from /\ p.to = to
  BY PieceIs
<1> HIDE DEF p
<1>2. Cut(txt, kind, from, to, page) = IF Blankish(part) THEN pieces ELSE Append(pieces, p)
  BY DEF Cut, p
<1>3. Len(part) = to - from /\ part \in Seq(Glyphs) /\ \A j \in 1..(to - from) : part[j] = txt[from + j]
  <2>1. PICK a \in Nat : a = from + 1
    OBVIOUS
  <2>2. \A i \in a..to : txt[i] \in Glyphs
    BY <1>0, <2>1
  <2>3. a \in 1..(Len(txt) + 1) /\ to \in (a - 1)..Len(txt)
    BY <1>0, <2>1
  <2>4. /\ SubSeq(txt, a, to) \in Seq(Glyphs)
        /\ Len(SubSeq(txt, a, to)) = IF a <= to THEN to - a + 1 ELSE 0
        /\ \A j \in 1..(to - a + 1) : SubSeq(txt, a, to)[j] = txt[a + j - 1]
    BY <2>2, SubSeqProperties
  <2>5. to - a + 1 = to - from /\ (a <= to \/ to - from = 0)
    BY <2>1
  <2>6. \A j \in 1..(to - from) : a + j - 1 = from + j
    BY <2>1
  <2> QED
    BY <2>1, <2>4, <2>5, <2>6
<1> HIDE DEF part
<1>4. DOMAIN part = 1..(to - from)
  BY <1>3
<1>5. CASE Blankish(part)
  <2>1. Grown(pieces, p)
    BY DEF Grown
  <2>2. ASSUME NEW i \in 1..Len(txt), from < i, i <= to, Visible(txt[i]) PROVE FALSE
    <3>1. i - from \in 1..(to - from) /\ from + (i - from) = i
      BY <2>2
    <3>2. part[i - from] = txt[i]
      BY <1>3, <3>1
    <3> QED
      BY <1>4, <1>5, <2>2, <3>1, <3>2 DEF Blankish
  <2> QED
    BY <1>2, <1>5, <2>1, <2>2 DEF p
<1>6. CASE ~Blankish(part)
  <2>1. from < to
    BY <1>4, <1>6 DEF Blankish
  <2>2. Grown(Append(pieces, p), p) /\ Has(Append(pieces, p), p)
    BY <1>1, <2>1, AppendGrown
  <2> QED
    BY <1>2, <1>6, <2>2 DEF p
<1> QED
  BY <1>5, <1>6

\* What a new piece changes: pieces that were there are there, and hold the same.
LEMMA GrownPieces ==
    ASSUME TextInv, UNCHANGED <<pages, strategy, full>>, NEW piece \in PieceType,
           Grown(pieces', piece), piece.from < piece.to => PieceOf(piece)
    PROVE  /\ pieces' \in Seq(PieceType)
           /\ (\A k \in DOMAIN pieces : PieceOf(pieces[k]))'
           /\ \A i : InPiece(i) => InPiece(i)'
           /\ \A p, i : InPieceOf(p, i) => InPieceOf(p, i)'
<1>1. /\ pieces' \in Seq(PieceType)
      /\ \A k \in DOMAIN pieces : k \in DOMAIN pieces' /\ pieces'[k] = pieces[k]
      /\ \A k \in DOMAIN pieces' : k \in DOMAIN pieces \/ (pieces'[k] = piece /\ piece.from < piece.to)
  BY DEF Grown
<1>2. \A at : PageOf(at)' = PageOf(at)
  BY PageStays
<1>3. \A c : PieceOf(c) => PieceOf(c)'
  BY <1>2 DEF PieceOf
<1>4. \A k \in DOMAIN pieces : PieceOf(pieces[k])
  BY DEF TextInv
<1>5. \A k \in DOMAIN pieces' : PieceOf(pieces'[k])
  BY <1>1, <1>4
<1>6. (\A k \in DOMAIN pieces : PieceOf(pieces[k]))'
  BY <1>3, <1>5
<1>7. \A i : InPiece(i) => InPiece(i)'
  BY <1>1 DEF InPiece, Within
<1>8. \A p, i : InPieceOf(p, i) => InPieceOf(p, i)'
  BY <1>1 DEF InPieceOf, Within
<1> QED
  BY <1>1, <1>6, <1>7, <1>8

\* Until the chunker begins there is nothing but types to see to.
LEMMA BeforeChunking ==
    ASSUME TextTypes', stage' \notin Begun, offset' = 0, spans' = <<>>, pieces' = <<>>,
           stage' = "extracted" => \A i \in DOMAIN pages' : pages'[i].needs_ocr => i \in DOMAIN file'
    PROVE  TextInv'
  BY DEF TextInv, StageInv, FixedInv, FamilyInv, RecursiveInv, Begun

LEMMA TextInitInv == TextInit => TextInv
<1>1. ASSUME TextInit PROVE TextTypes /\ StageInv /\ stage \notin Begun
  BY <1>1 DEF TextInit, TextTypes, StageInv, Begun, Strategies
<1>2. ASSUME TextInit PROVE DOMAIN spans = {} /\ DOMAIN pieces = {}
  BY <1>2 DEF TextInit
<1> QED
  BY <1>1, <1>2 DEF TextInv, FixedInv, FamilyInv, RecursiveInv

LEMMA ExtractionKeeps == ASSUME TextInv, Extraction PROVE TextInv'
<1>1. /\ stage = "uploaded" /\ offset' = 0 /\ spans' = <<>> /\ pieces' = <<>>
      /\ stage' \in {"extracted", "failed"} /\ stage' \notin Begun
  BY DEF Extraction, TextInv, StageInv, Begun
<1>2. strategy' \in Strategies /\ full' \in Seq(Glyphs) /\ spans' \in Seq(SpanType) /\ pieces' \in Seq(PieceType)
  BY DEF Extraction, TextInv, TextTypes
<1>3. CASE stage' = "failed"
  <2>1. file' \in Seq(SheetType) /\ pages' \in Seq(PageType)
    BY <1>3 DEF Extraction, TextInv, TextTypes
  <2>2. TextTypes'
    BY <1>1, <1>2, <1>3, <2>1 DEF TextTypes
  <2> QED
    BY <1>1, <1>3, <2>2, BeforeChunking
<1>4. CASE stage' = "extracted"
  <2>1. PICK f \in Files : file' = f /\ pages' \in Extracted(f)
    BY <1>4 DEF Extraction
  <2>2. f \in Seq(SheetType)
    BY FilesAssumption DEF SheetType
  <2>3. PICK ps \in Extracted(f) : ps = pages'
    BY <2>1
  <2>4. ps \in Seq(PageType) /\ \A i \in 1..Len(ps) : ps[i].needs_ocr => i \in 1..Len(f)
    BY <2>2, ExtractedType
  <2>5. DOMAIN ps = 1..Len(ps) /\ DOMAIN f = 1..Len(f)
    BY <2>2, <2>4
  <2>6. TextTypes'
    BY <1>1, <1>2, <1>4, <2>1, <2>2, <2>3, <2>4 DEF TextTypes
  <2> QED
    BY <1>1, <2>1, <2>3, <2>4, <2>5, <2>6, BeforeChunking
<1> QED
  BY <1>1, <1>3, <1>4

LEMMA RecognitionKeeps == ASSUME TextInv, Recognition PROVE TextInv'
<1>1. /\ stage = "extracted" /\ offset' = 0 /\ spans' = <<>> /\ pieces' = <<>>
      /\ stage' = "read" /\ stage' \notin Begun
  BY DEF Recognition, TextInv, StageInv, Begun
<1>2. /\ strategy' \in Strategies /\ full' \in Seq(Glyphs) /\ spans' \in Seq(SpanType) /\ pieces' \in Seq(PieceType)
      /\ file' \in Seq(SheetType)
  BY DEF Recognition, TextInv, TextTypes
<1>3. PICK n \in Nat : n = Len(pages) /\ DOMAIN pages = 1..n /\ \A i \in 1..n : pages[i] \in PageType
  BY DEF TextInv, TextTypes
<1>4. ASSUME NEW i \in 1..n PROVE Reread(i) \subseteq PageType
  <2>1. CASE pages[i].needs_ocr
    <3>1. file[i].written \in Seq(Glyphs)
      <4>1. i \in DOMAIN file /\ file \in Seq(SheetType)
        BY <1>1, <1>3, <2>1 DEF TextInv, StageInv, TextTypes
      <4>2. file[i] \in SheetType
        BY <4>1
      <4> QED
        BY <4>2 DEF SheetType
    <3>2. PICK w \in Seq(Glyphs) : w = file[i].written
      BY <3>1
    <3>3. <<>> \in Seq(Glyphs)
      OBVIOUS
    <3>4. \A txt \in Recognised(w) : txt \in Seq(Glyphs)
      BY <3>2, <3>3 DEF Recognised, Azure, Tesseract
    <3>5. \A txt \in Recognised(w) : Page(txt) \in PageType
      BY <3>4 DEF Page, PageType
    <3> QED
      BY <1>3, <3>2, <3>5 DEF Reread
  <2>2. CASE ~pages[i].needs_ocr
    BY <1>3, <2>2 DEF Reread
  <2> QED
    BY <2>1, <2>2
<1>5. pages' \in Seq(PageType)
  <2>1. DOMAIN pages' = 1..n /\ pages' = [i \in 1..n |-> pages'[i]] /\ \A i \in 1..n : pages'[i] \in Reread(i)
    BY <1>3 DEF Recognition
  <2>2. \A i \in 1..n : pages'[i] \in PageType
    BY <1>4, <2>1
  <2>3. pages' \in [1..n -> PageType]
    BY <2>1, <2>2
  <2> QED
    BY <2>3
<1>6. TextTypes'
  BY <1>1, <1>2, <1>5 DEF TextTypes
<1> QED
  BY <1>1, <1>6, BeforeChunking

LEMMA CleaningKeeps == ASSUME TextInv, Cleaning PROVE TextInv'
<1>1. /\ stage = "read" /\ offset' = 0 /\ spans' = <<>> /\ pieces' = <<>>
      /\ stage' = "cleaned" /\ stage' \notin Begun
  BY DEF Cleaning, TextInv, StageInv, Begun
<1>2. /\ strategy' \in Strategies /\ full' \in Seq(Glyphs) /\ spans' \in Seq(SpanType) /\ pieces' \in Seq(PieceType)
      /\ file' \in Seq(SheetType)
  BY DEF Cleaning, TextInv, TextTypes
<1>3. PICK n \in Nat : n = Len(pages) /\ DOMAIN pages = 1..n /\ \A i \in 1..n : pages[i] \in PageType
  BY DEF TextInv, TextTypes
<1>4. ASSUME NEW i \in 1..n PROVE [pages[i] EXCEPT !.text = Clean(pages[i].text)] \in PageType
  <2>1. pages[i].text \in Seq(Glyphs)
    BY <1>3 DEF PageType
  <2>2. Clean(pages[i].text) \in Seq(Glyphs)
    BY <2>1, CleanType
  <2> QED
    BY <1>3, <2>2 DEF PageType
<1>5. pages' \in [1..n -> PageType]
  BY <1>3, <1>4 DEF Cleaning
<1>6. pages' \in Seq(PageType)
  BY <1>5
<1>7. TextTypes'
  BY <1>1, <1>2, <1>6 DEF TextTypes
<1> QED
  BY <1>1, <1>7, BeforeChunking

LEMMA MergedType ==
    ASSUME NEW ps \in Seq(PageType)
    PROVE  Merged(ps) \in Seq(Glyphs)
<1>1. MergedUpto(ps) \in [0..Len(ps) -> Seq(Glyphs)]
  BY MergedSteps
<1>2. Len(ps) \in 0..Len(ps)
  OBVIOUS
<1> QED
  BY <1>1, <1>2 DEF Merged

\* The spans that the recursive chunker starts with: the pages that have text.
PageSpans(ps) == [i \in DOMAIN ps |-> [page |-> i, from |-> 0, to |-> Len(ps[i].text)]]
Inked(ps) == {i \in DOMAIN ps : ps[i].text # <<>>}

LEMMA PageSpansAre ==
    ASSUME NEW ps \in Seq(PageType)
    PROVE  /\ PageSpans(ps) \in Seq(SpanType) /\ Len(PageSpans(ps)) = Len(ps)
           /\ \A i \in 1..Len(ps) : /\ PageSpans(ps)[i].page = i /\ PageSpans(ps)[i].from = 0
                                    /\ PageSpans(ps)[i].to = Len(ps[i].text)
<1>1. PICK n \in Nat : n = Len(ps) /\ DOMAIN ps = 1..n
  OBVIOUS
<1>2. \A i \in 1..n : ps[i].text \in Seq(Glyphs)
  <2>1. \A i \in 1..n : ps[i] \in PageType
    BY <1>1
  <2> QED
    BY <2>1 DEF PageType
<1>3. \A i \in 1..n : Len(ps[i].text) \in Nat
  BY <1>2
<1>4. PageSpans(ps) = [i \in 1..n |-> [page |-> i, from |-> 0, to |-> Len(ps[i].text)]]
  BY <1>1 DEF PageSpans
<1>5. PageSpans(ps) \in [1..n -> SpanType]
  BY <1>3, <1>4 DEF SpanType
<1>6. PageSpans(ps) \in Seq(SpanType) /\ Len(PageSpans(ps)) = n
  BY <1>5
<1> QED
  BY <1>1, <1>4, <1>6

LEMMA DividedPages ==
    ASSUME NEW ps \in Seq(PageType), NEW texts, texts = Kept(PageSpans(ps), Inked(ps))
    PROVE  /\ texts \in Seq(SpanType)
           /\ \A k \in DOMAIN texts : /\ texts[k].page \in DOMAIN ps /\ texts[k].from = 0
                                      /\ texts[k].to = Len(ps[texts[k].page].text)
           /\ \A i \in DOMAIN ps : ps[i].text # <<>> => \E k \in DOMAIN texts : texts[k].page = i
<1>1. PICK n \in Nat : n = Len(ps) /\ DOMAIN ps = 1..n
  OBVIOUS
<1>2. PICK all \in Seq(SpanType) : all = PageSpans(ps) /\ Len(all) = n
  BY <1>1, PageSpansAre
<1>3. \A i \in 1..n : all[i].page = i /\ all[i].from = 0 /\ all[i].to = Len(ps[i].text)
  BY <1>1, <1>2, PageSpansAre
<1>4. \A i : i \in Inked(ps) <=> i \in 1..n /\ ps[i].text # <<>>
  BY <1>1 DEF Inked
<1>5. /\ Kept(all, Inked(ps)) \in Seq(SpanType)
      /\ \A k \in 1..Len(Kept(all, Inked(ps))) :
            \E i \in 1..Len(all) : i \in Inked(ps) /\ Kept(all, Inked(ps))[k] = all[i]
      /\ \A i \in 1..Len(all) : i \in Inked(ps) =>
            \E k \in 1..Len(Kept(all, Inked(ps))) : Kept(all, Inked(ps))[k] = all[i]
  BY KeptMeans
<1>6. texts = Kept(all, Inked(ps))
  BY <1>2
<1>7. /\ texts \in Seq(SpanType)
      /\ \A k \in 1..Len(texts) : \E i \in 1..n : i \in Inked(ps) /\ texts[k] = all[i]
      /\ \A i \in 1..n : i \in Inked(ps) => \E k \in 1..Len(texts) : texts[k] = all[i]
  BY <1>2, <1>5, <1>6
<1>8. DOMAIN texts = 1..Len(texts)
  BY <1>7
<1>9. ASSUME NEW k \in 1..Len(texts)
       PROVE  texts[k].page \in DOMAIN ps /\ texts[k].from = 0 /\ texts[k].to = Len(ps[texts[k].page].text)
  <2>1. PICK i \in 1..n : texts[k] = all[i]
    BY <1>7
  <2>2. texts[k].page = i /\ texts[k].from = 0 /\ texts[k].to = Len(ps[i].text)
    BY <1>3, <2>1
  <2> QED
    BY <1>1, <2>2
<1>10. ASSUME NEW i \in 1..n, ps[i].text # <<>> PROVE \E k \in 1..Len(texts) : texts[k].page = i
  <2>1. i \in Inked(ps)
    BY <1>4, <1>10
  <2> QED
    BY <1>3, <1>7, <2>1
<1> QED
  BY <1>1, <1>7, <1>8, <1>9, <1>10

LEMMA ChunkingKeeps == ASSUME TextInv, Chunking PROVE TextInv'
<1>1. /\ stage = "cleaned" /\ offset' = 0 /\ pieces' = <<>> /\ file' = file /\ pages' = pages
      /\ stage' \in Begun /\ stage' \in {"chunking", "dividing"} /\ stage' # "chunked"
      /\ full' = Merged(pages) /\ spans' \in Divided(strategy')
      /\ stage' = IF strategy' \in {"fixed", "parent_child"} THEN "chunking" ELSE "dividing"
  BY DEF Chunking, TextInv, StageInv, Begun
<1>2. strategy' \in Strategies
  BY DEF Chunking, Chunkers, FromSemantic, FromRecursive, Strategies
<1>3. file' \in Seq(SheetType) /\ pages \in Seq(PageType) /\ pieces' \in Seq(PieceType)
  BY <1>1 DEF TextInv, TextTypes
<1>4. Merged(pages) \in Seq(Glyphs)
  BY <1>3, MergedType
<1>5. full' \in Seq(Glyphs) /\ DOMAIN full' = 1..Len(full') /\ DOMAIN pieces' = {}
  BY <1>1, <1>4
<1>6. StageInv' /\ TextTypes' /\ (\A k \in DOMAIN spans : SpanOf(spans[k]))' /\ FixedInv' /\ FamilyInv' /\ RecursiveInv'
  <2>1. CASE strategy' \in {"fixed", "parent_child"}
    <3>1. spans' = <<>> /\ stage' = "chunking"
      BY <1>1, <2>1 DEF Divided
    <3>2. StageInv' /\ TextTypes'
      BY <1>1, <1>2, <1>3, <1>5, <2>1, <3>1 DEF StageInv, TextTypes
    <3>3. \A i \in DOMAIN full' : offset' < i
      BY <1>1, <1>5
    <3>4. FixedInv' /\ FamilyInv' /\ RecursiveInv'
      BY <2>1, <3>1, <3>3 DEF FixedInv, FamilyInv, RecursiveInv
    <3>5. DOMAIN spans' = {}
      BY <3>1
    <3> QED
      BY <3>2, <3>4, <3>5
  <2>2. CASE strategy' = "recursive"
    <3>1. stage' = "dividing" /\ spans' = Kept(PageSpans(pages), Inked(pages))
      BY <1>1, <2>2 DEF Divided, PageSpans, Inked
    <3>2. PICK texts : texts = spans'
      OBVIOUS
    <3>3. /\ texts \in Seq(SpanType)
          /\ \A k \in DOMAIN texts : /\ texts[k].page \in DOMAIN pages /\ texts[k].from = 0
                                     /\ texts[k].to = Len(pages[texts[k].page].text)
          /\ \A i \in DOMAIN pages : pages[i].text # <<>> => \E k \in DOMAIN texts : texts[k].page = i
      BY <1>3, <3>1, <3>2, DividedPages
    <3>4. StageInv' /\ TextTypes'
      BY <1>1, <1>2, <1>3, <1>5, <2>2, <3>1, <3>2, <3>3 DEF StageInv, TextTypes
    <3>5. \A k \in DOMAIN texts : texts[k].from <= texts[k].to /\ texts[k].page <= Len(pages)
      <4>1. \A k \in DOMAIN texts : texts[k] \in SpanType
        BY <3>3
      <4>2. \A k \in DOMAIN texts : texts[k].from = 0 /\ texts[k].to \in Nat /\ texts[k].page \in 1..Len(pages)
        BY <1>3, <3>3, <4>1 DEF SpanType
      <4> QED
        BY <4>2
    <3>6. (\A k \in DOMAIN spans : SpanOf(spans[k]))'
      BY <1>1, <2>2, <3>2, <3>3, <3>5 DEF SpanOf
    <3>7. ASSUME NEW p \in DOMAIN pages, NEW i \in DOMAIN pages[p].text
          PROVE  \E k \in DOMAIN texts : texts[k].page = p /\ texts[k].from < i /\ i <= texts[k].to /\ 0 < i
      <4>1. pages[p].text \in Seq(Glyphs)
        <5>1. pages[p] \in PageType
          BY <1>3
        <5> QED
          BY <5>1 DEF PageType
      <4>2. pages[p].text # <<>> /\ i \in 1..Len(pages[p].text)
        BY <4>1
      <4> QED
        BY <3>3, <4>2
    <3>8. RecursiveInv'
      BY <1>1, <2>2, <3>2, <3>7 DEF RecursiveInv, Left, Within
    <3> QED
      BY <2>2, <3>4, <3>6, <3>8 DEF FixedInv, FamilyInv
  <2>3. CASE strategy' = "semantic"
    <3> DEFINE sentences == Sentences(Merged(pages))
    <3>1. stage' = "dividing" /\
          spans' \in IF sentences = <<>> THEN {<<>>} ELSE {Groups(sentences, b) : b \in Breakpoints(sentences)}
      BY <1>1, <2>3 DEF Divided
    <3>2. PICK groups : groups = spans'
      OBVIOUS
    <3>3. sentences \in Seq(Seq(Glyphs) \ {<<>>})
      BY <1>4, SentencesType
    <3> HIDE DEF sentences
    <3>4. groups \in Seq(SpanType) /\ \A k \in 1..Len(groups) : groups[k].page = 0 /\ groups[k].from = 0 /\ groups[k].to > 0
      <4>1. CASE sentences = <<>>
        BY <3>1, <3>2, <4>1
      <4>2. CASE sentences # <<>>
        <5>1. PICK b \in SUBSET (2..Len(sentences)) : groups = Groups(sentences, b)
          BY <3>1, <3>2, <4>2 DEF Breakpoints
        <5> QED
          BY <3>3, <4>2, <5>1, GroupsType
      <4> QED
        BY <4>1, <4>2
    <3>5. DOMAIN groups = 1..Len(groups) /\ Len(pages) \in Nat
      BY <1>3, <3>4
    <3>6. StageInv' /\ TextTypes'
      BY <1>1, <1>2, <1>3, <1>5, <2>3, <3>1, <3>2, <3>4 DEF StageInv, TextTypes
    <3>7. \A k \in DOMAIN groups : groups[k].from <= groups[k].to /\ groups[k].page <= Len(pages) /\ groups[k].to > 0
      <4>1. \A k \in DOMAIN groups : groups[k].to \in Nat
        <5>1. \A k \in DOMAIN groups : groups[k] \in SpanType
          BY <3>4
        <5> QED
          BY <5>1 DEF SpanType
      <4> QED
        BY <3>4, <3>5, <4>1
    <3>8. (\A k \in DOMAIN spans : SpanOf(spans[k]))'
      BY <1>1, <2>3, <3>2, <3>7 DEF SpanOf
    <3> QED
      BY <2>3, <3>6, <3>8 DEF FixedInv, FamilyInv, RecursiveInv
  <2> QED
    BY <1>2, <2>1, <2>2, <2>3 DEF Strategies
<1> QED
  BY <1>5, <1>6 DEF TextInv

\* Each turn of a loop gets on.
LEMMA StepsFacts ==
    /\ ChunkSize \in Nat /\ ChunkOverlap \in Nat /\ ChunkOverlap < ChunkSize
    /\ ParentSize \in Nat /\ ChildSize \in Nat /\ FamilyOverlap \in Nat /\ MaxGroup \in Nat
    /\ FamilyOverlap < ParentSize /\ FamilyOverlap < ChildSize /\ MaxGroup > 0
    /\ ParentSize - FamilyOverlap \in Nat /\ ChildSize - FamilyOverlap \in Nat
<1>1. /\ ChunkSize \in Nat /\ ChunkOverlap \in Nat /\ ChunkOverlap < ChunkSize
      /\ ParentSize \in Nat /\ ChildSize \in Nat /\ FamilyOverlap \in Nat /\ MaxGroup \in Nat
      /\ FamilyOverlap < ParentSize /\ FamilyOverlap < ChildSize /\ MaxGroup > 0
  BY StepsAssumption
<1> QED
  BY <1>1

LEMMA LeastIs ==
    \A from, size, n \in Nat : from < n =>
        /\ Least(from + size, n) \in Nat /\ from <= Least(from + size, n) /\ Least(from + size, n) <= n
        /\ Least(from + size, n) < n => Least(from + size, n) = from + size
        /\ size > 0 => from < Least(from + size, n)
  BY DEF Least

\* What the turns of the loops rest on.
LEMMA TurnFacts ==
    ASSUME TextInv
    PROVE  /\ pages \in Seq(PageType) /\ full \in Seq(Glyphs) /\ Len(full) \in Nat /\ DOMAIN full = 1..Len(full)
           /\ strategy \in Strategies /\ offset \in Nat /\ spans \in Seq(SpanType) /\ pieces \in Seq(PieceType)
           /\ Len(pages) \in Nat /\ DOMAIN pages = 1..Len(pages)
           /\ \A at : PageOf(at) \in Nat /\ PageOf(at) <= Len(pages)
           /\ \A k \in DOMAIN spans :
                  spans[k] \in SpanType /\ spans[k].from \in Nat /\ spans[k].to \in Nat /\ spans[k].page \in Nat
<1>1. pages \in Seq(PageType) /\ full \in Seq(Glyphs) /\ spans \in Seq(SpanType)
  BY DEF TextInv, TextTypes
<1>2. \A k \in DOMAIN spans : spans[k] \in SpanType
  BY <1>1
<1>3. \A at : PageOf(at) \in 0..Len(pages)
  BY <1>1, PageOfType
<1>4. Len(pages) \in Nat /\ DOMAIN pages = 1..Len(pages) /\ Len(full) \in Nat /\ DOMAIN full = 1..Len(full)
  BY <1>1
<1> QED
  BY <1>1, <1>2, <1>3, <1>4 DEF TextInv, TextTypes, SpanType

\* A turn that makes at most one piece of the text between offset and end, and
\* leaves the stage as it is.
Turned(txt, kind, end, page) ==
    /\ pieces' = Cut(txt, kind, offset, end, page)
    /\ UNCHANGED <<file, stage, pages, strategy, full>>
    /\ offset' \in Nat /\ spans' \in Seq(SpanType)

LEMMA TurnedPieces ==
    ASSUME TextInv, NEW txt \in Seq(Glyphs), NEW kind \in Kinds, NEW end \in Nat, NEW page \in Nat,
           Turned(txt, kind, end, page), offset <= end, end <= Len(txt), page <= Len(pages),
           strategy \in {"fixed", "parent_child"} => txt = full /\ page = PageOf(offset)
    PROVE  /\ TextTypes' /\ (\A k \in DOMAIN pieces : PieceOf(pieces[k]))'
           /\ \A i : InPiece(i) => InPiece(i)'
           /\ \A p, i : InPieceOf(p, i) => InPieceOf(p, i)'
           /\ \A i \in 1..Len(txt) : offset < i /\ i <= end /\ Visible(txt[i]) =>
                  pieces' # pieces /\ (kind # "parent" => InPiece(i)' /\ InPieceOf(page, i)')
<1>1. pieces \in Seq(PieceType) /\ offset \in Nat /\ Len(txt) \in Nat
  BY TurnFacts
<1>2. PICK p \in PieceType : /\ p = Piece(kind, offset, end, page) /\ p.kind = kind
                             /\ p.from = offset /\ p.to = end /\ p.page = page
  <2>1. \A o \in Nat : \E p \in PieceType :
            /\ p = Piece(kind, o, end, page) /\ p.kind = kind
            /\ p.from = o /\ p.to = end /\ p.page = page
    BY PieceIs
  <2> QED
    BY <1>1, <2>1
<1>3. Grown(pieces', p)
  BY <1>1, <1>2, CutMeans DEF Turned
<1>4. \A i \in 1..Len(txt) : offset < i /\ i <= end /\ Visible(txt[i]) => Has(pieces', p)
  BY <1>1, <1>2, CutMeans DEF Turned
<1>5. UNCHANGED <<pages, strategy, full>>
  BY DEF Turned
<1>6. p.from < p.to => PieceOf(p)
  BY <1>2 DEF PieceOf
<1>7. /\ pieces' \in Seq(PieceType)
      /\ (\A k \in DOMAIN pieces : PieceOf(pieces[k]))'
      /\ \A i : InPiece(i) => InPiece(i)'
      /\ \A q, i : InPieceOf(q, i) => InPieceOf(q, i)'
  BY <1>3, <1>5, <1>6, GrownPieces
<1>8. TextTypes'
  BY <1>7 DEF TextInv, TextTypes, Turned
<1>9. ASSUME NEW i \in 1..Len(txt), offset < i, i <= end, Visible(txt[i])
      PROVE  pieces' # pieces /\ (kind # "parent" => InPiece(i)' /\ InPieceOf(page, i)')
  <2>1. pieces' # pieces /\ \E k \in DOMAIN pieces' : pieces'[k] = p
    BY <1>4, <1>9 DEF Has
  <2> QED
    BY <1>2, <1>9, <2>1 DEF InPiece, InPieceOf, Within
<1> QED
  BY <1>7, <1>8, <1>9

LEMMA FixedTurnKeeps == ASSUME TextInv, FixedTurn PROVE TextInv'
<1>1. /\ stage = "chunking" /\ strategy = "fixed" /\ offset < Len(full)
      /\ full \in Seq(Glyphs) /\ Len(full) \in Nat /\ offset \in Nat /\ spans \in Seq(SpanType)
      /\ PageOf(offset) \in Nat /\ PageOf(offset) <= Len(pages) /\ DOMAIN full = 1..Len(full)
  BY TurnFacts DEF FixedTurn
<1>2. PICK end \in Nat : /\ end = Least(offset + ChunkSize, Len(full)) /\ offset <= end /\ end <= Len(full)
                         /\ (end < Len(full) => end = offset + ChunkSize)
  BY <1>1, StepsFacts, LeastIs
<1>3. /\ offset' = IF end < Len(full) THEN end - ChunkOverlap ELSE Len(full)
      /\ pieces' = Cut(full, "chunk", offset, end, PageOf(offset))
      /\ UNCHANGED <<file, stage, pages, strategy, full, spans>>
  BY <1>2 DEF FixedTurn
<1>4. offset' \in Nat /\ \A i \in 1..Len(full) : i <= end \/ offset' < i
  BY <1>1, <1>2, <1>3, StepsFacts
<1>5. Turned(full, "chunk", end, PageOf(offset)) /\ "chunk" \in Kinds
  BY <1>1, <1>3, <1>4 DEF Turned, Kinds
<1>6. /\ TextTypes' /\ (\A k \in DOMAIN pieces : PieceOf(pieces[k]))'
      /\ \A i : InPiece(i) => InPiece(i)'
      /\ \A i \in 1..Len(full) : offset < i /\ i <= end /\ Visible(full[i]) => InPiece(i)'
  BY <1>1, <1>2, <1>5, TurnedPieces
<1>7. StageInv'
  BY <1>1, <1>3 DEF TextInv, StageInv, Begun
<1>8. (\A k \in DOMAIN spans : SpanOf(spans[k]))'
  BY <1>3 DEF TextInv, SpanOf
<1>9. FixedInv'
  <2>1. \A i \in DOMAIN full : Visible(full[i]) => InPiece(i)' \/ offset' < i
    <3>1. \A i \in DOMAIN full : Visible(full[i]) => InPiece(i) \/ offset < i
      BY <1>1 DEF TextInv, FixedInv, Begun
    <3> QED
      BY <1>1, <1>4, <1>6, <3>1
  <2> QED
    BY <1>1, <1>3, <2>1 DEF FixedInv
<1>10. FamilyInv' /\ RecursiveInv'
  BY <1>1, <1>3 DEF FamilyInv, RecursiveInv
<1> QED
  BY <1>6, <1>7, <1>8, <1>9, <1>10 DEF TextInv

LEMMA ParentTurnKeeps == ASSUME TextInv, ParentTurn PROVE TextInv'
<1>1. /\ stage = "chunking" /\ strategy = "parent_child" /\ offset < Len(full)
      /\ full \in Seq(Glyphs) /\ Len(full) \in Nat /\ offset \in Nat /\ spans \in Seq(SpanType)
      /\ PageOf(offset) \in Nat /\ PageOf(offset) <= Len(pages) /\ DOMAIN full = 1..Len(full)
      /\ Len(pages) \in Nat
  BY TurnFacts DEF ParentTurn
<1>2. PICK end \in Nat : /\ end = Least(offset + ParentSize, Len(full)) /\ offset <= end /\ end <= Len(full)
                         /\ (end < Len(full) => end = offset + ParentSize)
  BY <1>1, StepsFacts, LeastIs
<1> DEFINE span == [page |-> 0, from |-> offset, to |-> end]
<1>3. /\ offset' = offset + (ParentSize - FamilyOverlap)
      /\ pieces' = Cut(full, "parent", offset, end, PageOf(offset))
      /\ spans' = IF pieces' = pieces THEN spans ELSE Append(spans, span)
      /\ UNCHANGED <<file, stage, pages, strategy, full>>
  BY <1>2 DEF ParentTurn
<1>4. offset' \in Nat /\ \A i \in 1..Len(full) : i <= end \/ offset' < i
  BY <1>1, <1>2, <1>3, StepsFacts
<1>5. span \in SpanType /\ span.page = 0 /\ span.from = offset /\ span.to = end
  BY <1>1, <1>2 DEF SpanType
<1> HIDE DEF span
<1>6. PICK n \in Nat : n = Len(spans) /\ DOMAIN spans = 1..n
  BY <1>1
<1>7. PICK a : a = Append(spans, span)
  OBVIOUS
<1>8. /\ a \in Seq(SpanType) /\ DOMAIN a = 1..(n + 1) /\ a[n + 1] = span
      /\ \A k \in 1..n : a[k] = spans[k]
  <2>1. /\ a \in Seq(SpanType) /\ Len(a) = n + 1 /\ a[n + 1] = span
        /\ \A k \in 1..n : a[k] = spans[k]
    BY <1>1, <1>5, <1>6, <1>7, AppendProperties
  <2> QED
    BY <2>1
<1>9. \A k \in 1..n : k \in 1..(n + 1)
  OBVIOUS
<1>10. /\ spans' \in Seq(SpanType)
       /\ \A k \in DOMAIN spans : k \in DOMAIN spans' /\ spans'[k] = spans[k]
       /\ \A k \in DOMAIN spans' : k \in DOMAIN spans \/ spans'[k] = span
       /\ pieces' # pieces => \E k \in DOMAIN spans' : spans'[k] = span
  <2>1. CASE pieces' = pieces
    BY <1>1, <1>3, <2>1
  <2>2. CASE pieces' # pieces
    <3>1. spans' = a
      BY <1>3, <1>7, <2>2
    <3>2. \A k \in 1..(n + 1) : k \in 1..n \/ k = n + 1
      OBVIOUS
    <3>3. n + 1 \in 1..(n + 1)
      OBVIOUS
    <3> QED
      BY <1>6, <1>8, <1>9, <3>1, <3>2, <3>3
  <2> QED
    BY <2>1, <2>2
<1>11. Turned(full, "parent", end, PageOf(offset)) /\ "parent" \in Kinds
  BY <1>1, <1>3, <1>4, <1>10 DEF Turned, Kinds
<1>12. /\ TextTypes' /\ (\A k \in DOMAIN pieces : PieceOf(pieces[k]))'
       /\ \A i : InPiece(i) => InPiece(i)'
       /\ \A i \in 1..Len(full) : offset < i /\ i <= end /\ Visible(full[i]) => pieces' # pieces
  BY <1>1, <1>2, <1>11, TurnedPieces
<1>13. StageInv'
  BY <1>1, <1>3 DEF TextInv, StageInv, Begun
<1>14. (\A k \in DOMAIN spans : SpanOf(spans[k]))'
  <2>1. \A k \in DOMAIN spans' : SpanOf(spans'[k])
    <3>1. SpanOf(span)
      BY <1>1, <1>2, <1>5 DEF SpanOf
    <3>2. \A k \in DOMAIN spans : SpanOf(spans[k])
      BY DEF TextInv
    <3> QED
      BY <1>10, <3>1, <3>2
  <2> QED
    BY <1>3, <2>1 DEF SpanOf
<1>15. FamilyInv'
  <2>1. ASSUME NEW i \in DOMAIN full, Visible(full[i])
        PROVE  offset' < i \/ \E k \in DOMAIN spans' : Within(spans'[k], i)
    <3>1. offset < i \/ \E k \in DOMAIN spans : Within(spans[k], i)
      BY <1>1, <2>1 DEF TextInv, FamilyInv, Left, Begun
    <3>2. CASE offset < i /\ i <= end
      <4>1. pieces' # pieces
        BY <1>1, <1>12, <2>1, <3>2
      <4> QED
        BY <1>5, <1>10, <3>2, <4>1 DEF Within
    <3>3. CASE \E k \in DOMAIN spans : Within(spans[k], i)
      BY <1>10, <3>3
    <3> QED
      BY <1>1, <1>4, <3>1, <3>2, <3>3
  <2> QED
    BY <1>1, <1>3, <2>1 DEF FamilyInv, Left
<1>16. FixedInv' /\ RecursiveInv'
  BY <1>1, <1>3 DEF FixedInv, RecursiveInv
<1> QED
  BY <1>12, <1>13, <1>14, <1>15, <1>16 DEF TextInv

LEMMA TextAtEndKeeps == ASSUME TextInv, TextAtEnd PROVE TextInv'
<1>1. /\ stage = "chunking" /\ strategy \in {"fixed", "parent_child"} /\ offset >= Len(full)
      /\ Len(full) \in Nat /\ offset \in Nat /\ spans \in Seq(SpanType) /\ DOMAIN full = 1..Len(full)
      /\ stage' = "dividing" /\ UNCHANGED <<file, pages, strategy, full, spans, pieces>>
  BY TurnFacts DEF TextAtEnd, TextInv, StageInv
<1>2. \A i \in DOMAIN full : ~(offset < i)
  BY <1>1
<1>3. \A k \in DOMAIN spans : k = 1 => offset' = spans[1].from
  <2>1. spans = <<>> => DOMAIN spans = {}
    OBVIOUS
  <2> QED
    BY <2>1 DEF TextAtEnd
<1>4. offset' \in Nat
  <2>1. CASE spans = <<>>
    BY <2>1 DEF TextAtEnd
  <2>2. CASE spans # <<>>
    <3>1. 1 \in DOMAIN spans
      BY <1>1, <2>2, EmptySeq
    <3> QED
      BY <1>3, <3>1, TurnFacts
  <2> QED
    BY <2>1, <2>2
<1>5. TextTypes' /\ StageInv'
  BY <1>1, <1>4 DEF TextInv, TextTypes, StageInv, Begun
<1>6. \A at : PageOf(at)' = PageOf(at)
  BY <1>1, PageStays
<1>7. (\A k \in DOMAIN spans : SpanOf(spans[k]))' /\ (\A k \in DOMAIN pieces : PieceOf(pieces[k]))'
  BY <1>1, <1>6 DEF TextInv, SpanOf, PieceOf
<1>8. FixedInv'
  BY <1>1, <1>2 DEF TextInv, FixedInv, InPiece, Begun
<1>9. FamilyInv'
  <2>1. ASSUME strategy = "parent_child", NEW i \in DOMAIN full, Visible(full[i])
        PROVE  \E k \in DOMAIN spans : Left(k, i)'
    <3>1. PICK k \in DOMAIN spans : Within(spans[k], i)
      BY <1>1, <1>2, <2>1 DEF TextInv, FamilyInv, Left, Begun
    <3> QED
      BY <1>1, <1>3, <3>1 DEF Left, Within
  <2> QED
    BY <1>1, <2>1 DEF FamilyInv
<1>10. RecursiveInv'
  BY <1>1 DEF RecursiveInv
<1> QED
  BY <1>5, <1>7, <1>8, <1>9, <1>10 DEF TextInv

\* Of the first span, and of what the pages are in it.
LEMMA FirstSpan ==
    ASSUME TextInv, spans # <<>>
    PROVE  /\ 1 \in DOMAIN spans /\ SpanOf(spans[1])
           /\ Tail(spans) \in Seq(SpanType)
           /\ \A k \in DOMAIN Tail(spans) : k + 1 \in DOMAIN spans /\ Tail(spans)[k] = spans[k + 1]
           /\ \A k \in DOMAIN spans : k # 1 => k - 1 \in DOMAIN Tail(spans) /\ Tail(spans)[k - 1] = spans[k]
<1>1. PICK n \in Nat : n = Len(spans) /\ DOMAIN spans = 1..n /\ spans \in Seq(SpanType)
  BY TurnFacts
<1>2. n # 0
  BY <1>1, EmptySeq
<1>3. PICK t : t = Tail(spans)
  OBVIOUS
<1>4. t \in Seq(SpanType) /\ Len(t) = n - 1 /\ \A k \in 1..(n - 1) : t[k] = spans[k + 1]
  BY <1>1, <1>2, <1>3, HeadTailProperties
<1>5. DOMAIN t = 1..(n - 1)
  BY <1>4
<1>6. \A k \in 1..(n - 1) : k + 1 \in 1..n
  OBVIOUS
<1>7. \A k \in 1..n : k # 1 => k - 1 \in 1..(n - 1) /\ (k - 1) + 1 = k
  OBVIOUS
<1>8. 1 \in 1..n
  BY <1>2
<1>9. SpanOf(spans[1])
  BY <1>1, <1>8 DEF TextInv
<1> QED
  BY <1>1, <1>3, <1>4, <1>5, <1>6, <1>7, <1>8, <1>9

\* The stage does not change while the spans are divided.
LEMMA DividingStays ==
    ASSUME TextInv, stage = "dividing", UNCHANGED <<stage, strategy, pages, full>>,
           strategy = "fixed" => spans' = <<>>
    PROVE  StageInv'
  BY DEF TextInv, StageInv, Begun

LEMMA ChildTurnKeeps == ASSUME TextInv, ChildTurn PROVE TextInv'
<1>1. /\ stage = "dividing" /\ strategy = "parent_child" /\ spans # <<>> /\ offset < spans[1].to
      /\ full \in Seq(Glyphs) /\ Len(full) \in Nat /\ offset \in Nat /\ spans \in Seq(SpanType)
      /\ PageOf(offset) \in Nat /\ PageOf(offset) <= Len(pages) /\ DOMAIN full = 1..Len(full)
  BY TurnFacts DEF ChildTurn
<1>2. PICK to \in Nat : to = spans[1].to /\ to <= Len(full) /\ offset < to
  <2>1. spans[1].to \in Nat /\ SpanOf(spans[1])
    BY <1>1, FirstSpan, TurnFacts
  <2> QED
    BY <1>1, <2>1 DEF SpanOf
<1>3. PICK end \in Nat : /\ end = Least(offset + ChildSize, to) /\ offset <= end /\ end <= to
                         /\ (end < to => end = offset + ChildSize)
  BY <1>1, <1>2, StepsFacts, LeastIs
<1>4. /\ offset' = offset + (ChildSize - FamilyOverlap)
      /\ pieces' = Cut(full, "child", offset, end, PageOf(offset))
      /\ UNCHANGED <<file, stage, pages, strategy, full, spans>>
  BY <1>2, <1>3 DEF ChildTurn
<1>5. offset' \in Nat /\ end <= Len(full) /\ \A i \in 1..Len(full) : i <= to => i <= end \/ offset' < i
  BY <1>1, <1>2, <1>3, <1>4, StepsFacts
<1>6. Turned(full, "child", end, PageOf(offset)) /\ "child" \in Kinds
  BY <1>1, <1>4, <1>5 DEF Turned, Kinds
<1>7. /\ TextTypes' /\ (\A k \in DOMAIN pieces : PieceOf(pieces[k]))'
      /\ \A i : InPiece(i) => InPiece(i)'
      /\ \A i \in 1..Len(full) : offset < i /\ i <= end /\ Visible(full[i]) => InPiece(i)'
  BY <1>1, <1>3, <1>5, <1>6, TurnedPieces
<1>8. StageInv'
  BY <1>1, <1>4, DividingStays
<1>9. (\A k \in DOMAIN spans : SpanOf(spans[k]))'
  BY <1>4 DEF TextInv, SpanOf
<1>10. FamilyInv'
  <2>1. ASSUME NEW i \in DOMAIN full, Visible(full[i])
        PROVE  InPiece(i)' \/ \E k \in DOMAIN spans : Left(k, i)'
    <3>1. InPiece(i) \/ \E k \in DOMAIN spans : Left(k, i)
      BY <1>1, <2>1 DEF TextInv, FamilyInv, Begun
    <3>2. ASSUME NEW k \in DOMAIN spans, Left(k, i) PROVE InPiece(i)' \/ Left(k, i)'
      <4>1. CASE k # 1
        BY <1>1, <1>4, <3>2, <4>1 DEF Left, Within
      <4>2. CASE k = 1
        <5>1. offset < i /\ i <= to
          BY <1>1, <1>2, <3>2, <4>2 DEF Left, Within
        <5>2. CASE i <= end
          BY <1>1, <1>7, <2>1, <5>1, <5>2
        <5>3. CASE offset' < i
          BY <1>4, <3>2, <4>2, <5>3 DEF Left, Within
        <5> QED
          BY <1>1, <1>5, <5>1, <5>2, <5>3
      <4> QED
        BY <4>1, <4>2
    <3> QED
      BY <1>7, <3>1, <3>2
  <2> QED
    BY <1>1, <1>4, <2>1 DEF FamilyInv
<1>11. FixedInv' /\ RecursiveInv'
  BY <1>1, <1>4 DEF FixedInv, RecursiveInv
<1> QED
  BY <1>7, <1>8, <1>9, <1>10, <1>11 DEF TextInv

LEMMA SplitTurnKeeps == ASSUME TextInv, SplitTurn PROVE TextInv'
<1>1. /\ stage = "dividing" /\ strategy = "recursive" /\ spans # <<>> /\ offset < spans[1].to
      /\ offset \in Nat /\ spans \in Seq(SpanType) /\ pages \in Seq(PageType) /\ Len(pages) \in Nat
      /\ DOMAIN pages = 1..Len(pages)
      /\ UNCHANGED <<file, stage, pages, strategy, full, spans>>
  BY TurnFacts DEF SplitTurn
<1>2. PICK p \in 1..Len(pages) : p = spans[1].page /\ spans[1].to = Len(pages[p].text)
  <2>1. SpanOf(spans[1])
    BY <1>1, FirstSpan
  <2> QED
    BY <1>1, <2>1 DEF SpanOf
<1>3. PICK txt \in Seq(Glyphs) : txt = pages[p].text
  <2>1. pages[p] \in PageType
    BY <1>1
  <2> QED
    BY <2>1 DEF PageType
<1>4. PICK to \in Nat : to = Len(txt) /\ to = spans[1].to /\ offset < to /\ DOMAIN txt = 1..to
  BY <1>1, <1>2, <1>3
<1>5. PICK end \in (offset + 1)..Least(offset + ChunkSize, to) :
          /\ pieces' = Cut(txt, "chunk", offset, end, p)
          /\ offset' \in IF end = to THEN {end} ELSE {next \in (offset + 1)..end : end - next <= ChunkOverlap}
  BY <1>2, <1>3, <1>4 DEF SplitTurn
<1>6. end \in Nat /\ offset <= end /\ end <= to
  <2>1. Least(offset + ChunkSize, to) \in Nat /\ Least(offset + ChunkSize, to) <= to
    BY <1>1, <1>4, StepsFacts, LeastIs
  <2> QED
    BY <1>1, <1>4, <2>1
<1>7. offset' \in Nat /\ offset' <= end
  BY <1>1, <1>5, <1>6
<1>8. Turned(txt, "chunk", end, p) /\ "chunk" \in Kinds /\ p \in Nat /\ p <= Len(pages)
  BY <1>1, <1>5, <1>7 DEF Turned, Kinds
<1>9. /\ TextTypes' /\ (\A k \in DOMAIN pieces : PieceOf(pieces[k]))'
      /\ \A q, i : InPieceOf(q, i) => InPieceOf(q, i)'
      /\ \A i \in 1..to : offset < i /\ i <= end /\ Visible(txt[i]) => InPieceOf(p, i)'
  BY <1>1, <1>4, <1>6, <1>8, TurnedPieces
<1>10. StageInv'
  BY <1>1, DividingStays
<1>11. (\A k \in DOMAIN spans : SpanOf(spans[k]))'
  BY <1>1 DEF TextInv, SpanOf
<1>12. RecursiveInv'
  <2>1. ASSUME NEW q \in DOMAIN pages, NEW i \in DOMAIN pages[q].text, Visible(pages[q].text[i])
        PROVE  InPieceOf(q, i)' \/ \E k \in DOMAIN spans : spans[k].page = q /\ Left(k, i)'
    <3>1. InPieceOf(q, i) \/ \E k \in DOMAIN spans : spans[k].page = q /\ Left(k, i)
      BY <1>1, <2>1 DEF TextInv, RecursiveInv, Begun
    <3>2. ASSUME NEW k \in DOMAIN spans, spans[k].page = q, Left(k, i) PROVE InPieceOf(q, i)' \/ Left(k, i)'
      <4>1. CASE k # 1
        BY <1>1, <3>2, <4>1 DEF Left, Within
      <4>2. CASE k = 1
        <5>1. q = p /\ i \in 1..to /\ offset < i
          BY <1>1, <1>2, <1>3, <1>4, <3>2, <4>2 DEF Left
        <5>2. CASE i <= end
          BY <1>3, <1>9, <2>1, <5>1, <5>2
        <5>3. CASE offset' < i
          BY <1>1, <3>2, <4>2, <5>3 DEF Left, Within
        <5> QED
          BY <1>6, <1>7, <5>1, <5>2, <5>3
      <4> QED
        BY <4>1, <4>2
    <3> QED
      BY <1>9, <3>1, <3>2
  <2> QED
    BY <1>1, <2>1 DEF RecursiveInv
<1>13. FixedInv' /\ FamilyInv'
  BY <1>1 DEF FixedInv, FamilyInv
<1> QED
  BY <1>9, <1>10, <1>11, <1>12, <1>13 DEF TextInv

LEMMA NextSpanKeeps == ASSUME TextInv, NextSpan PROVE TextInv'
<1>1. /\ stage = "dividing" /\ strategy \in {"recursive", "parent_child"} /\ spans # <<>> /\ offset >= spans[1].to
      /\ offset \in Nat /\ spans \in Seq(SpanType) /\ spans' = Tail(spans)
      /\ offset' = IF spans' = <<>> THEN 0 ELSE spans'[1].from
      /\ UNCHANGED <<file, stage, pages, strategy, full, pieces>>
  BY TurnFacts DEF NextSpan
<1>2. /\ spans' \in Seq(SpanType) /\ 1 \in DOMAIN spans
      /\ \A k \in DOMAIN spans' : k + 1 \in DOMAIN spans /\ spans'[k] = spans[k + 1]
      /\ \A k \in DOMAIN spans : k # 1 => k - 1 \in DOMAIN spans' /\ spans'[k - 1] = spans[k]
  BY <1>1, FirstSpan
<1>3. offset' \in Nat /\ (1 \in DOMAIN spans' => offset' = spans'[1].from)
  <2>1. CASE spans' = <<>>
    <3>1. DOMAIN spans' = {} /\ offset' = 0
      BY <1>1, <2>1
    <3> QED
      BY <3>1
  <2>2. CASE spans' # <<>>
    <3>1. 1 \in DOMAIN spans'
      BY <1>2, <2>2, EmptySeq
    <3>2. spans'[1].from \in Nat
      BY <1>2, <3>1, TurnFacts
    <3> QED
      BY <1>1, <2>2, <3>2
  <2> QED
    BY <2>1, <2>2
<1>4. TextTypes'
  BY <1>1, <1>2, <1>3 DEF TextInv, TextTypes
<1>5. StageInv'
  BY <1>1, DividingStays
<1>6. (\A k \in DOMAIN spans : SpanOf(spans[k]))'
  BY <1>1, <1>2 DEF TextInv, SpanOf
<1>7. (\A k \in DOMAIN pieces : PieceOf(pieces[k]))'
  <2>1. \A at : PageOf(at)' = PageOf(at)
    BY <1>1, PageStays
  <2> QED
    BY <1>1, <2>1 DEF TextInv, PieceOf
<1>8. \A i \in Nat : \A k \in DOMAIN spans :
          Left(k, i) => k - 1 \in DOMAIN spans' /\ spans'[k - 1] = spans[k] /\ Left(k - 1, i)'
  <2>1. ASSUME NEW i \in Nat, NEW k \in DOMAIN spans, Left(k, i)
        PROVE  k - 1 \in DOMAIN spans' /\ spans'[k - 1] = spans[k] /\ Left(k - 1, i)'
    <3>1. k # 1
      <4>1. spans[1].to \in Nat
        BY <1>2, TurnFacts
      <4> QED
        BY <1>1, <2>1, <4>1 DEF Left, Within
    <3>2. k - 1 \in DOMAIN spans' /\ spans'[k - 1] = spans[k]
      BY <1>2, <3>1
    <3>3. Within(spans'[k - 1], i)
      BY <2>1, <3>2 DEF Left
    <3>4. k - 1 = 1 => offset' < i
      BY <1>3, <3>2, <3>3 DEF Within
    <3>5. Left(k - 1, i)'
      BY <3>3, <3>4 DEF Left, Within
    <3> QED
      BY <3>2, <3>5
  <2> QED
    BY <2>1
<1>9. FamilyInv'
  <2>1. ASSUME strategy = "parent_child", NEW i \in DOMAIN full, Visible(full[i])
        PROVE  InPiece(i) \/ \E k \in DOMAIN spans' : Left(k, i)'
    <3>1. InPiece(i) \/ \E k \in DOMAIN spans : Left(k, i)
      BY <1>1, <2>1 DEF TextInv, FamilyInv, Begun
    <3>2. i \in Nat
      BY TurnFacts
    <3> QED
      BY <1>8, <3>1, <3>2
  <2> QED
    BY <1>1, <2>1 DEF FamilyInv, InPiece
<1>10. RecursiveInv'
  <2>1. ASSUME strategy = "recursive", NEW p \in DOMAIN pages, NEW i \in DOMAIN pages[p].text, Visible(pages[p].text[i])
        PROVE  InPieceOf(p, i) \/ \E k \in DOMAIN spans' : spans'[k].page = p /\ Left(k, i)'
    <3>1. InPieceOf(p, i) \/ \E k \in DOMAIN spans : spans[k].page = p /\ Left(k, i)
      BY <1>1, <2>1 DEF TextInv, RecursiveInv, Begun
    <3>2. i \in Nat
      <4>1. pages \in Seq(PageType)
        BY TurnFacts
      <4>2. pages[p] \in PageType
        BY <4>1
      <4>3. pages[p].text \in Seq(Glyphs)
        BY <4>2 DEF PageType
      <4> QED
        BY <4>3
    <3> QED
      BY <1>8, <3>1, <3>2
  <2> QED
    BY <1>1, <2>1 DEF RecursiveInv, InPieceOf
<1>11. FixedInv'
  BY <1>1 DEF FixedInv
<1> QED
  BY <1>4, <1>5, <1>6, <1>7, <1>9, <1>10, <1>11 DEF TextInv

LEMMA GroupTurnKeeps == ASSUME TextInv, GroupTurn PROVE TextInv'
<1>1. /\ stage = "dividing" /\ strategy = "semantic" /\ spans # <<>>
      /\ offset \in Nat /\ spans \in Seq(SpanType) /\ spans' = Tail(spans) /\ pieces \in Seq(PieceType)
      /\ PageOf(offset) \in Nat /\ PageOf(offset) <= Len(pages)
      /\ UNCHANGED <<file, stage, pages, strategy, full>>
  BY TurnFacts DEF GroupTurn
<1>2. /\ spans' \in Seq(SpanType) /\ 1 \in DOMAIN spans /\ SpanOf(spans[1])
      /\ \A k \in DOMAIN spans' : k + 1 \in DOMAIN spans /\ spans'[k] = spans[k + 1]
  BY <1>1, FirstSpan
<1>3. PICK size \in Nat : size = spans[1].to /\ size > 0
  <2>1. spans[1].to \in Nat
    BY <1>2, TurnFacts
  <2> QED
    BY <1>1, <1>2, <2>1 DEF SpanOf
<1>4. PICK kept \in Nat : kept = Least(size, MaxGroup) /\ kept > 0
  BY <1>3, StepsFacts DEF Least
<1>5. PICK start \in Nat : start = offset
  BY <1>1
<1>6. PICK p \in PieceType : /\ p = Piece("chunk", start, start + kept, PageOf(offset))
                             /\ p.from = start /\ p.to = start + kept /\ p.page = PageOf(offset)
  <2>1. \A to, page \in Nat : \E p \in PieceType :
            p = Piece("chunk", start, to, page) /\ p.from = start /\ p.to = to /\ p.page = page
    <3>1. "chunk" \in Kinds
      BY DEF Kinds
    <3> QED
      BY <3>1, PieceIs
  <2>2. start + kept \in Nat
    OBVIOUS
  <2> QED
    BY <1>1, <2>1, <2>2
<1>7. p.from < p.to /\ PieceOf(p)
  <2>1. p.from < p.to
    BY <1>4, <1>6
  <2> QED
    BY <1>1, <1>6, <2>1 DEF PieceOf
<1>8. Grown(pieces', p) /\ offset' \in Nat
  <2>1. CASE size < MinGroup
    <3>1. pieces' = pieces /\ offset' = offset + size + 1
      BY <1>3, <2>1 DEF GroupTurn
    <3> QED
      BY <1>1, <3>1 DEF Grown
  <2>2. CASE ~(size < MinGroup)
    <3>1. pieces' = Append(pieces, p) /\ offset' = offset + kept + 1
      BY <1>3, <1>4, <1>5, <1>6, <2>2 DEF GroupTurn
    <3>2. Grown(Append(pieces, p), p)
      BY <1>1, <1>7, AppendGrown
    <3> QED
      BY <1>1, <3>1, <3>2
  <2> QED
    BY <2>1, <2>2
<1>9. pieces' \in Seq(PieceType) /\ (\A k \in DOMAIN pieces : PieceOf(pieces[k]))'
  BY <1>1, <1>7, <1>8, GrownPieces
<1>10. TextTypes'
  BY <1>1, <1>2, <1>8, <1>9 DEF TextInv, TextTypes
<1>11. StageInv'
  BY <1>1, DividingStays
<1>12. (\A k \in DOMAIN spans : SpanOf(spans[k]))'
  BY <1>1, <1>2 DEF TextInv, SpanOf
<1>13. FixedInv' /\ FamilyInv' /\ RecursiveInv'
  BY <1>1 DEF FixedInv, FamilyInv, RecursiveInv
<1> QED
  BY <1>9, <1>10, <1>11, <1>12, <1>13 DEF TextInv

LEMMA ChunkedKeeps == ASSUME TextInv, Chunked PROVE TextInv'
<1>1. /\ stage = "dividing" /\ spans = <<>> /\ stage' = "chunked" /\ DOMAIN spans = {}
      /\ UNCHANGED <<file, pages, strategy, full, offset, spans, pieces>>
  BY DEF Chunked
<1>2. TextTypes' /\ StageInv'
  BY <1>1 DEF TextInv, TextTypes, StageInv, Begun
<1>3. (\A k \in DOMAIN spans : SpanOf(spans[k]))' /\ (\A k \in DOMAIN pieces : PieceOf(pieces[k]))'
  <2>1. \A at : PageOf(at)' = PageOf(at)
    BY <1>1, PageStays
  <2> QED
    BY <1>1, <2>1 DEF TextInv, SpanOf, PieceOf
<1>4. FixedInv' /\ FamilyInv' /\ RecursiveInv'
  BY <1>1 DEF TextInv, FixedInv, FamilyInv, RecursiveInv, InPiece, InPieceOf, Begun
<1> QED
  BY <1>2, <1>3, <1>4 DEF TextInv

LEMMA TextRests == ASSUME TextInv, UNCHANGED textVars PROVE TextInv'
<1>1. UNCHANGED <<file, stage, pages, strategy, full, offset, spans, pieces>>
  BY DEF textVars
<1>2. \A at : PageOf(at)' = PageOf(at)
  BY <1>1, PageStays
<1>3. TextTypes' /\ StageInv'
  BY <1>1 DEF TextInv, TextTypes, StageInv
<1>4. (\A k \in DOMAIN spans : SpanOf(spans[k]))' /\ (\A k \in DOMAIN pieces : PieceOf(pieces[k]))'
  BY <1>1, <1>2 DEF TextInv, SpanOf, PieceOf
<1>5. FixedInv' /\ FamilyInv' /\ RecursiveInv'
  BY <1>1 DEF TextInv, FixedInv, FamilyInv, RecursiveInv, InPiece, InPieceOf, Left
<1> QED
  BY <1>3, <1>4, <1>5 DEF TextInv

LEMMA TextSteps == ASSUME TextInv, TextNext PROVE TextInv'
  BY ExtractionKeeps, RecognitionKeeps, CleaningKeeps, ChunkingKeeps, FixedTurnKeeps, ParentTurnKeeps,
     TextAtEndKeeps, ChildTurnKeeps, SplitTurnKeeps, NextSpanKeeps, GroupTurnKeeps, ChunkedKeeps
  DEF TextNext, Turn

LEMMA TextNextInv == TextInv /\ [TextNext]_textVars => TextInv'
  BY TextSteps, TextRests

LEMMA TextPromises == TextInv => TextIsChunked
<1> SUFFICES ASSUME TextInv PROVE TextIsChunked
  OBVIOUS
<1>1. TextTypeOK
  <2>1. \A i \in DOMAIN pages : pages[i].text \in Seq(Glyphs) /\ pages[i].needs_ocr \in BOOLEAN
    <3>1. \A i \in DOMAIN pages : pages[i] \in PageType
      BY TurnFacts
    <3> QED
      BY <3>1 DEF PageType
  <2>2. \A k \in DOMAIN spans : spans[k].from \in 0..spans[k].to /\ spans[k].page \in 0..Len(pages)
    <3>1. \A k \in DOMAIN spans : SpanOf(spans[k])
      BY DEF TextInv
    <3> QED
      BY <3>1, TurnFacts DEF SpanOf
  <2>3. \A k \in DOMAIN pieces : pieces[k].from \in 0..(pieces[k].to - 1) /\ pieces[k].page \in 0..Len(pages)
    <3>1. \A k \in DOMAIN pieces : PieceOf(pieces[k])
      BY DEF TextInv
    <3>2. \A k \in DOMAIN pieces : pieces[k] \in PieceType
      BY TurnFacts
    <3>3. \A k \in DOMAIN pieces : pieces[k].from \in Nat /\ pieces[k].to \in Nat /\ pieces[k].page \in Nat
      BY <3>2 DEF PieceType
    <3> QED
      BY <3>1, <3>3, TurnFacts DEF PieceOf
  <2> QED
    BY <2>1, <2>2, <2>3 DEF TextInv, TextTypes, TextTypeOK
<1>2. NothingLeftOut
  <2>1. stage = "chunked" => DOMAIN spans = {} /\ stage \in Begun /\ stage # "chunking"
    <3>1. stage = "chunked" => spans = <<>>
      BY DEF TextInv, StageInv
    <3> QED
      BY <3>1 DEF Begun
  <2>2. stage = "chunked" /\ strategy = "recursive" =>
            \A p \in DOMAIN pages : \A i \in DOMAIN pages[p].text : Visible(pages[p].text[i]) => InPieceOf(p, i)
    BY <2>1 DEF TextInv, RecursiveInv
  <2>3. stage = "chunked" /\ strategy \in {"fixed", "parent_child"} =>
            \A i \in DOMAIN full : Visible(full[i]) => InPiece(i)
    BY <2>1 DEF TextInv, FixedInv, FamilyInv
  <2>4. strategy \in {"fixed", "recursive", "semantic", "parent_child"}
    BY TurnFacts DEF Strategies
  <2> QED
    BY <2>2, <2>3, <2>4 DEF NothingLeftOut, InPiece, InPieceOf, Within
<1>3. PageNotLate
  <2>1. ASSUME strategy \in {"fixed", "parent_child"}, NEW k \in DOMAIN pieces
        PROVE  /\ pieces[k].page # 0
               /\ \A i \in (pieces[k].from + 1)..pieces[k].to : pieces[k].page <= TruePage(i)
    <3>1. stage \in Begun
      <4>1. stage \notin Begun => DOMAIN pieces = {}
        BY DEF TextInv, StageInv
      <4> QED
        BY <4>1
    <3>2. full = Merged(pages)
      BY <3>1 DEF TextInv, StageInv
    <3>3. pieces[k].from \in Nat /\ pieces[k].to \in Nat
      <4>1. pieces[k] \in PieceType
        BY TurnFacts
      <4> QED
        BY <4>1 DEF PieceType
    <3>4. pieces[k].from < pieces[k].to /\ pieces[k].to <= Len(full) /\ pieces[k].page = PageOf(pieces[k].from)
      BY <2>1 DEF TextInv, PieceOf
    <3>5. PICK from \in Nat : from = pieces[k].from
      BY <3>3
    <3>6. PICK n \in Nat : n = Len(full)
      BY TurnFacts
    <3>7. pages \in Seq(PageType)
      BY TurnFacts
    <3>8. from < Len(Merged(pages))
      BY <3>2, <3>3, <3>4, <3>5, <3>6
    <3>9. /\ PageOf(from) \in 1..Len(pages)
          /\ \A i \in 1..Len(Merged(pages)) : from < i => PageOf(from) <= TruePage(i)
      BY <3>7, <3>8, PageOfMeans
    <3>10. \A i \in (from + 1)..pieces[k].to : i \in 1..n /\ from < i
      BY <3>3, <3>4, <3>6
    <3> QED
      BY <3>2, <3>4, <3>5, <3>6, <3>9, <3>10
  <2> QED
    BY <2>1 DEF PageNotLate
<1> QED
  BY <1>1, <1>2, <1>3 DEF TextIsChunked

---------------------------------------------------------------------------
ServicesIInv == DocInv /\ TextInv /\ AuditInv /\ MsgInv /\ CacheInv

LEMMA StepsApart ==
    ASSUME [Next]_vars
    PROVE  /\ [DocNext]_docVars /\ [TextNext]_textVars /\ [AuditNext]_auditVars
           /\ [MessagingNext]_messagingVars /\ [CacheNext]_cacheVars
  BY DEF Next, vars, OnDocuments, OnText, OnAudit, OnMessaging, OnCache

LEMMA InitHolds == Init => ServicesIInv
<1> SUFFICES ASSUME Init PROVE ServicesIInv
    OBVIOUS
<1>1. DocInv /\ TextInv /\ AuditInv /\ CacheInv
      BY DocInitInv, TextInitInv, AuditInitInv, CacheInitInv DEF Init
<1>2. MsgInv
      BY MsgInitInv DEF Init, MessagingInit
<1> QED BY <1>1, <1>2 DEF ServicesIInv

LEMMA NextHolds == ServicesIInv /\ [Next]_vars => ServicesIInv'
  BY StepsApart, DocNextInv, TextNextInv, AuditNextInv, MsgNextInv, CacheNextInv DEF ServicesIInv

\* The inductive invariant of the document service and its worker, of the text that
\* the worker makes of a file, of the audit service, of the shared RabbitMQ client and of the shared cache.
THEOREM ServicesInvariance == Spec => []ServicesIInv
  BY InitHolds, NextHolds, PTL DEF Spec

\* A document that can be downloaded has its file (upload_document and the
\* deletion), a message saves its chunks once per delivery at most
\* (_process_document), an export that _run_export reports as completed has every
\* row it was asked for, a message of a shared queue is never dropped before its
\* retries are used up and handled again only after its channel was lost
\* (consume), and get_or_set answers nothing that is older than its expiry allows.
THEOREM ServicesAreSafe == Spec => []ServicesInv
<1>1. ServicesIInv => ServicesInv
      BY DocPromises, AuditPromises, MsgPromises, CachePromises DEF ServicesIInv, ServicesInv, TypeOK
<1> QED BY ServicesInvariance, <1>1, PTL

\* Whatever a file holds and however it is read, cleaned and divided: every visible
\* character of the text is in a chunk that search can find once the chunker
\* (FixedChunker, RecursiveChunker, ParentChildChunker) is done, and the page that
\* _find_page_for_offset gives a chunk is one, and never after its text.
THEOREM TextIsKept == Spec => []TextIsChunked
<1>1. ServicesIInv => TextIsChunked
      BY TextPromises DEF ServicesIInv
<1> QED BY ServicesInvariance, <1>1, PTL

\* What the worker has finished with or given up is recorded in the row of its
\* document, or its process was lost before it could be (_process_document).
THEOREM EndsAreRecorded == Spec => []EndIsRecorded
<1>1. ServicesIInv => EndIsRecorded
      BY DocPromises DEF ServicesIInv
<1> QED BY ServicesInvariance, <1>1, PTL

\* Whatever is lost, killed or stopped, an audit event whose message was
\* acknowledged (_on_message) is stored, on its way, or on one of the ways out
\* that the code has: it did not validate, its insertion failed, or its process
\* was gone.
THEOREM NothingIsLost == Spec => []AckedIsKept
<1>1. ServicesIInv => AckedIsKept
      BY AuditPromises DEF ServicesIInv
<1> QED BY ServicesInvariance, <1>1, PTL
=============================================================================
