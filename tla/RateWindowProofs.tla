-------------------------- MODULE RateWindowProofs --------------------------
(***************************************************************************)
(* Proofs about RateWindow, for any keys, limits, window and instants, and *)
(* for any number of keys that starts a clean-up.                          *)
(***************************************************************************)
EXTENDS RateWindow, FiniteSetTheorems, SequenceTheorems, TLAPS

-----------------------------------------------------------------------------
(* Buckets and logs.                                                       *)

\* Numbers of an instant are naturals, and so are its distances.
LEMMA Numbers ==
    /\ Window \in Nat /\ \A t \in Times : t \in Nat
    /\ \A l \in Seq(Times) : /\ Len(l) \in Nat
                             /\ \A i \in 1..Len(l) : l[i] \in Times /\ l[i] \in Nat
<1>1. Window \in Nat /\ \A t \in Times : t \in Nat
  BY WindowAssumption, TimesAssumption
<1>2. ASSUME NEW l \in Seq(Times)
      PROVE  Len(l) \in Nat /\ \A i \in 1..Len(l) : l[i] \in Times
  BY LenProperties, ElementOfSeq
<1> QED
  BY <1>1, <1>2

\* The clock goes on.
LEMMA LaterEnd ==
    ASSUME NEW b \in Seq(Times), NEW l \in Seq(Times), NEW t \in Times,
           NEW u \in Times, u >= t, EndOf(b, l, t), Ordered(l, t)
    PROVE  EndOf(b, l, u) /\ Ordered(l, u)
<1>1. \A i \in 1..Len(l) : l[i] < t - Window => l[i] < u - Window
  BY Numbers
<1>2. EndOf(b, l, u)
  BY <1>1, Numbers DEF EndOf
<1>3. Ordered(l, u)
  BY Numbers DEF Ordered
<1> QED
  BY <1>2, <1>3

\* An old instant leaves the bucket.
LEMMA PopEnd ==
    ASSUME NEW b \in Seq(Times), NEW l \in Seq(Times), NEW t \in Times,
           EndOf(b, l, t), b # <<>>, Head(b) < t - Window
    PROVE  Tail(b) \in Seq(Times) /\ EndOf(Tail(b), l, t)
<1>1. /\ Tail(b) \in Seq(Times) /\ Len(Tail(b)) = Len(b) - 1
      /\ \A i \in 1..Len(Tail(b)) : Tail(b)[i] = b[i + 1]
  BY HeadTailProperties
<1>2. Len(b) \in Nat /\ Len(b) >= 1 /\ Len(l) \in Nat /\ Head(b) = b[1]
  BY Numbers, EmptySeq
<1> DEFINE n == Len(l) - Len(b)
<1>3. n \in Nat /\ Len(l) - Len(Tail(b)) = n + 1
  BY <1>1, <1>2 DEF EndOf
<1>4. l[n + 1] < t - Window
  BY <1>2 DEF EndOf
<1>5. \A i \in 1..n + 1 : l[i] < t - Window
  <2> SUFFICES ASSUME NEW i \in 1..n + 1 PROVE l[i] < t - Window
    OBVIOUS
  <2>1. i \in 1..n \/ i = n + 1
    BY <1>3
  <2> QED
    BY <1>4, <2>1 DEF EndOf
<1>6. \A i \in 1..Len(Tail(b)) : Tail(b)[i] = l[(n + 1) + i]
  <2> SUFFICES ASSUME NEW i \in 1..Len(Tail(b)) PROVE Tail(b)[i] = l[(n + 1) + i]
    OBVIOUS
  <2>1. i + 1 \in 1..Len(b) /\ n + (i + 1) = (n + 1) + i
    BY <1>1, <1>2, <1>3
  <2>2. b[i + 1] = l[n + (i + 1)]
    BY <2>1 DEF EndOf
  <2> QED
    BY <1>1, <2>1, <2>2
<1> QED
  BY <1>1, <1>3, <1>5, <1>6 DEF EndOf

\* A key whose last instant is old may be forgotten.
LEMMA DropEnd ==
    ASSUME NEW b \in Seq(Times), NEW l \in Seq(Times), NEW t \in Times,
           EndOf(b, l, t), Ordered(l, t),
           b = <<>> \/ b[Len(b)] < t - Window
    PROVE  EndOf(<<>>, l, t)
<1>1. CASE b = <<>>
  BY <1>1
<1>2. CASE b # <<>> /\ b[Len(b)] < t - Window
  <2>1. Len(b) \in Nat /\ Len(b) >= 1 /\ Len(l) \in Nat /\ Len(l) >= Len(b)
    BY <1>2, Numbers, EmptySeq DEF EndOf
  <2>2. Len(b) \in 1..Len(b) /\ (Len(l) - Len(b)) + Len(b) = Len(l)
        /\ Len(l) \in 1..Len(l)
    BY <2>1
  <2>3. l[Len(l)] < t - Window
    BY <1>2, <2>2 DEF EndOf
  <2>4. \A i \in 1..Len(l) : l[i] <= l[Len(l)]
    BY <2>1, <2>2 DEF Ordered
  <2>5. \A i \in 1..Len(l) : l[i] < t - Window
    BY <2>2, <2>3, <2>4, Numbers
  <2>6. Len(<<>>) = 0 /\ Len(l) - 0 = Len(l)
    BY <2>1
  <2> QED
    BY <2>1, <2>5, <2>6 DEF EndOf
<1> QED
  BY <1>1, <1>2

\* A request is let through when the bucket has room.
LEMMA AppendEnd ==
    ASSUME NEW b \in Seq(Times), NEW l \in Seq(Times), NEW t \in Times,
           NEW n \in Nat \ {0}, Len(b) < n,
           EndOf(b, l, t), Ordered(l, t), Spaced(l, n)
    PROVE  /\ Append(b, t) \in Seq(Times) /\ Append(l, t) \in Seq(Times)
           /\ EndOf(Append(b, t), Append(l, t), t)
           /\ Ordered(Append(l, t), t)
           /\ Spaced(Append(l, t), n)
<1> DEFINE c == Append(b, t)
           m == Append(l, t)
<1>1. /\ c \in Seq(Times) /\ Len(c) = Len(b) + 1 /\ c[Len(b) + 1] = t
      /\ \A i \in 1..Len(b) : c[i] = b[i]
  BY AppendProperties
<1>2. /\ m \in Seq(Times) /\ Len(m) = Len(l) + 1 /\ m[Len(l) + 1] = t
      /\ \A i \in 1..Len(l) : m[i] = l[i]
  BY AppendProperties
<1>3. /\ Len(b) \in Nat /\ Len(l) \in Nat /\ Len(l) >= Len(b) /\ t \in Nat
      /\ Window \in Nat
  BY Numbers DEF EndOf
<1> HIDE DEF c, m
<1>4. EndOf(c, m, t)
  <2> DEFINE d == Len(l) - Len(b)
  <2>1. d \in Nat /\ Len(m) - Len(c) = d
    BY <1>1, <1>2, <1>3
  <2>2. \A i \in 1..d : m[i] < t - Window
    <3> SUFFICES ASSUME NEW i \in 1..d PROVE m[i] < t - Window
      OBVIOUS
    <3>1. i \in 1..Len(l)
      BY <1>3
    <3>2. l[i] < t - Window
      BY DEF EndOf
    <3> QED
      BY <1>2, <3>1, <3>2
  <2>3. \A i \in 1..Len(c) : c[i] = m[d + i]
    <3> SUFFICES ASSUME NEW i \in 1..Len(c) PROVE c[i] = m[d + i]
      OBVIOUS
    <3>1. CASE i \in 1..Len(b)
      <4>1. d + i \in 1..Len(l)
        BY <1>3, <3>1
      <4>2. b[i] = l[d + i]
        BY <3>1 DEF EndOf
      <4> QED
        BY <1>1, <1>2, <3>1, <4>1, <4>2
    <3>2. CASE i = Len(b) + 1
      <4>1. d + i = Len(l) + 1
        BY <1>3, <3>2
      <4> QED
        BY <1>1, <1>2, <3>2, <4>1
    <3> QED
      BY <1>1, <1>3, <3>1, <3>2
  <2> HIDE DEF d
  <2>4. d >= 0
    BY <2>1
  <2> QED
    BY <2>1, <2>2, <2>3, <2>4, Zenon DEF EndOf
<1>5. Ordered(m, t)
  <2> SUFFICES ASSUME NEW i \in 1..Len(m), NEW j \in 1..Len(m)
               PROVE  m[i] <= t /\ (i <= j => m[i] <= m[j])
    BY DEF Ordered
  <2>1. \A x \in 1..Len(m) : x \in 1..Len(l) \/ x = Len(l) + 1
    BY <1>2, <1>3
  <2>2. m[i] <= t
    BY <1>2, <1>3, <2>1 DEF Ordered
  <2>3. CASE i \in 1..Len(l) /\ j \in 1..Len(l)
    BY <1>2, <2>2, <2>3 DEF Ordered
  <2>4. CASE j = Len(l) + 1
    BY <1>2, <2>2, <2>4
  <2>5. CASE i = Len(l) + 1 /\ j \in 1..Len(l)
    BY <1>3, <2>2, <2>5
  <2> QED
    BY <2>1, <2>3, <2>4, <2>5
<1>6. Spaced(m, n)
  <2> SUFFICES ASSUME NEW i \in 1..Len(m) - n PROVE m[i + n] - m[i] > Window
    BY DEF Spaced
  <2>1. /\ i \in Nat /\ i >= 1 /\ i \in 1..Len(l)
        /\ i + n \in 1..Len(l) \/ i + n = Len(l) + 1
    BY <1>2, <1>3
  <2>2. CASE i + n \in 1..Len(l)
    <3>1. i \in 1..Len(l) - n
      BY <1>3, <2>1, <2>2
    <3> QED
      BY <1>2, <2>1, <2>2, <3>1 DEF Spaced
  <2>3. CASE i + n = Len(l) + 1
    <3>1. i \in 1..Len(l) - Len(b)
      BY <1>3, <2>1, <2>3
    <3>2. l[i] < t - Window /\ l[i] \in Nat
      BY <2>1, <3>1, Numbers DEF EndOf
    <3>3. m[i + n] = t /\ m[i] = l[i]
      BY <1>2, <2>1, <2>3
    <3> QED
      BY <1>3, <3>2, <3>3
  <2> QED
    BY <2>1, <2>2, <2>3
<1> QED
  BY <1>1, <1>2, <1>4, <1>5, <1>6 DEF c, m

\* What is left in the bucket is what the promise counts.
LEMMA CountEnd ==
    ASSUME NEW b \in Seq(Times), NEW l \in Seq(Times), NEW t \in Times,
           EndOf(b, l, t), Ordered(l, t),
           b # <<>> => ~(Head(b) < t - Window)
    PROVE  Cardinality({i \in 1..Len(l) : l[i] >= t - Window}) = Len(b)
<1> DEFINE n == Len(l) - Len(b)
           R == {i \in 1..Len(l) : l[i] >= t - Window}
<1>1. /\ Len(b) \in Nat /\ Len(l) \in Nat /\ n \in Nat
      /\ t - Window \in Int
  BY Numbers DEF EndOf
<1>2. \A i \in 1..n : i \notin R
  BY <1>1, Numbers DEF EndOf
<1>3. \A i \in n + 1..Len(l) : i \in R
  <2> SUFFICES ASSUME NEW i \in n + 1..Len(l) PROVE i \in R
    OBVIOUS
  <2>1. b # <<>> /\ Head(b) = b[1] /\ 1 \in 1..Len(b)
    BY <1>1, EmptySeq
  <2>2. b[1] = l[n + 1] /\ n + 1 \in 1..Len(l) /\ i \in 1..Len(l)
    BY <1>1, <2>1 DEF EndOf
  <2>3. l[n + 1] >= t - Window /\ l[n + 1] \in Nat
    BY <1>1, <2>1, <2>2, Numbers
  <2>4. l[n + 1] <= l[i] /\ l[i] \in Nat
    <3>1. n + 1 <= i
      BY <1>1
    <3> HIDE DEF n
    <3>2. l[n + 1] <= l[i]
      BY <2>2, <3>1 DEF Ordered
    <3> QED
      BY <2>2, <3>2, Numbers
  <2>5. l[i] >= t - Window
    BY <1>1, <2>3, <2>4
  <2> QED
    BY <2>2, <2>5
<1>4. R = n + 1..Len(l)
  <2>1. \A i \in R : i \in 1..Len(l)
    OBVIOUS
  <2> HIDE DEF R
  <2>2. \A i \in 1..Len(l) : i \in 1..n \/ i \in n + 1..Len(l)
    BY <1>1
  <2>3. \A i \in n + 1..Len(l) : i \in R
    BY <1>3
  <2> QED
    BY <1>2, <2>1, <2>2, <2>3
<1>5. /\ n + 1 \in Int /\ Len(l) \in Int
      /\ (IF n + 1 > Len(l) THEN 0 ELSE Len(l) - (n + 1) + 1) = Len(b)
  BY <1>1
<1> HIDE DEF n, R
<1>6. Cardinality(R) = Len(b)
  BY <1>4, <1>5, FS_Interval
<1> QED
  BY <1>6 DEF R

-----------------------------------------------------------------------------
(* The steps.                                                              *)

\* What the invariant says of the bucket that is looked at.
LEMMA AtKey ==
    ASSUME WindowInv, NEW k \in Keys
    PROVE  /\ attempts[k] \in Seq(Times) /\ log[k] \in Seq(Times)
           /\ current \in Times /\ Limit[k] \in Nat \ {0}
           /\ EndOf(attempts[k], log[k], current)
           /\ Ordered(log[k], current) /\ Spaced(log[k], Limit[k])
  BY LimitAssumption DEF WindowInv, TypeOK, BucketInv, NeverOverLimit

LEMMA ArriveInv ==
    ASSUME WindowInv, NEW k \in Keys, NEW t \in Times, Arrive(k, t)
    PROVE  WindowInv'
<1>1. TypeOK'
  BY DEF WindowInv, TypeOK, Arrive
<1>2. BucketInv'
  BY AtKey, LaterEnd DEF BucketInv, Arrive
<1>3. KnownInv'
  <2>1. reply.at \in Nat /\ current \in Nat /\ t \in Nat
    BY Numbers DEF WindowInv, TypeOK
  <2> QED
    BY <2>1 DEF WindowInv, KnownInv, Arrive
<1>4. NeverOverLimit' /\ KeysAreLive'
  BY DEF WindowInv, NeverOverLimit, KeysAreLive, Arrive, Spaced
<1> QED
  BY <1>1, <1>2, <1>3, <1>4 DEF WindowInv

LEMMA PopLeftInv ==
    ASSUME WindowInv, PopLeft
    PROVE  WindowInv'
<1>1. /\ key \in Keys /\ key \in known /\ attempts \in [Keys -> Seq(Times)]
      /\ attempts' = [attempts EXCEPT ![key] = Tail(attempts[key])]
      /\ UNCHANGED <<known, current, key, pc, log, reply>>
  BY DEF WindowInv, TypeOK, KnownInv, PopLeft
<1>2. /\ Tail(attempts[key]) \in Seq(Times)
      /\ EndOf(Tail(attempts[key]), log[key], current)
  BY <1>1, AtKey, PopEnd DEF PopLeft, Bucket, Old
<1>3. TypeOK'
  BY <1>1, <1>2 DEF WindowInv, TypeOK
<1>4. BucketInv'
  BY <1>1, <1>2 DEF WindowInv, BucketInv
<1>5. KnownInv'
  BY <1>1 DEF WindowInv, KnownInv
<1>6. NeverOverLimit' /\ KeysAreLive'
  BY <1>1 DEF WindowInv, NeverOverLimit, Spaced, KeysAreLive, PopLeft
<1> QED
  BY <1>3, <1>4, <1>5, <1>6 DEF WindowInv

LEMMA RefuseInv ==
    ASSUME WindowInv, Refuse
    PROVE  WindowInv'
<1>1. TypeOK'
  BY DEF WindowInv, TypeOK, Refuse
<1>2. BucketInv' /\ NeverOverLimit'
  BY DEF WindowInv, BucketInv, NeverOverLimit, Spaced, EndOf, Ordered, Refuse
<1>3. KnownInv' /\ KeysAreLive'
  <2>1. current \in Nat
    BY Numbers DEF WindowInv, TypeOK
  <2> QED
    BY <2>1 DEF WindowInv, KnownInv, KeysAreLive, Refuse
<1> QED
  BY <1>1, <1>2, <1>3 DEF WindowInv

LEMMA AdmitInv ==
    ASSUME WindowInv, Admit
    PROVE  WindowInv'
<1> DEFINE buckets == [attempts EXCEPT ![key] = Append(@, current)]
           gone    == IF Crowded THEN Dead(buckets) ELSE {}
<1>1. /\ key \in Keys /\ attempts \in [Keys -> Seq(Times)]
      /\ log \in [Keys -> Seq(Times)] /\ current \in Times
      /\ known \in SUBSET Keys /\ Len(attempts[key]) < Limit[key]
  BY DEF WindowInv, TypeOK, Admit, Bucket
<1>2. /\ attempts' = [k \in Keys |-> IF k \in gone THEN <<>> ELSE buckets[k]]
      /\ known' = known \ gone
      /\ log' = [log EXCEPT ![key] = Append(log[key], current)]
      /\ reply' = [key |-> key, at |-> current, ok |-> TRUE]
      /\ pc' = "idle" /\ UNCHANGED <<current, key>>
  BY DEF Admit
<1>3. /\ Append(attempts[key], current) \in Seq(Times)
      /\ Append(log[key], current) \in Seq(Times)
      /\ EndOf(Append(attempts[key], current), Append(log[key], current), current)
      /\ Ordered(Append(log[key], current), current)
      /\ Spaced(Append(log[key], current), Limit[key])
  BY <1>1, AtKey, AppendEnd
<1>4. \A k \in Keys :
         /\ buckets[k] \in Seq(Times) /\ log'[k] \in Seq(Times)
         /\ EndOf(buckets[k], log'[k], current) /\ Ordered(log'[k], current)
         /\ Spaced(log'[k], Limit[k])
  <2> SUFFICES ASSUME NEW k \in Keys
               PROVE  /\ buckets[k] \in Seq(Times) /\ log'[k] \in Seq(Times)
                      /\ EndOf(buckets[k], log'[k], current)
                      /\ Ordered(log'[k], current)
                      /\ Spaced(log'[k], Limit[k])
    OBVIOUS
  <2>1. CASE k = key
    <3>1. /\ buckets[k] = Append(attempts[key], current)
          /\ log'[k] = Append(log[key], current)
      BY <1>1, <1>2, <2>1
    <3> QED
      BY <1>3, <2>1, <3>1
  <2>2. CASE k # key
    <3>1. buckets[k] = attempts[k] /\ log'[k] = log[k]
      BY <1>1, <1>2, <2>2
    <3> QED
      BY <3>1, AtKey
  <2> QED
    BY <2>1, <2>2
<1>5. \A k \in gone : k \in known /\ (buckets[k] = <<>> \/ Old(buckets[k][Len(buckets[k])]))
  BY DEF Dead
<1>6. \A k \in known \ gone : Crowded =>
         buckets[k] # <<>> /\ ~Old(buckets[k][Len(buckets[k])])
  BY DEF Dead
<1> HIDE DEF buckets, gone
<1>7. \A k \in Keys :
         /\ attempts'[k] \in {buckets[k], <<>>}
         /\ attempts'[k] \in Seq(Times) /\ EndOf(attempts'[k], log'[k], current)
  <2> SUFFICES ASSUME NEW k \in Keys
               PROVE  /\ attempts'[k] \in {buckets[k], <<>>}
                      /\ attempts'[k] \in Seq(Times)
                      /\ EndOf(attempts'[k], log'[k], current)
    OBVIOUS
  <2>1. CASE k \in gone
    <3>1. EndOf(<<>>, log'[k], current)
      BY <1>1, <1>4, <1>5, <2>1, DropEnd DEF Old
    <3>2. attempts'[k] = <<>> /\ <<>> \in Seq(Times)
      BY <1>2, <2>1, EmptySeq
    <3> QED
      BY <3>1, <3>2
  <2>2. CASE k \notin gone
    BY <1>2, <1>4, <2>2
  <2> QED
    BY <2>1, <2>2
<1>8. TypeOK'
  <2>1. attempts' \in [Keys -> Seq(Times)]
    BY <1>2, <1>7
  <2>2. log' \in [Keys -> Seq(Times)]
    BY <1>1, <1>2, <1>3
  <2> QED
    BY <1>1, <1>2, <2>1, <2>2 DEF TypeOK
<1>9. BucketInv' /\ NeverOverLimit'
  <2>1. \A k \in Keys : EndOf(attempts'[k], log'[k], current')
                        /\ Ordered(log'[k], current')
    BY <1>2, <1>4, <1>7
  <2>2. \A k \in Keys : Spaced(log'[k], Limit[k])
    BY <1>4
  <2> QED
    BY <2>1, <2>2 DEF BucketInv, NeverOverLimit, EndOf, Ordered, Spaced
<1>10. KnownInv'
  <2>1. \A k \in Keys \ known' : attempts'[k] = <<>>
    <3> SUFFICES ASSUME NEW k \in Keys \ known' PROVE attempts'[k] = <<>>
      OBVIOUS
    <3>1. CASE k \in gone
      BY <1>2, <3>1
    <3>2. CASE k \notin gone
      <4>1. k \notin known /\ k # key
        BY <1>2, <3>2 DEF WindowInv, KnownInv, Admit, Evicted
      <4>2. attempts'[k] = buckets[k] /\ buckets[k] = attempts[k]
        BY <1>1, <1>2, <3>2, <4>1 DEF buckets
      <4> QED
        BY <4>1, <4>2 DEF WindowInv, KnownInv
    <3> QED
      BY <3>1, <3>2
  <2>2. current \in Nat
    BY <1>1, Numbers
  <2> QED
    BY <1>2, <2>1, <2>2 DEF KnownInv
<1>11. KeysAreLive'
  <2> SUFFICES ASSUME Cardinality(known') > MaxKeys, NEW k \in known'
               PROVE  \E i \in 1..Len(attempts'[k]) :
                         ~(attempts'[k][i] < current' - Window)
    BY DEF KeysAreLive, Old
  <2>1. Crowded
    <3>1. IsFiniteSet(known)
      BY <1>1, KeysAssumption, FS_Subset
    <3>2. /\ Cardinality(known') <= Cardinality(known)
          /\ Cardinality(known) \in Nat /\ Cardinality(known') \in Nat
      BY <1>2, <3>1, FS_Subset, FS_CardinalityType
    <3> QED
      BY <3>2, MaxKeysAssumption DEF Crowded
  <2>2. /\ attempts'[k] = buckets[k] /\ buckets[k] # <<>>
        /\ ~Old(buckets[k][Len(buckets[k])]) /\ k \in Keys
    BY <1>1, <1>2, <1>6, <2>1
  <2>3. Len(buckets[k]) \in 1..Len(buckets[k])
    BY <1>4, <2>2, EmptySeq
  <2>4. ~(attempts'[k][Len(buckets[k])] < current' - Window)
    BY <1>2, <2>2 DEF Old
  <2> QED
    BY <2>2, <2>3, <2>4
<1> QED
  BY <1>8, <1>9, <1>10, <1>11 DEF WindowInv

-----------------------------------------------------------------------------
(* The theorems.                                                           *)

LEMMA InitInv ==
    ASSUME Init PROVE WindowInv
<1>1. TypeOK
  BY EmptySeq DEF Init, TypeOK
<1>2. \A k \in Keys : attempts[k] = <<>> /\ log[k] = <<>>
  BY DEF Init
<1>3. EndOf(<<>>, <<>>, current) /\ Ordered(<<>>, current)
  BY DEF EndOf, Ordered
<1>4. \A k \in Keys : Spaced(<<>>, Limit[k])
  BY LimitAssumption DEF Spaced
<1>5. BucketInv /\ NeverOverLimit
  BY <1>2, <1>3, <1>4 DEF BucketInv, NeverOverLimit
<1>6. KnownInv /\ KeysAreLive
  BY <1>1, Numbers DEF Init, TypeOK, KnownInv, KeysAreLive
<1> QED
  BY <1>1, <1>5, <1>6 DEF WindowInv

\* Buckets are the ends of the logs of what was let through, whatever the
\* loop and the clean-up have dropped (main.py:88-104).
THEOREM Invariance == Spec => []WindowInv
<1>1. Init => WindowInv
  BY InitInv
<1>2. WindowInv /\ [Next]_vars => WindowInv'
  <2>1. ASSUME WindowInv, UNCHANGED vars PROVE WindowInv'
    BY <2>1
    DEF WindowInv, TypeOK, BucketInv, KnownInv, NeverOverLimit, KeysAreLive,
        EndOf, Ordered, Spaced, Old, vars
  <2> QED
    BY <2>1, ArriveInv, PopLeftInv, RefuseInv, AdmitInv DEF Next
<1> QED
  BY <1>1, <1>2, PTL DEF Spec

\* No window holds more requests of a key than its limit (main.py:92-94).
THEOREM LimitHolds == Spec => []NeverOverLimit
<1>1. WindowInv => NeverOverLimit
  BY DEF WindowInv
<1> QED
  BY <1>1, Invariance, PTL

\* With more than MaxKeys keys none of them is dead (main.py:101-104).
THEOREM MemoryIsLive == Spec => []KeysAreLive
<1>1. WindowInv => KeysAreLive
  BY DEF WindowInv
<1> QED
  BY <1>1, Invariance, PTL

\* The promise counts as the limiter does.
LEMMA SameCount == \A S : Limiter!Cardinality(S) = Cardinality(S)
  BY DEF Limiter!Cardinality, Cardinality, Limiter!IsFiniteSet, IsFiniteSet

\* What the bucket holds is what the promise counts.
LEMMA Counted ==
    ASSUME WindowInv, Evicted
    PROVE  /\ key \in Keys /\ current \in Times /\ current >= reply.at
           /\ Cardinality(Limiter!Recent(key, current)) = Len(Bucket)
<1>1. key \in Keys /\ current \in Times /\ reply.at <= current
  BY DEF WindowInv, TypeOK, KnownInv
<1>2. reply.at \in Nat /\ current \in Nat
  BY Numbers DEF WindowInv, TypeOK
<1>3. Cardinality({i \in 1..Len(log[key]) : log[key][i] >= current - Window})
        = Len(Bucket)
  BY <1>1, AtKey, CountEnd DEF Evicted, Bucket, Old
<1> QED
  BY <1>1, <1>2, <1>3 DEF Limiter!Recent

\* The bucket and its clean-up implement a limiter that remembers every
\* request (main.py:88-104).
THEOREM Implements == Spec => LimiterSpec
<1>1. Init => Limiter!Init
  BY DEF Init, Limiter!Init
<1>2. WindowInv /\ [Next]_vars => [Limiter!Next]_<<log, reply>>
  <2> SUFFICES ASSUME WindowInv, [Next]_vars
               PROVE  [Limiter!Next]_<<log, reply>>
    OBVIOUS
  <2>1. CASE Admit
    <3>1. Evicted /\ Len(Bucket) < Limit[key]
      BY <2>1 DEF Admit
    <3>2. Cardinality(Limiter!Recent(key, current)) < Limit[key]
      BY <3>1, Counted
    <3>3. Limiter!Let(key, current)
      BY <2>1, <3>2, SameCount DEF Limiter!Let, Admit
    <3> QED
      BY <3>1, <3>3, Counted DEF Limiter!Next
  <2>2. CASE Refuse
    <3>1. Evicted /\ Len(Bucket) >= Limit[key]
      BY <2>2 DEF Refuse
    <3>2. Cardinality(Limiter!Recent(key, current)) >= Limit[key]
      BY <3>1, Counted
    <3>3. Limiter!Refuse(key, current)
      BY <2>2, <3>2, SameCount DEF Limiter!Refuse, Refuse
    <3> QED
      BY <3>1, <3>3, Counted DEF Limiter!Next
  <2>3. CASE \E k \in Keys, t \in Times : Arrive(k, t)
    BY <2>3 DEF Arrive
  <2>4. CASE PopLeft
    BY <2>4 DEF PopLeft
  <2>5. CASE UNCHANGED vars
    BY <2>5 DEF vars
  <2> QED
    BY <2>1, <2>2, <2>3, <2>4, <2>5 DEF Next
<1> QED
  BY <1>1, <1>2, Invariance, PTL DEF Spec, LimiterSpec, Limiter!Spec
=============================================================================
