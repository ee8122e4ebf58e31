------------------------- MODULE TextAndSearchProofs ------------------------
(***************************************************************************)
(* Proofs about SplitText, for texts of any length and every Size and      *)
(* Overlap that the assumptions admit; about Answering, for any library    *)
(* of passages, any tokens and streams of any length; and about            *)
(* VectorSearch, for any passages, filters, weights and limits and as many *)
(* changes of the chunks during a search as there may be.                  *)
(***************************************************************************)
EXTENDS TextAndSearch, SequenceTheorems, FiniteSetTheorems, TLAPS

---------------------------------------------------------------------------
(* split_text. *)

\* The end of a chunk, wherever it is found.
LEMMA Ends ==
    ASSUME TypeOK, start < Len(text), NEW e \in 0..Len(text), Boundary(e)
    PROVE  /\ e > start
           /\ e <= start + Size
           /\ e # Len(text) => e >= start + Size \div 2
<1> DEFINE found == {b \in Spaces : b > start /\ \A i \in Spaces : i <= b}
<1>1. start \in Nat /\ Len(text) \in Nat /\ Size \in Nat /\ Size > 0
      /\ Size \div 2 <= Size
  BY GuardAssumption, TextsAssumption DEF TypeOK
<1>2. Limit \in Nat /\ Limit > start /\ Limit <= start + Size
      /\ (Limit < Len(text) => Limit = start + Size)
  BY <1>1 DEF Limit
<1>3. CASE e \in found
  BY <1>1, <1>2, <1>3 DEF Spaces
<1>4. CASE e = Limit
  BY <1>1, <1>2, <1>4
<1> QED
  BY <1>3, <1>4 DEF Boundary

\* A chunk holds every visible character that it is cut from.
LEMMA StripKeeps ==
    ASSUME NEW from \in Nat, NEW to \in Nat, NEW i \in from..(to - 1),
           Visible(i)
    PROVE  i \in Stripped(from, to)
  BY DEF Stripped

\* A chunk fits, and is stripped.
LEMMA StripFits ==
    ASSUME NEW from \in Nat, NEW to \in Nat, to <= from + Size
    PROVE  LET c == Stripped(from, to) IN
           /\ \A i, j \in c : j - i < Size
           /\ \A k \in c : \E i, j \in c : /\ i <= k /\ k <= j
                                          /\ Visible(i) /\ Visible(j)
<1> DEFINE c == Stripped(from, to)
<1>1. c \subseteq from..(to - 1)
  BY DEF Stripped
<1>2. \A i, j \in c : j - i < Size
  BY <1>1, GuardAssumption
<1>3. ASSUME NEW k \in c
      PROVE  \E i, j \in c : i <= k /\ k <= j /\ Visible(i) /\ Visible(j)
  <2>1. PICK i \in from..k, j \in k..(to - 1) : Visible(i) /\ Visible(j)
    BY <1>3 DEF Stripped
  <2>2. k \in from..(to - 1)
    BY <1>1
  <2>3. i \in c /\ j \in c
    BY <2>1, <2>2, StripKeeps
  <2> QED
    BY <2>1, <2>3
<1> QED
  BY <1>2, <1>3

LEMMA SplitInitInv == Init => SplitInv
<1> SUFFICES ASSUME Init PROVE SplitInv
  OBVIOUS
<1>1. Len(text) \in Nat
  BY TextsAssumption DEF Init
<1>2. TypeOK
  <2>1. chunks \in SUBSET SUBSET (0..(Len(text) - 1))
    BY DEF Init
  <2>2. start \in 0..Len(text) /\ end \in 0..Len(text)
    BY <1>1 DEF Init
  <2> QED
    BY <2>1, <2>2 DEF Init, TypeOK
<1>3. NoTextLost /\ ChunksFit
  BY DEF Init, NoTextLost, ChunksFit
<1> QED
  BY <1>2, <1>3 DEF Init, SplitInv

LEMMA SplitNextInv == SplitInv /\ [Next]_vars => SplitInv'
<1> SUFFICES ASSUME SplitInv, [Next]_vars PROVE SplitInv'
  OBVIOUS
<1> USE DEF SplitInv
<1>0. Len(text) \in Nat /\ start \in Nat /\ end \in Nat /\ Overlap \in Nat
      /\ Size \in Nat
  BY GuardAssumption, TextsAssumption DEF TypeOK
<1>1. CASE Cut
  <2>1. PICK e \in 0..Len(text) :
           /\ Boundary(e)
           /\ end' = e
           /\ chunks' = chunks \union ({Stripped(start, e)} \ {{}})
           /\ IF e = Len(text) THEN done' = TRUE /\ UNCHANGED start
                               ELSE start' = e - Overlap /\ UNCHANGED done
    BY <1>1 DEF Cut
  <2>2. text' = text /\ start < Len(text) /\ ~done
    BY <1>1 DEF Cut
  <2>3. e > start /\ e <= start + Size
        /\ (e # Len(text) => e >= start + Size \div 2)
    BY <2>1, <2>2, Ends
  <2>4. start' \in 0..Len(text) /\ start' <= end'
    BY <1>0, <2>1, <2>3, OverlapAssumption, GuardAssumption
  <2>5. Stripped(start, e) \subseteq 0..(Len(text) - 1)
    BY <1>0, <2>1 DEF Stripped
  <2>6. TypeOK'
    <3> DEFINE Chunk == SUBSET (0..(Len(text) - 1))
    <3>1. chunks \in SUBSET Chunk /\ Stripped(start, e) \in Chunk
      BY <2>5 DEF TypeOK
    <3>2. chunks' \in SUBSET Chunk
      <4> HIDE DEF Chunk
      <4> QED
        BY <2>1, <3>1
    <3>3. done' \in BOOLEAN /\ end' \in 0..Len(text) /\ text \in Texts
      BY <2>1, <2>2 DEF TypeOK
    <3> QED
      BY <2>2, <2>4, <3>2, <3>3 DEF TypeOK
  <2>7. NoTextLost'
    <3>1. ASSUME NEW i \in 0..(e - 1), Visible(i)
          PROVE  \E c \in chunks' : i \in c
      <4>1. CASE i < end
        BY <1>0, <2>1, <3>1, <4>1 DEF NoTextLost
      <4>2. CASE i >= end
        <5>1. i \in start..(e - 1)
          BY <1>0, <2>1, <4>2
        <5>2. i \in Stripped(start, e)
          BY <1>0, <2>1, <3>1, <5>1, StripKeeps
        <5> QED
          BY <2>1, <5>2
      <4> QED
        BY <1>0, <4>1, <4>2
    <3>2. done' => e = Len(text)
      BY <2>1, <2>2
    <3> QED
      BY <2>1, <2>2, <3>1, <3>2 DEF NoTextLost, Visible, Char
  <2>8. ChunksFit'
    <3>1. \A c \in chunks' : c \in chunks \/ c = Stripped(start, e)
      BY <2>1
    <3>2. e \in Nat
      BY <2>1
    <3> QED
      BY <1>0, <2>2, <2>3, <3>1, <3>2, StripFits DEF ChunksFit, Visible, Char
  <2> QED
    BY <2>4, <2>6, <2>7, <2>8
<1>2. CASE Exhausted
  BY <1>0, <1>2 DEF Exhausted, TypeOK, NoTextLost, ChunksFit, Visible, Char
<1>3. CASE UNCHANGED vars
  BY <1>3 DEF vars, TypeOK, NoTextLost, ChunksFit, Visible, Char
<1> QED
  BY <1>1, <1>2, <1>3 DEF Next

\* With an overlap below half of the size the next chunk begins further on.
LEMMA LoopGetsOn ==
    ASSUME Overlap < Size \div 2, SplitInv, [Next]_vars
    PROVE  [start' > start \/ done']_vars
<1> SUFFICES ASSUME SplitInv, Next PROVE start' > start \/ done'
  OBVIOUS
<1>1. CASE Cut
  <2>1. PICK e \in 0..Len(text) :
           /\ Boundary(e)
           /\ IF e = Len(text) THEN done' = TRUE /\ UNCHANGED start
                               ELSE start' = e - Overlap /\ UNCHANGED done
    BY <1>1 DEF Cut
  <2>2. start < Len(text) /\ TypeOK
    BY <1>1 DEF Cut, SplitInv
  <2>3. e # Len(text) => e >= start + Size \div 2
    BY <2>1, <2>2, Ends
  <2> QED
    BY <2>1, <2>2, <2>3, GuardAssumption DEF TypeOK
<1>2. CASE Exhausted
  BY <1>2 DEF Exhausted
<1> QED
  BY <1>1, <1>2 DEF Next


---------------------------------------------------------------------------
(* Answering. *)

\* Content that was received is in the answer, generate takes a stream for
\* complete when it is at its end, and "done" says what is stored.
GroundedInv ==
    /\ AnswerTypeOK
    /\ answer \in Seq(Marks)
    /\ sources \in Seq(Library)
    /\ completed => finished
    /\ received => answer # <<>>
    /\ told # "none" => told = status
    /\ told = "completed" /\ Generates => completed /\ received /\ ~Invalid

\* How many passages have a score.
LEMMA ScoredAreFinite ==
    ASSUME NEW q
    PROVE  IsFiniteSet(Scored(q)) /\ Cardinality(Scored(q)) \in Nat /\ Scored(q) \subseteq Library
<1>1. Scored(q) \subseteq Library
      BY DEF Scored, Candidates
<1> QED BY <1>1, AnsweringAssumption, FS_Subset, FS_CardinalityType

\* The hits are a list of passages.
LEMMA HitsAre ==
    ASSUME NEW q, q.top_k \in Nat, NEW s \in Hits(q)
    PROVE  s \in Seq(Library)
<1> DEFINE S == Scored(q)
           n == IF Cardinality(S) <= q.top_k THEN Cardinality(S) ELSE q.top_k
<1>1. n \in Nat /\ S \subseteq Library
      BY ScoredAreFinite
<1>2. s \in [1..n -> S]
      BY DEF Hits
<1> HIDE DEF S, n
<1>3. s \in [1..n -> Library]
      BY <1>1, <1>2
<1> QED BY <1>1, <1>3, SeqDef

LEMMA AnswerInitInv == AnswerInit => GroundedInv
<1> SUFFICES ASSUME AnswerInit PROVE GroundedInv
    OBVIOUS
<1>1. /\ sources = <<>> /\ answer = <<>> /\ status = "idle" /\ told = "none"
      /\ completed = FALSE /\ received = FALSE
      BY DEF AnswerInit
<1>2. lines \in 0..MaxLines
      BY AnsweringAssumption DEF AnswerInit
<1>3. \A i \in DOMAIN sources : sources[i] \in Library
      <2>1. DOMAIN sources = {}
            BY <1>1
      <2> QED BY <2>1
<1>4. AnswerTypeOK
      BY <1>1, <1>2, <1>3 DEF AnswerInit, AnswerTypeOK
<1> QED BY <1>1, <1>4, EmptySeq DEF GroundedInv

LEMMA RetrieveInv == ASSUME GroundedInv, Retrieve PROVE GroundedInv'
<1>1. /\ sources' \in Hits(question') /\ question'.top_k \in 1..MaxTop
      /\ provider' \in {"extractive", "ollama", "openai"}
      /\ status = "idle" /\ status' = "generating"
      /\ UNCHANGED <<generation, told>>
      BY DEF Retrieve
<1>2. question'.top_k \in Nat
      BY <1>1, AnsweringAssumption
<1>3. sources' \in Seq(Library)
      BY <1>1, <1>2, HitsAre
<1>4. \A i \in DOMAIN sources' : sources'[i] \in Library
      BY <1>3, ElementOfSeq, LenProperties
<1>5. told = "none"
      BY <1>1 DEF GroundedInv, AnswerTypeOK
<1>6. AnswerTypeOK'
      BY <1>1, <1>4 DEF GroundedInv, AnswerTypeOK, generation
<1> QED BY <1>1, <1>3, <1>5, <1>6 DEF GroundedInv, generation

\* Content that comes is added to a sequence of marks.
LEMMA BringIs ==
    ASSUME GroundedInv, NEW content \in Contents \union {<<>>}, Bring(content)
    PROVE  answer' \in Seq(Marks) /\ (received' => answer' # <<>>) /\ received' \in BOOLEAN
<1>1. content \in Seq(Marks) /\ answer \in Seq(Marks)
      BY AnsweringAssumption, EmptySeq DEF GroundedInv
<1>2. answer' = answer \o content /\ received' = (received \/ content # <<>>)
      BY DEF Bring
<1>3. answer' \in Seq(Marks) /\ Len(answer') = Len(answer) + Len(content)
      BY <1>1, <1>2, ConcatProperties
<1>4. /\ Len(answer) \in Nat /\ Len(content) \in Nat
      /\ (content # <<>> => Len(content) # 0) /\ (answer # <<>> => Len(answer) # 0)
      BY <1>1, LenProperties, EmptySeq
<1>5. received' => Len(answer') # 0
      <2>1. received => answer # <<>>
            BY DEF GroundedInv
      <2>2. received' => received \/ content # <<>>
            BY <1>2
      <2>3. received' => Len(answer) # 0 \/ Len(content) # 0
            BY <1>4, <2>1, <2>2
      <2> QED BY <1>3, <1>4, <2>3
<1> QED BY <1>2, <1>3, <1>5, EmptySeq

\* As long as the answer is generated, nobody has been told anything; and a
\* step that tells of no completed answer keeps the invariant when it keeps
\* what the provider has sent in order.
LEMMA QuietInv ==
    ASSUME GroundedInv, status = "generating", UNCHANGED <<question, sources, provider>>,
           told' \in {"none", "failed"}, told' # "none" => told' = status',
           status' \in {"generating", "completed", "failed", "cancelled"},
           lines' \in 0..MaxLines, answer' \in Seq(Marks), received' => answer' # <<>>,
           received' \in BOOLEAN, completed' \in BOOLEAN, finished' \in BOOLEAN,
           completed' => finished'
    PROVE  GroundedInv'
<1>1. AnswerTypeOK'
      BY DEF GroundedInv, AnswerTypeOK
<1> QED BY <1>1 DEF GroundedInv

LEMMA Untold == ASSUME GroundedInv, status = "generating" PROVE told = "none"
  BY DEF GroundedInv, AnswerTypeOK

\* A line of the stream.
LEMMA LineInv ==
    ASSUME GroundedInv, Sends, UNCHANGED <<question, sources, provider>>,
           UNCHANGED <<status, told>> \/ Closed,
           answer' \in Seq(Marks), received' => answer' # <<>>,
           received' \in BOOLEAN, completed' \in BOOLEAN, finished' \in BOOLEAN,
           completed' => finished'
    PROVE  GroundedInv'
<1>1. /\ status = "generating" /\ lines' \in 0..MaxLines
      /\ status' \in {"generating", "completed"} /\ told' = "none"
      BY AnsweringAssumption, Untold DEF Sends, GroundedInv, AnswerTypeOK, Closed
<1> QED BY <1>1, QuietInv

LEMMA OllamaLineInv == ASSUME GroundedInv, OllamaLine PROVE GroundedInv'
<1>1. PICK content \in Contents \union {<<>>}, last \in BOOLEAN :
             Bring(content) /\ completed' = last /\ finished' = last
      BY DEF OllamaLine
<1>2. Sends /\ UNCHANGED <<question, sources, provider>>
      BY DEF OllamaLine
<1>3. UNCHANGED <<status, told>> \/ Closed
      BY <1>1 DEF Bring
<1> QED BY <1>1, <1>2, <1>3, BringIs, LineInv

LEMMA OpenAILineInv == ASSUME GroundedInv, OpenAILine PROVE GroundedInv'
<1>1. Sends /\ UNCHANGED <<question, sources, provider>>
      BY DEF OpenAILine
<1>2. /\ finished \in BOOLEAN /\ completed \in BOOLEAN /\ received \in BOOLEAN
      /\ (completed => finished) /\ answer \in Seq(Marks) /\ (received => answer # <<>>)
      BY DEF GroundedInv, AnswerTypeOK
<1>3. ASSUME NEW content \in Contents \union {<<>>}, Bring(content), UNCHANGED <<completed, finished>>
      PROVE  GroundedInv'
      <2>1. answer' \in Seq(Marks) /\ (received' => answer' # <<>>) /\ received' \in BOOLEAN
            BY <1>3, BringIs
      <2>2. completed' \in BOOLEAN /\ finished' \in BOOLEAN /\ (completed' => finished')
            BY <1>2, <1>3
      <2>3. UNCHANGED <<status, told>> \/ Closed
            BY <1>3 DEF Bring
      <2> QED BY <1>1, <2>1, <2>2, <2>3, LineInv
<1>4. ASSUME completed' = TRUE, finished' = TRUE, UNCHANGED <<answer, received, status, told>>
      PROVE  GroundedInv'
      <2>1. answer' \in Seq(Marks) /\ (received' => answer' # <<>>) /\ received' \in BOOLEAN
            BY <1>2, <1>4
      <2>2. completed' \in BOOLEAN /\ finished' \in BOOLEAN /\ (completed' => finished')
            BY <1>4
      <2> QED BY <1>1, <1>4, <2>1, <2>2, LineInv
<1> QED BY <1>3, <1>4 DEF OpenAILine

LEMMA AnswerNextInv == ASSUME GroundedInv, [AnswerNext]_answerVars PROVE GroundedInv'
<1>0. ASSUME status = "generating", UNCHANGED <<question, sources, provider, generation>>,
             told' \in {"none", "failed"}, told' # "none" => told' = status',
             status' \in {"completed", "failed", "cancelled"}
      PROVE  GroundedInv'
      <2>1. /\ lines' \in 0..MaxLines /\ answer' \in Seq(Marks) /\ (received' => answer' # <<>>)
            /\ received' \in BOOLEAN /\ completed' \in BOOLEAN /\ finished' \in BOOLEAN
            /\ (completed' => finished')
            BY <1>0 DEF GroundedInv, AnswerTypeOK, generation
      <2> QED BY <1>0, <2>1, QuietInv
<1>1. CASE CloseEarly \/ Cancelled
      BY <1>0, <1>1, Untold DEF CloseEarly, Cancelled, Closed
<1>2. CASE StreamFails
      BY <1>0, <1>2 DEF StreamFails, EndsAs
<1>3. CASE Extract \/ StreamEnds
      <2>1. /\ UNCHANGED <<question, sources, provider, generation>> /\ status = "generating"
            /\ status' \in {"failed", "completed"} /\ told' \in {"none", status'}
            /\ status' = "completed" /\ Generates => completed /\ received /\ ~Invalid
            BY <1>3 DEF Extract, StreamEnds, EndsAs
      <2>2. UNCHANGED <<Generates, Invalid>>
            BY <2>1 DEF Generates, Invalid, generation
      <2>3. AnswerTypeOK'
            BY <2>1 DEF GroundedInv, AnswerTypeOK, generation
      <2> QED BY <2>1, <2>2, <2>3 DEF GroundedInv, generation
<1>4. CASE UNCHANGED answerVars
      <2>1. UNCHANGED <<Generates, Invalid>>
            BY <1>4 DEF Generates, Invalid, answerVars, generation
      <2> QED BY <1>4, <2>1 DEF answerVars, generation, GroundedInv, AnswerTypeOK
<1> QED BY <1>1, <1>2, <1>3, <1>4, RetrieveInv, OllamaLineInv, OpenAILineInv DEF AnswerNext

LEMMA GroundedPromises == ASSUME GroundedInv, told = "completed" PROVE ToldIsGrounded
<1>1. ASSUME Generates
      PROVE  /\ finished /\ answer # <<>>
             /\ \A i \in 1..(Len(answer) - 2), n \in DOMAIN Numerals :
                   SubSeq(answer, i, i + 2) = <<"[", Numerals[n], "]">> => n <= Len(sources)
      <2>1. completed /\ received /\ Citations(answer) \subseteq DOMAIN sources
            BY <1>1 DEF GroundedInv, Invalid
      <2>2. finished /\ answer # <<>> /\ answer \in Seq(Marks) /\ Len(answer) \in Nat
            BY <2>1, LenProperties DEF GroundedInv
      <2>3. ASSUME NEW i \in 1..(Len(answer) - 2), NEW n \in DOMAIN Numerals,
                   SubSeq(answer, i, i + 2) = <<"[", Numerals[n], "]">>
            PROVE  n <= Len(sources)
            <3> DEFINE m == Numerals[n]
                       part3 == SubSeq(answer, i, i + 2)
            <3>1. part3[1] = answer[i] /\ part3[2] = answer[i + 1] /\ part3[3] = answer[i + 2]
                  <4>1. i \in 1..(Len(answer) + 1) /\ i + 2 \in (i - 1)..Len(answer)
                        BY <2>2
                  <4> QED BY <2>2, <4>1, SubSeqProperties
            <3> HIDE DEF m
            <3>2. part3 = <<"[", m, "]">>
                  BY <2>3 DEF m
            <3>3. answer[i] = "[" /\ answer[i + 1] = m /\ answer[i + 2] = "]"
                  <4>1. part3[1] = "[" /\ part3[2] = m /\ part3[3] = "]"
                        <5> HIDE DEF part3
                        <5> QED BY <3>2
                  <4> HIDE DEF part3
                  <4> QED BY <3>1, <4>1
            <3>4. n \in Citations(answer)
                  BY <3>3 DEF Citations, m
            <3>5. n \in DOMAIN sources /\ DOMAIN sources = 1..Len(sources)
                  BY <2>1, <3>4, LenProperties DEF GroundedInv
            <3> QED BY <3>5
      <2> QED BY <2>2, <2>3
<1>2. status = "completed"
      BY DEF GroundedInv
<1> QED BY <1>1, <1>2 DEF ToldIsGrounded

---------------------------------------------------------------------------
(* The vector service.  First, lists of passages in which none is twice. *)

Distinct(s) == \A i, j \in DOMAIN s : s[i] = s[j] => i = j

\* The length of a list without repetition is the number of its members.
LEMMA DistinctSize ==
    ASSUME NEW S, NEW s \in Seq(S), Distinct(s)
    PROVE  IsFiniteSet(ToSet(s)) /\ Cardinality(ToSet(s)) = Len(s)
<1> DEFINE n == Len(s)
<1>1. n \in Nat /\ s \in [1..n -> S] /\ DOMAIN s = 1..n
      BY LenProperties
<1>2. Cardinality(1..n) = n /\ IsFiniteSet(1..n)
      <2>1. IsFiniteSet(1..n) /\ Cardinality(1..n) = IF 1 > n THEN 0 ELSE n - 1 + 1
            BY <1>1, FS_Interval
      <2> QED BY <1>1, <2>1
<1> HIDE DEF n
<1>3. s \in Bijection(1..n, ToSet(s))
      BY <1>1 DEF Bijection, Injection, Surjection, IsInjective, Distinct, ToSet
<1>4. ExistsBijection(1..n, ToSet(s))
      BY <1>3 DEF ExistsBijection
<1> QED BY <1>2, <1>4, FS_Bijection DEF n

\* In such a list the rank of a member is where it stands.
LEMMA RankIs ==
    ASSUME NEW S, NEW s \in Seq(S), Distinct(s)
    PROVE  /\ \A i \in DOMAIN s : Rank(s, s[i]) = i
           /\ \A c \in ToSet(s) : Rank(s, c) \in 1..Len(s) /\ s[Rank(s, c)] = c
<1>1. ASSUME NEW i \in DOMAIN s PROVE Rank(s, s[i]) = i
      BY DEF Rank, Distinct
<1>2. ASSUME NEW c \in ToSet(s) PROVE Rank(s, c) \in 1..Len(s) /\ s[Rank(s, c)] = c
      <2>1. PICK i \in DOMAIN s : s[i] = c
            BY DEF ToSet
      <2> QED BY <1>1, <2>1, LenProperties
<1> QED BY <1>1, <1>2

\* What the first n of a list are.
LEMMA FirstIs ==
    ASSUME NEW S, NEW s \in Seq(S), NEW n \in Nat
    PROVE  /\ First(n, s) \in Seq(S)
           /\ Len(First(n, s)) = Least(n, Len(s)) /\ Len(First(n, s)) \in Nat
           /\ DOMAIN First(n, s) = 1..Least(n, Len(s))
           /\ \A i \in DOMAIN First(n, s) : i \in DOMAIN s /\ First(n, s)[i] = s[i]
           /\ ToSet(First(n, s)) \subseteq ToSet(s)
           /\ Distinct(s) => Distinct(First(n, s))
<1> DEFINE m == Least(n, Len(s))
           f == SubSeq(s, 1, m)
<1>1. Len(s) \in Nat /\ DOMAIN s = 1..Len(s) /\ \A i \in 1..Len(s) : s[i] \in S
      BY LenProperties, ElementOfSeq
<1>2. m \in Nat /\ m <= Len(s) /\ m <= n
      BY <1>1 DEF Least
<1> HIDE DEF m
<1>3. f \in Seq(S) /\ Len(f) = m /\ \A i \in 1..m : f[i] = s[i]
      <2>1. \A i \in 1..m : s[i] \in S
            BY <1>1, <1>2
      <2>2. f \in Seq(S) /\ Len(f) = (IF 1 <= m THEN m - 1 + 1 ELSE 0) /\ \A i \in 1..(m - 1 + 1) : f[i] = s[1 + i - 1]
            BY <1>2, <2>1, SubSeqProperties
      <2> QED BY <1>2, <2>2
<1>4. DOMAIN f = 1..m
      BY <1>3, LenProperties
<1> HIDE DEF f
<1>5. First(n, s) = f
      BY DEF First, f, m
<1>6. \A i \in DOMAIN f : i \in DOMAIN s /\ f[i] = s[i]
      BY <1>1, <1>2, <1>3, <1>4
<1>7. ToSet(f) \subseteq ToSet(s)
      BY <1>6 DEF ToSet
<1>8. Distinct(s) => Distinct(f)
      BY <1>6 DEF Distinct
<1> QED BY <1>2, <1>3, <1>4, <1>5, <1>6, <1>7, <1>8 DEF m

\* An arrangement of a set is a list of its members, each once.
LEMMA ArrangementIs ==
    ASSUME NEW T, IsFiniteSet(T), NEW s \in SetToSeqs(T)
    PROVE  s \in Seq(T) /\ Distinct(s) /\ ToSet(s) \subseteq T
<1> DEFINE n == Cardinality(T)
<1>1. n \in Nat
      BY FS_CardinalityType
<1>2. s \in [1..n -> T] /\ \A i, j \in 1..n : i # j => s[i] # s[j]
      BY DEF SetToSeqs
<1> HIDE DEF n
<1> QED BY <1>1, <1>2, SeqDef DEF Distinct, ToSet

\* And so is one of a part of it.
LEMMA SelectionIs ==
    ASSUME NEW T, IsFiniteSet(T), NEW s \in SetToAllKPermutations(T)
    PROVE  s \in Seq(T) /\ Distinct(s) /\ ToSet(s) \subseteq T
<1>1. PICK part1 \in SUBSET T : s \in SetToSeqs(part1)
      BY DEF SetToAllKPermutations
<1>2. IsFiniteSet(part1)
      BY FS_Subset
<1>3. s \in Seq(part1) /\ Distinct(s) /\ ToSet(s) \subseteq part1
      BY <1>1, <1>2, ArrangementIs
<1> QED BY <1>3, SeqMonotonic

\* A list without one of its members.
LEMMA WithoutIs ==
    ASSUME NEW S, NEW s \in Seq(S), Distinct(s), NEW c
    PROVE  /\ Without(s, c) \in Seq(S) /\ Distinct(Without(s, c))
           /\ ToSet(Without(s, c)) \subseteq ToSet(s) \ {c}
<1> DEFINE r == Rank(s, c)
           w == RemoveAt(s, r)
<1>1. Len(s) \in Nat /\ DOMAIN s = 1..Len(s) /\ \A i \in 1..Len(s) : s[i] \in S
      BY LenProperties, ElementOfSeq
<1>2. CASE c \notin ToSet(s)
      BY <1>2 DEF Without
<1>3. CASE c \in ToSet(s)
      <2>1. r \in 1..Len(s) /\ s[r] = c
            BY <1>3, RankIs
      <2> DEFINE a == SubSeq(s, 1, r - 1)
                 b == SubSeq(s, r + 1, Len(s))
      <2> HIDE DEF r
      <2>2. a \in Seq(S) /\ Len(a) = r - 1 /\ \A i \in 1..(r - 1) : a[i] = s[i]
            <3>1. \A i \in 1..(r - 1) : s[i] \in S
                  BY <1>1, <2>1
            <3>2. /\ a \in Seq(S) /\ Len(a) = (IF 1 <= r - 1 THEN r - 1 - 1 + 1 ELSE 0)
                  /\ \A i \in 1..(r - 1 - 1 + 1) : a[i] = s[1 + i - 1]
                  BY <2>1, <3>1, SubSeqProperties
            <3> QED BY <2>1, <3>2
      <2>3. b \in Seq(S) /\ Len(b) = Len(s) - r /\ \A i \in 1..(Len(s) - r) : b[i] = s[r + i]
            <3>1. \A i \in (r + 1)..Len(s) : s[i] \in S
                  BY <1>1, <2>1
            <3>2. /\ b \in Seq(S) /\ Len(b) = (IF r + 1 <= Len(s) THEN Len(s) - (r + 1) + 1 ELSE 0)
                  /\ \A i \in 1..(Len(s) - (r + 1) + 1) : b[i] = s[r + 1 + i - 1]
                  BY <1>1, <2>1, <3>1, SubSeqProperties
            <3>3. /\ (IF r + 1 <= Len(s) THEN Len(s) - (r + 1) + 1 ELSE 0) = Len(s) - r
                  /\ Len(s) - (r + 1) + 1 = Len(s) - r
                  <4>1. Len(s) \in Int /\ r \in Int /\ r <= Len(s)
                        BY <1>1, <2>1
                  <4>2. Len(s) - (r + 1) + 1 = Len(s) - r
                        BY <4>1
                  <4>3. r + 1 <= Len(s) \/ (~(r + 1 <= Len(s)) /\ Len(s) - r = 0)
                        BY <4>1
                  <4> QED BY <4>2, <4>3
            <3>4. ASSUME NEW i \in 1..(Len(s) - r) PROVE r + 1 + i - 1 = r + i
                  <4>1. r \in Int /\ Len(s) - r \in Int /\ i \in Int
                        BY <1>1, <2>1
                  <4> QED BY <4>1
            <3>5. \A i \in 1..(Len(s) - r) : b[i] = s[r + 1 + i - 1]
                  BY <3>2, <3>3
            <3> HIDE DEF b
            <3> QED BY <3>2, <3>3, <3>4, <3>5
      <2>4. w = a \o b
            BY DEF RemoveAt
      <2> HIDE DEF a, b, w
      <2>5. /\ w \in Seq(S) /\ Len(w) = Len(s) - 1
            /\ \A i \in 1..(Len(s) - 1) : w[i] = IF i < r THEN s[i] ELSE s[i + 1]
            <3>1. /\ w \in Seq(S) /\ Len(w) = Len(a) + Len(b)
                  /\ \A i \in 1..(Len(a) + Len(b)) : w[i] = IF i <= Len(a) THEN a[i] ELSE b[i - Len(a)]
                  BY <2>2, <2>3, <2>4, ConcatProperties
            <3>2. Len(a) + Len(b) = Len(s) - 1
                  BY <1>1, <2>1, <2>2, <2>3
            <3>3. ASSUME NEW i \in 1..(Len(s) - 1) PROVE w[i] = IF i < r THEN s[i] ELSE s[i + 1]
                  <4>1. CASE i < r
                        BY <1>1, <2>1, <2>2, <3>1, <3>2, <3>3, <4>1
                  <4>2. CASE ~(i < r)
                        <5>1. i - Len(a) = i - (r - 1) /\ i - (r - 1) \in 1..(Len(s) - r) /\ ~(i <= Len(a))
                              BY <1>1, <2>1, <2>2, <4>2
                        <5>2. w[i] = b[i - (r - 1)]
                              BY <3>1, <3>2, <5>1
                        <5>3. b[i - (r - 1)] = s[r + (i - (r - 1))]
                              BY <2>3, <5>1
                        <5>4. r + (i - (r - 1)) = i + 1
                              BY <2>1
                        <5> QED BY <4>2, <5>2, <5>3, <5>4
                  <4> QED BY <4>1, <4>2
            <3> QED BY <3>1, <3>2, <3>3
      <2>6. DOMAIN w = 1..(Len(s) - 1)
            BY <2>5, LenProperties
      <2>7. \A i \in DOMAIN w : \E k \in DOMAIN s : /\ w[i] = s[k] /\ k # r
                                                    /\ k = IF i < r THEN i ELSE i + 1
            <3>1. ASSUME NEW i \in DOMAIN w
                  PROVE  \E k \in DOMAIN s : /\ w[i] = s[k] /\ k # r
                                             /\ k = IF i < r THEN i ELSE i + 1
                  <4>1. CASE i < r
                        <5>1. i \in DOMAIN s /\ w[i] = s[i] /\ i # r
                              BY <1>1, <2>1, <2>5, <2>6, <4>1
                        <5> QED BY <4>1, <5>1
                  <4>2. CASE ~(i < r)
                        <5>1. i + 1 \in DOMAIN s /\ w[i] = s[i + 1] /\ i + 1 # r
                              BY <1>1, <2>1, <2>5, <2>6, <4>2
                        <5> QED BY <4>2, <5>1
                  <4> QED BY <4>1, <4>2
            <3> QED BY <3>1
      <2>8. ToSet(w) \subseteq ToSet(s) \ {c}
            <3>1. r \in DOMAIN s /\ \A k \in DOMAIN s : k # r => s[k] # c
                  BY <1>1, <2>1 DEF Distinct
            <3> QED BY <2>7, <3>1 DEF ToSet
      <2>9. Distinct(w)
            <3>1. ASSUME NEW i \in DOMAIN w, NEW j \in DOMAIN w, w[i] = w[j] PROVE i = j
                  <4>1. PICK k \in DOMAIN s : w[i] = s[k] /\ k = IF i < r THEN i ELSE i + 1
                        BY <2>7
                  <4>2. PICK l \in DOMAIN s : w[j] = s[l] /\ l = IF j < r THEN j ELSE j + 1
                        BY <2>7
                  <4>3. k = l
                        BY <3>1, <4>1, <4>2 DEF Distinct
                  <4>4. i \in Int /\ j \in Int /\ r \in Int
                        BY <1>1, <2>1, <2>6
                  <4> QED BY <4>1, <4>2, <4>3, <4>4
            <3> QED BY <3>1 DEF Distinct
      <2> QED BY <1>3, <2>5, <2>8, <2>9 DEF Without, w, r
<1> QED BY <1>2, <1>3


\* Without repetition, and of passages.
IsList(s) == s \in Seq(Passages) /\ Distinct(s)

\* What a search may return.
Permitted == {c \in seen \cap Own : Passing(c)}

RequestOK ==
    /\ query.kind \in {"none", "semantic", "keyword", "hybrid", "similar"}
    /\ query.weight \in 0..10 /\ query.top_k \in Nat \ {0} /\ query.rerank \in BOOLEAN
    /\ query.kind # "similar" => query.chunk = "none"

RowsOK ==
    /\ rows = [semantic |-> rows.semantic, keyword |-> rows.keyword]
    /\ IsList(rows.semantic) /\ IsList(rows.keyword)
    /\ ToSet(rows.semantic) \union ToSet(rows.keyword) \subseteq Permitted

SearchingInv ==
    /\ answered = "idle" => rows = [semantic |-> <<>>, keyword |-> <<>>]
    /\ answered # "idle" => held \subseteq seen
    /\ answered \in {"semantic", "keyword", "both", "read"} => query.kind \in {"semantic", "keyword", "hybrid"}
    /\ answered = "embedding" => query.kind = "similar"

\* What the vector service keeps true: nothing is twice in a list or beside what
\* the search may read, which is what was in the database since it began.
VectorInv ==
    /\ VectorTypeOK /\ RequestOK /\ RowsOK /\ SearchingInv
    /\ AnswerIsPermitted /\ FusionIsFair

---------------------------------------------------------------------------
(* The reciprocal of a rank. *)

\* The smaller of two divisors of the same number goes into it more often.
LEMMA SmallerGoesMoreOften ==
    ASSUME NEW a \in Nat \ {0}, NEW b \in Nat \ {0}, a < b,
           NEW m \in Nat \ {0}, NEW n \in Nat \ {0}, m * a = n * b
    PROVE  n < m
<1>1. SUFFICES ASSUME m <= n PROVE FALSE
      OBVIOUS
<1>2. m * a <= n * a
      BY <1>1
<1>3. n * a < n * b
      <2>1. b - a \in Nat \ {0} /\ n * b = n * a + n * (b - a)
            OBVIOUS
      <2>2. n * (b - a) > 0 /\ n * a \in Nat
            BY <2>1
      <2> QED BY <2>1, <2>2
<1> QED BY <1>2, <1>3

LEMMA QuotientIs ==
    ASSUME NEW a \in Nat \ {0}, NEW n \in Nat
    PROVE  (n * a) \div a = n
OBVIOUS

\* A chunk of a list has a reciprocal above that of every chunk below it, and of
\* every chunk that is not there.
LEMMA ReciprocalFalls ==
    ASSUME NEW s, IsList(s), NEW c \in ToSet(s)
    PROVE  /\ Reciprocal(s, c) \in Nat \ {0}
           /\ \A d \in ToSet(s) : Rank(s, c) < Rank(s, d) => Reciprocal(s, d) < Reciprocal(s, c)
<1>1. IsFiniteSet(Passages) /\ Cardinality(Passages) \in Nat /\ RrfK \in Nat /\ Unit \in Nat
      BY VectorAssumption, FS_CardinalityType
<1>2. Len(s) \in Nat /\ Len(s) <= Cardinality(Passages)
      <2>1. ToSet(s) \subseteq Passages /\ Len(s) \in Nat
            BY LenProperties DEF ToSet, IsList
      <2>2. Cardinality(ToSet(s)) = Len(s)
            BY DistinctSize DEF IsList
      <2> QED BY <1>1, <2>1, <2>2, FS_Subset
<1>3. ASSUME NEW d \in ToSet(s)
      PROVE  /\ Rank(s, d) \in Nat \ {0}
             /\ \E n \in 1..Unit : n * (RrfK + Rank(s, d)) = Unit /\ Reciprocal(s, d) = n
      <2> DEFINE r == Rank(s, d)
      <2>1. r \in 1..Len(s)
            BY RankIs DEF IsList
      <2>2. Reciprocal(s, d) = Unit \div (RrfK + r)
            BY DEF Reciprocal
      <2> HIDE DEF r
      <2>3. r \in 1..Cardinality(Passages) /\ r \in Nat \ {0} /\ RrfK + r \in Nat \ {0}
            BY <1>1, <1>2, <2>1
      <2>4. PICK n \in 1..Unit : n * (RrfK + r) = Unit
            BY <2>3, VectorAssumption
      <2>5. (n * (RrfK + r)) \div (RrfK + r) = n
            BY <1>1, <2>3, <2>4, QuotientIs
      <2> QED BY <2>2, <2>3, <2>4, <2>5 DEF r
<1>4. Reciprocal(s, c) \in Nat \ {0}
      BY <1>1, <1>3
<1>5. ASSUME NEW d \in ToSet(s), Rank(s, c) < Rank(s, d)
      PROVE  Reciprocal(s, d) < Reciprocal(s, c)
      <2>1. PICK m \in 1..Unit : m * (RrfK + Rank(s, c)) = Unit /\ Reciprocal(s, c) = m
            BY <1>3
      <2>2. PICK n \in 1..Unit : n * (RrfK + Rank(s, d)) = Unit /\ Reciprocal(s, d) = n
            BY <1>3, <1>5
      <2>3. /\ RrfK + Rank(s, c) \in Nat \ {0} /\ RrfK + Rank(s, d) \in Nat \ {0}
            /\ RrfK + Rank(s, c) < RrfK + Rank(s, d)
            BY <1>1, <1>3, <1>5
      <2>4. m \in Nat \ {0} /\ n \in Nat \ {0} /\ m * (RrfK + Rank(s, c)) = n * (RrfK + Rank(s, d))
            BY <1>1, <2>1, <2>2
      <2>5. n < m
            BY <2>3, <2>4, SmallerGoesMoreOften
      <2> QED BY <2>1, <2>2, <2>5
<1> QED BY <1>4, <1>5

---------------------------------------------------------------------------
(* The order of the fusion. *)

LEMMA WeightsAre ==
    ASSUME VectorInv
    PROVE  query.weight \in Nat /\ query.weight <= 10 /\ 10 - query.weight \in Nat
BY DEF VectorInv, RequestOK

LEMMA ScoreIs ==
    ASSUME VectorInv, NEW c
    PROVE  /\ Reciprocal(rows.semantic, c) \in Nat /\ Reciprocal(rows.keyword, c) \in Nat
           /\ Score(c) \in Nat
<1>1. ASSUME NEW s, IsList(s) PROVE Reciprocal(s, c) \in Nat
      <2>1. CASE c \in ToSet(s)
            BY <1>1, <2>1, ReciprocalFalls
      <2>2. CASE c \notin ToSet(s)
            BY <2>2 DEF Reciprocal
      <2> QED BY <2>1, <2>2
<1>2. Reciprocal(rows.semantic, c) \in Nat /\ Reciprocal(rows.keyword, c) \in Nat
      BY <1>1 DEF VectorInv, RowsOK
<1> QED BY <1>2, WeightsAre DEF Score

LEMMA PlaceIs ==
    ASSUME VectorInv, NEW c \in Merged
    PROVE  /\ Place(c) \in Nat
           /\ c \in ToSet(rows.semantic) => Place(c) = Rank(rows.semantic, c) /\ Place(c) <= Len(rows.semantic)
           /\ c \notin ToSet(rows.semantic) =>
                 /\ c \in ToSet(rows.keyword)
                 /\ Place(c) = Len(rows.semantic) + Rank(rows.keyword, c)
                 /\ Place(c) > Len(rows.semantic)
<1>1. /\ Len(rows.semantic) \in Nat
      /\ \A d \in ToSet(rows.semantic) : Rank(rows.semantic, d) \in 1..Len(rows.semantic)
      /\ \A d \in ToSet(rows.keyword) : Rank(rows.keyword, d) \in 1..Len(rows.keyword)
      BY RankIs, LenProperties DEF VectorInv, RowsOK, IsList
<1>2. c \in ToSet(rows.semantic) \/ c \in ToSet(rows.keyword)
      BY DEF Merged
<1>3. CASE c \in ToSet(rows.semantic)
      BY <1>1, <1>3 DEF Place
<1>4. CASE c \notin ToSet(rows.semantic)
      <2>1. Rank(rows.keyword, c) \in 1..Len(rows.keyword) /\ Len(rows.keyword) \in Nat
            BY <1>1, <1>2, <1>4, LenProperties DEF VectorInv, RowsOK, IsList
      <2> QED BY <1>1, <1>2, <1>4, <2>1 DEF Place
<1> QED BY <1>3, <1>4

\* No two have the same place.
LEMMA PlacesDiffer ==
    ASSUME VectorInv, NEW c \in Merged, NEW d \in Merged, Place(c) = Place(d)
    PROVE  c = d
<1>1. /\ \A e \in ToSet(rows.semantic) : rows.semantic[Rank(rows.semantic, e)] = e
      /\ \A e \in ToSet(rows.keyword) : rows.keyword[Rank(rows.keyword, e)] = e
      /\ \A e \in ToSet(rows.keyword) : Rank(rows.keyword, e) \in Nat
      /\ Len(rows.semantic) \in Nat
      BY RankIs, LenProperties DEF VectorInv, RowsOK, IsList
<1>2. CASE c \in ToSet(rows.semantic) /\ d \in ToSet(rows.semantic)
      BY <1>1, <1>2, PlaceIs
<1>3. CASE c \notin ToSet(rows.semantic) /\ d \notin ToSet(rows.semantic)
      BY <1>1, <1>3, PlaceIs
<1> QED BY <1>1, <1>2, <1>3, PlaceIs

\* It is a total order.
LEMMA BeforeOrders ==
    ASSUME VectorInv
    PROVE  /\ \A c \in Merged : ~Before(c, c)
           /\ \A c, d \in Merged : c # d => Before(c, d) \/ Before(d, c)
           /\ \A c, d, e \in Merged : Before(c, d) /\ Before(d, e) => Before(c, e)
<1>1. \A c \in Merged : Score(c) \in Nat /\ Place(c) \in Nat
      BY ScoreIs, PlaceIs
<1>2. \A c, d \in Merged : Place(c) = Place(d) => c = d
      BY PlacesDiffer
<1>3. ASSUME NEW c \in Merged PROVE ~Before(c, c)
      BY <1>1 DEF Before
<1>4. ASSUME NEW c \in Merged, NEW d \in Merged, c # d PROVE Before(c, d) \/ Before(d, c)
      BY <1>1, <1>2, <1>4 DEF Before
<1>5. ASSUME NEW c \in Merged, NEW d \in Merged, NEW e \in Merged, Before(c, d), Before(d, e)
      PROVE  Before(c, e)
      BY <1>1, <1>5 DEF Before
<1> QED BY <1>3, <1>4, <1>5

LEMMA MergedIsFinite ==
    ASSUME VectorInv
    PROVE  IsFiniteSet(Merged) /\ Cardinality(Merged) \in Nat /\ Merged \subseteq Passages
<1>1. Merged \subseteq Passages
      <2>1. ASSUME NEW s \in Seq(Passages) PROVE ToSet(s) \subseteq Passages
            BY LenProperties DEF ToSet
      <2> QED BY <2>1 DEF Merged, VectorInv, RowsOK, IsList
<1> QED BY <1>1, VectorAssumption, FS_Subset, FS_CardinalityType

\* How many come before a chunk.
Ahead(c) == Cardinality({d \in Merged : Before(d, c)})

LEMMA AheadGrows ==
    ASSUME VectorInv, NEW c \in Merged
    PROVE  /\ Ahead(c) \in 0..(Cardinality(Merged) - 1)
           /\ \A d \in Merged : Before(c, d) => Ahead(c) < Ahead(d)
           /\ \A d \in Merged : Ahead(d) = Ahead(c) => d = c
<1> DEFINE B(x) == {d \in Merged : Before(d, x)}
<1>1. IsFiniteSet(Merged) /\ Cardinality(Merged) \in Nat
      BY MergedIsFinite
<1>2. ASSUME NEW x \in Merged
      PROVE  IsFiniteSet(B(x)) /\ Cardinality(B(x)) \in Nat /\ x \notin B(x) /\ B(x) \subseteq Merged
      <2>1. B(x) \in SUBSET Merged
            OBVIOUS
      <2>2. IsFiniteSet(B(x))
            BY <1>1, <2>1, FS_Subset
      <2> QED BY <2>2, FS_CardinalityType, BeforeOrders
<1>3. Ahead(c) < Cardinality(Merged)
      <2>1. Cardinality(B(c)) <= Cardinality(Merged) /\ (Cardinality(Merged) = Cardinality(B(c)) => Merged = B(c))
            BY <1>1, <1>2, FS_Subset
      <2>2. Merged # B(c)
            BY <1>2
      <2> HIDE DEF B
      <2> QED BY <1>1, <1>2, <2>1, <2>2 DEF Ahead, B
<1>4. ASSUME NEW x \in Merged, NEW y \in Merged, Before(x, y) PROVE Ahead(x) < Ahead(y)
      <2>1. B(x) \subseteq B(y)
            BY <1>4, BeforeOrders
      <2>2. x \in B(y) /\ x \notin B(x)
            BY <1>4, BeforeOrders
      <2>3. B(x) \in SUBSET B(y) /\ B(x) # B(y)
            BY <2>1, <2>2
      <2>4. Cardinality(B(x)) <= Cardinality(B(y)) /\ (Cardinality(B(y)) = Cardinality(B(x)) => B(y) = B(x))
            BY <1>2, <2>3, FS_Subset
      <2>5. Cardinality(B(x)) \in Nat /\ Cardinality(B(y)) \in Nat /\ Cardinality(B(x)) # Cardinality(B(y))
            BY <1>2, <2>3, <2>4
      <2>6. Cardinality(B(x)) < Cardinality(B(y))
            <3> HIDE DEF B
            <3> QED BY <2>4, <2>5
      <2> QED BY <2>6 DEF Ahead
<1>5. Ahead(c) \in Nat
      BY <1>2 DEF Ahead
<1>6. ASSUME NEW d \in Merged, Ahead(d) = Ahead(c) PROVE d = c
      <2>1. Ahead(d) \in Nat
            BY <1>2 DEF Ahead
      <2>2. ~(Ahead(d) < Ahead(c)) /\ ~(Ahead(c) < Ahead(d))
            BY <1>5, <1>6, <2>1
      <2> QED BY <1>4, <2>2, BeforeOrders
<1> HIDE DEF B
<1> QED BY <1>1, <1>3, <1>4, <1>5, <1>6

\* The ranking has every chunk of the two lists, at the place of its order.
LEMMA RankedIs ==
    ASSUME VectorInv
    PROVE  /\ IsList(Ranked) /\ Ranked \in Seq(Merged) /\ DOMAIN Ranked = 1..Cardinality(Merged)
           /\ Len(Ranked) = Cardinality(Merged)
           /\ \A i \in DOMAIN Ranked : Ranked[i] \in Merged /\ Ahead(Ranked[i]) = i - 1
           /\ \A c \in Merged : Ahead(c) + 1 \in DOMAIN Ranked /\ Ranked[Ahead(c) + 1] = c
<1> DEFINE N == Cardinality(Merged)
           place == [c \in Merged |-> Ahead(c) + 1]
<1>1. IsFiniteSet(Merged) /\ N \in Nat /\ Merged \subseteq Passages
      BY MergedIsFinite
<1>2. \A c \in Merged : Ahead(c) + 1 \in 1..N /\ Ahead(c) \in Nat
      BY <1>1, AheadGrows
<1>3. \A c, d \in Merged : Ahead(c) = Ahead(d) => c = d
      BY AheadGrows
<1>4. place \in Surjection(Merged, 1..N)
      <2>1. place \in Injection(Merged, 1..N)
            <3>1. place \in [Merged -> 1..N]
                  BY <1>2
            <3>2. \A c, d \in Merged : place[c] = place[d] => c = d
                  BY <1>2, <1>3
            <3> QED BY <3>1, <3>2 DEF Injection, IsInjective
      <2>2. IsFiniteSet(1..N) /\ Cardinality(1..N) = N
            <3>1. IsFiniteSet(1..N) /\ Cardinality(1..N) = IF 1 > N THEN 0 ELSE N - 1 + 1
                  BY <1>1, FS_Interval
            <3> QED BY <1>1, <3>1
      <2> HIDE DEF place
      <2> QED BY <2>1, <2>2, FS_Injection
<1>5. \A i \in 1..N : \E c \in Merged : Ahead(c) = i - 1
      <2>1. ASSUME NEW i \in 1..N PROVE \E c \in Merged : Ahead(c) = i - 1
            <3>1. PICK c \in Merged : place[c] = i
                  BY <1>4 DEF Surjection
            <3>2. Ahead(c) + 1 = i /\ Ahead(c) \in Nat
                  BY <1>2, <3>1
            <3> QED BY <1>1, <3>2
      <2> QED BY <2>1
<1>6. /\ Ranked = [i \in 1..N |-> CHOOSE c \in Merged : Ahead(c) = i - 1]
      /\ DOMAIN Ranked = 1..N
      BY DEF Ranked, Ahead
<1>7. ASSUME NEW i \in 1..N PROVE Ranked[i] \in Merged /\ Ahead(Ranked[i]) = i - 1
      <2>1. Ranked[i] = CHOOSE c \in Merged : Ahead(c) = i - 1
            BY <1>6
      <2> QED BY <1>5, <2>1
<1>8. Ranked \in [1..N -> Merged]
      BY <1>6, <1>7
<1> HIDE DEF N
<1>9. Ranked \in Seq(Merged) /\ Ranked \in Seq(Passages) /\ Len(Ranked) = N
      <2>1. Ranked \in Seq(Merged)
            BY <1>1, <1>8, SeqDef
      <2>2. Ranked \in Seq(Passages)
            BY <1>1, <2>1, SeqMonotonic
      <2>3. Len(Ranked) \in Nat /\ 1..Len(Ranked) = 1..N
            BY <1>6, <2>1, LenProperties
      <2> QED BY <1>1, <2>1, <2>2, <2>3
<1>10. Distinct(Ranked)
      <2>1. ASSUME NEW i \in 1..N, NEW j \in 1..N, Ranked[i] = Ranked[j] PROVE i = j
            <3>1. i - 1 = j - 1 /\ i \in Int /\ j \in Int
                  BY <1>1, <1>7, <2>1
            <3> QED BY <3>1
      <2> QED BY <1>6, <2>1 DEF Distinct
<1>11. ASSUME NEW c \in Merged PROVE Ahead(c) + 1 \in 1..N /\ Ranked[Ahead(c) + 1] = c
      <2> DEFINE i == Ahead(c) + 1
      <2>1. i \in 1..N /\ i - 1 = Ahead(c)
            BY <1>2
      <2> HIDE DEF i
      <2>2. Ranked[i] \in Merged /\ Ahead(Ranked[i]) = Ahead(c)
            BY <1>7, <2>1
      <2> QED BY <1>3, <2>1, <2>2 DEF i
<1> QED BY <1>6, <1>7, <1>9, <1>10, <1>11 DEF N, IsList


\* Of two chunks in the ranking the one that comes before stands above.
LEMMA RankedOrders ==
    ASSUME VectorInv, NEW i \in DOMAIN Ranked, NEW j \in DOMAIN Ranked, Before(Ranked[i], Ranked[j])
    PROVE  i < j
<1>1. /\ Ranked[i] \in Merged /\ Ahead(Ranked[i]) = i - 1
      /\ Ranked[j] \in Merged /\ Ahead(Ranked[j]) = j - 1
      BY RankedIs
<1>2. Ahead(Ranked[i]) < Ahead(Ranked[j])
      BY <1>1, AheadGrows
<1>3. i \in Int /\ j \in Int
      BY RankedIs, MergedIsFinite
<1> QED BY <1>1, <1>2, <1>3

\* A list whose order the fusion keeps, and before whose chunks it puts no other,
\* begins the ranking.
LEMMA ListLeads ==
    ASSUME VectorInv, NEW s \in Seq(Merged), Distinct(s),
           \A i, j \in DOMAIN s : i < j => Before(s[i], s[j]),
           \A i \in DOMAIN s, d \in Merged \ ToSet(s) : Before(s[i], d)
    PROVE  Len(s) <= Len(Ranked) /\ \A i \in DOMAIN s : i \in DOMAIN Ranked /\ Ranked[i] = s[i]
<1>1. Len(s) \in Nat /\ DOMAIN s = 1..Len(s) /\ \A i \in 1..Len(s) : s[i] \in Merged
      BY LenProperties, ElementOfSeq
<1>2. /\ Len(Ranked) = Cardinality(Merged) /\ DOMAIN Ranked = 1..Cardinality(Merged)
      /\ IsFiniteSet(Merged) /\ Cardinality(Merged) \in Nat
      BY RankedIs, MergedIsFinite
<1>3. Len(s) <= Cardinality(Merged)
      <2>1. ToSet(s) \in SUBSET Merged /\ Cardinality(ToSet(s)) = Len(s)
            BY <1>1, DistinctSize DEF ToSet
      <2> QED BY <1>2, <2>1, FS_Subset
<1>4. ASSUME NEW i \in DOMAIN s PROVE i \in DOMAIN Ranked /\ Ranked[i] = s[i]
      <2> DEFINE c == s[i]
                 above == First(i - 1, s)
      <2>1. i \in 1..Len(s) /\ i - 1 \in Nat /\ i - 1 <= Len(s) /\ Least(i - 1, Len(s)) = i - 1
            BY <1>1 DEF Least
      <2>2. /\ above \in Seq(Merged) /\ Len(above) = i - 1 /\ DOMAIN above = 1..(i - 1)
            /\ \A j \in 1..(i - 1) : j \in DOMAIN s /\ above[j] = s[j]
            /\ Distinct(above)
            BY <2>1, FirstIs
      <2> HIDE DEF above
      <2>3. c \in Merged
            BY <1>1
      <2>4. {d \in Merged : Before(d, c)} = ToSet(above)
            <3>1. ASSUME NEW d \in Merged, Before(d, c) PROVE d \in ToSet(above)
                  <4>1. d # c /\ ~Before(c, d)
                        BY <2>3, <3>1, BeforeOrders
                  <4>2. d \in ToSet(s)
                        BY <4>1
                  <4>3. PICK j \in DOMAIN s : s[j] = d
                        BY <4>2 DEF ToSet
                  <4>4. j # i /\ ~(i < j)
                        BY <4>1, <4>3
                  <4>5. j \in 1..(i - 1)
                        BY <1>1, <2>1, <4>4
                  <4> QED BY <2>2, <4>3, <4>5 DEF ToSet
            <3>2. ASSUME NEW d \in ToSet(above) PROVE d \in Merged /\ Before(d, c)
                  <4>1. PICK j \in 1..(i - 1) : above[j] = d
                        BY <2>2 DEF ToSet
                  <4>2. j \in DOMAIN s /\ s[j] = d /\ j < i
                        BY <2>1, <2>2, <4>1
                  <4> QED BY <1>1, <4>2
            <3> QED BY <3>1, <3>2
      <2>5. Ahead(c) = i - 1
            <3>1. Cardinality(ToSet(above)) = i - 1
                  BY <2>2, DistinctSize
            <3> QED BY <2>4, <3>1 DEF Ahead
      <2>6. Ahead(c) + 1 \in DOMAIN Ranked /\ Ranked[Ahead(c) + 1] = c
            BY <2>3, RankedIs
      <2>7. Ahead(c) + 1 = i
            BY <2>1, <2>5
      <2> QED BY <2>6, <2>7
<1> QED BY <1>2, <1>3, <1>4

\* What one list has above another chunk, and the other list too, comes before it.
LEMMA AboveIsBefore ==
    ASSUME VectorInv, NEW c \in Merged, NEW d \in Merged,
           Above(rows.semantic, c, d), Above(rows.keyword, c, d)
    PROVE  Before(c, d)
<1>1. query.weight \in Nat /\ 10 - query.weight \in Nat
      BY WeightsAre
<1>2. ASSUME NEW s, IsList(s), Above(s, c, d)
      PROVE  /\ c \in ToSet(s) /\ Reciprocal(s, d) <= Reciprocal(s, c) /\ Reciprocal(s, c) \in Nat /\ Reciprocal(s, d) \in Nat
             /\ d \in ToSet(s) => Rank(s, c) < Rank(s, d)
      <2>1. PICK i \in DOMAIN s : s[i] = c /\ \A j \in DOMAIN s : s[j] = d => i < j
            BY <1>2 DEF Above
      <2>2. c \in ToSet(s) /\ Rank(s, c) = i /\ Reciprocal(s, c) \in Nat
            <3>1. c \in ToSet(s)
                  BY <2>1 DEF ToSet
            <3> QED BY <1>2, <2>1, <3>1, RankIs, ReciprocalFalls DEF IsList
      <2>3. CASE d \in ToSet(s)
            <3>1. Rank(s, d) \in DOMAIN s /\ s[Rank(s, d)] = d
                  BY <1>2, <2>3, RankIs, LenProperties DEF IsList
            <3>2. Rank(s, c) < Rank(s, d)
                  BY <2>1, <2>2, <3>1
            <3>3. Reciprocal(s, d) < Reciprocal(s, c) /\ Reciprocal(s, d) \in Nat
                  BY <1>2, <2>2, <2>3, <3>2, ReciprocalFalls
            <3> QED BY <2>2, <3>2, <3>3
      <2>4. CASE d \notin ToSet(s)
            <3>1. Reciprocal(s, d) = 0
                  BY <2>4 DEF Reciprocal
            <3> QED BY <2>2, <2>4, <3>1
      <2> QED BY <2>3, <2>4
<1>3. IsList(rows.semantic) /\ IsList(rows.keyword)
      BY DEF VectorInv, RowsOK
<1>4. Score(d) <= Score(c) /\ Score(c) \in Nat /\ Score(d) \in Nat
      <2>1. ASSUME NEW w \in Nat, NEW m \in Nat, NEW n \in Nat, n <= m PROVE w * n <= w * m /\ w * n \in Nat /\ w * m \in Nat
            BY <2>1
      <2>2. query.weight * Reciprocal(rows.semantic, d) <= query.weight * Reciprocal(rows.semantic, c)
            BY <1>1, <1>2, <1>3, <2>1
      <2>3. (10 - query.weight) * Reciprocal(rows.keyword, d) <= (10 - query.weight) * Reciprocal(rows.keyword, c)
            BY <1>1, <1>2, <1>3, <2>1
      <2>4. /\ query.weight * Reciprocal(rows.semantic, d) \in Nat /\ query.weight * Reciprocal(rows.semantic, c) \in Nat
            /\ (10 - query.weight) * Reciprocal(rows.keyword, d) \in Nat /\ (10 - query.weight) * Reciprocal(rows.keyword, c) \in Nat
            BY <1>1, <1>2, <1>3, <2>1
      <2> QED BY <2>2, <2>3, <2>4 DEF Score
<1>5. Place(c) < Place(d)
      <2>1. c \in ToSet(rows.semantic)
            BY <1>2, <1>3
      <2>2. Place(c) = Rank(rows.semantic, c) /\ Place(c) <= Len(rows.semantic) /\ Place(c) \in Nat /\ Place(d) \in Nat
            BY <2>1, PlaceIs
      <2>3. CASE d \in ToSet(rows.semantic)
            BY <1>2, <1>3, <2>2, <2>3, PlaceIs
      <2>4. CASE d \notin ToSet(rows.semantic)
            <3>1. Place(d) > Len(rows.semantic) /\ Len(rows.semantic) \in Nat
                  BY <1>3, <2>4, PlaceIs, LenProperties DEF IsList
            <3> QED BY <2>2, <3>1
      <2> QED BY <2>3, <2>4
<1> QED BY <1>4, <1>5 DEF Before

\* With all the weight on one list it leads.
LEMMA SemanticLeads ==
    ASSUME VectorInv, query.weight = 10
    PROVE  /\ Len(rows.semantic) <= Len(Ranked)
           /\ \A i \in DOMAIN rows.semantic : i \in DOMAIN Ranked /\ Ranked[i] = rows.semantic[i]
<1> DEFINE s == rows.semantic
<1>1. IsList(s) /\ s \in Seq(Merged) /\ Distinct(s) /\ DOMAIN s = 1..Len(s) /\ Len(s) \in Nat
      /\ \A i \in DOMAIN s : s[i] \in ToSet(s) /\ s[i] \in Merged /\ Rank(s, s[i]) = i
      <2>1. s \in Seq(Passages) /\ Distinct(s) /\ IsList(s)
            BY DEF VectorInv, RowsOK, IsList
      <2>2. DOMAIN s = 1..Len(s) /\ Len(s) \in Nat
            BY <2>1, LenProperties
      <2>3. \A i \in DOMAIN s : s[i] \in ToSet(s) /\ s[i] \in Merged
            BY DEF ToSet, Merged
      <2>4. s \in Seq(Merged)
            <3>1. s \in [1..Len(s) -> Merged]
                  BY <2>1, <2>2, <2>3, LenProperties
            <3> QED BY <2>2, <3>1, SeqDef
      <2> QED BY <2>1, <2>2, <2>3, <2>4, RankIs
<1>2. \A c \in Merged : Score(c) = 10 * Reciprocal(s, c) /\ Reciprocal(s, c) \in Nat
      <2>1. ASSUME NEW c \in Merged PROVE Score(c) = 10 * Reciprocal(s, c) /\ Reciprocal(s, c) \in Nat
            <3>1. Reciprocal(rows.keyword, c) \in Nat /\ Reciprocal(s, c) \in Nat
                  BY ScoreIs
            <3>2. (10 - 10) * Reciprocal(rows.keyword, c) = 0
                  BY <3>1
            <3> QED BY <3>1, <3>2 DEF Score
      <2> QED BY <2>1
<1>3. ASSUME NEW i \in DOMAIN s, NEW j \in DOMAIN s, i < j PROVE Before(s[i], s[j])
      <2>1. Reciprocal(s, s[j]) < Reciprocal(s, s[i])
            BY <1>1, <1>3, ReciprocalFalls
      <2> QED BY <1>1, <1>2, <2>1 DEF Before
<1>4. ASSUME NEW i \in DOMAIN s, NEW d \in Merged \ ToSet(s) PROVE Before(s[i], d)
      <2>1. Reciprocal(s, s[i]) \in Nat \ {0} /\ Reciprocal(s, d) = 0
            BY <1>1, ReciprocalFalls DEF Reciprocal
      <2> QED BY <1>1, <1>2, <2>1 DEF Before
<1> HIDE DEF s
<1>5. Len(s) <= Len(Ranked) /\ \A i \in DOMAIN s : i \in DOMAIN Ranked /\ Ranked[i] = s[i]
      BY <1>1, <1>3, <1>4, ListLeads
<1> QED BY <1>5 DEF s

LEMMA KeywordLeads ==
    ASSUME VectorInv, query.weight = 0
    PROVE  /\ Len(rows.keyword) <= Len(Ranked)
           /\ \A i \in DOMAIN rows.keyword : i \in DOMAIN Ranked /\ Ranked[i] = rows.keyword[i]
<1> DEFINE s == rows.keyword
<1>1. IsList(s) /\ s \in Seq(Merged) /\ Distinct(s) /\ DOMAIN s = 1..Len(s) /\ Len(s) \in Nat
      /\ \A i \in DOMAIN s : s[i] \in ToSet(s) /\ s[i] \in Merged /\ Rank(s, s[i]) = i
      <2>1. s \in Seq(Passages) /\ Distinct(s) /\ IsList(s)
            BY DEF VectorInv, RowsOK, IsList
      <2>2. DOMAIN s = 1..Len(s) /\ Len(s) \in Nat
            BY <2>1, LenProperties
      <2>3. \A i \in DOMAIN s : s[i] \in ToSet(s) /\ s[i] \in Merged
            BY DEF ToSet, Merged
      <2>4. s \in Seq(Merged)
            <3>1. s \in [1..Len(s) -> Merged]
                  BY <2>1, <2>2, <2>3, LenProperties
            <3> QED BY <2>2, <3>1, SeqDef
      <2> QED BY <2>1, <2>2, <2>3, <2>4, RankIs
<1>2. \A c \in Merged : Score(c) = 10 * Reciprocal(s, c) /\ Reciprocal(s, c) \in Nat
      <2>1. ASSUME NEW c \in Merged PROVE Score(c) = 10 * Reciprocal(s, c) /\ Reciprocal(s, c) \in Nat
            <3>1. Reciprocal(rows.semantic, c) \in Nat /\ Reciprocal(s, c) \in Nat
                  BY ScoreIs
            <3>2. 0 * Reciprocal(rows.semantic, c) = 0 /\ 10 - 0 = 10
                  BY <3>1
            <3> QED BY <3>1, <3>2 DEF Score
      <2> QED BY <2>1
<1>3. ASSUME NEW i \in DOMAIN s, NEW j \in DOMAIN s, i < j PROVE Before(s[i], s[j])
      <2>1. Reciprocal(s, s[j]) < Reciprocal(s, s[i])
            BY <1>1, <1>3, ReciprocalFalls
      <2> QED BY <1>1, <1>2, <2>1 DEF Before
<1>4. ASSUME NEW i \in DOMAIN s, NEW d \in Merged \ ToSet(s) PROVE Before(s[i], d)
      <2>1. Reciprocal(s, s[i]) \in Nat \ {0} /\ Reciprocal(s, d) = 0
            BY <1>1, ReciprocalFalls DEF Reciprocal
      <2> QED BY <1>1, <1>2, <2>1 DEF Before
<1> HIDE DEF s
<1>5. Len(s) <= Len(Ranked) /\ \A i \in DOMAIN s : i \in DOMAIN Ranked /\ Ranked[i] = s[i]
      BY <1>1, <1>3, <1>4, ListLeads
<1> QED BY <1>5 DEF s

\* A list that begins the ranking and a beginning of the ranking agree as far as
\* both reach.
LEMMA BeginningsAgree ==
    ASSUME NEW S, NEW s \in Seq(S), NEW t \in Seq(S),
           \A i \in DOMAIN s : i \in DOMAIN t => t[i] = s[i]
    PROVE  First(Len(t), s) = First(Len(s), t)
<1> DEFINE f == First(Len(t), s)
           g == First(Len(s), t)
<1>1. Len(s) \in Nat /\ Len(t) \in Nat
      BY LenProperties
<1>2. /\ f \in Seq(S) /\ Len(f) = Least(Len(t), Len(s)) /\ DOMAIN f = 1..Least(Len(t), Len(s))
      /\ \A i \in DOMAIN f : i \in DOMAIN s /\ f[i] = s[i]
      BY <1>1, FirstIs
<1>3. /\ g \in Seq(S) /\ Len(g) = Least(Len(s), Len(t)) /\ DOMAIN g = 1..Least(Len(s), Len(t))
      /\ \A i \in DOMAIN g : i \in DOMAIN t /\ g[i] = t[i]
      BY <1>1, FirstIs
<1>4. Least(Len(t), Len(s)) = Least(Len(s), Len(t))
      BY <1>1 DEF Least
<1> HIDE DEF f, g
<1>5. Len(f) = Len(g) /\ \A i \in 1..Len(f) : f[i] = g[i]
      BY <1>2, <1>3, <1>4
<1> QED BY <1>2, <1>3, <1>5, SeqEqual DEF f, g

\* What FusionIsFair says of a beginning of the ranking.
LEMMA RankingIsFair ==
    ASSUME VectorInv, NEW k \in Nat, NEW t, t = First(k, Ranked)
    PROVE  /\ \A c, d \in Merged :
                 Above(rows.semantic, c, d) /\ Above(rows.keyword, c, d) /\ d \in ToSet(t) => Above(t, c, d)
           /\ query.weight = 10 => First(Len(t), rows.semantic) = First(Len(rows.semantic), t)
           /\ query.weight = 0 => First(Len(t), rows.keyword) = First(Len(rows.keyword), t)
<1>1. /\ Ranked \in Seq(Passages) /\ Ranked \in Seq(Merged) /\ DOMAIN Ranked = 1..Len(Ranked) /\ Len(Ranked) \in Nat
      /\ \A i \in DOMAIN Ranked : Ranked[i] \in Merged
      /\ \A c \in Merged : Ahead(c) + 1 \in DOMAIN Ranked /\ Ranked[Ahead(c) + 1] = c
      BY RankedIs, LenProperties DEF IsList
<1>2. /\ t \in Seq(Passages) /\ DOMAIN t = 1..Least(k, Len(Ranked))
      /\ \A i \in DOMAIN t : i \in DOMAIN Ranked /\ t[i] = Ranked[i]
      BY <1>1, FirstIs
<1>3. ASSUME NEW c \in Merged, NEW d \in Merged,
             Above(rows.semantic, c, d), Above(rows.keyword, c, d), d \in ToSet(t)
      PROVE  Above(t, c, d)
      <2>1. Before(c, d)
            BY <1>3, AboveIsBefore
      <2>2. PICK i \in DOMAIN Ranked : Ranked[i] = c
            BY <1>1
      <2>3. ASSUME NEW j \in DOMAIN t, t[j] = d PROVE i < j
            BY <1>2, <2>1, <2>2, <2>3, RankedOrders
      <2>4. PICK j \in DOMAIN t : t[j] = d
            BY <1>3 DEF ToSet
      <2>5. i < j
            BY <2>3, <2>4
      <2>6. i \in DOMAIN t
            BY <1>1, <1>2, <2>2, <2>4, <2>5 DEF Least
      <2>7. t[i] = c
            BY <1>2, <2>2, <2>6
      <2> QED BY <2>3, <2>6, <2>7 DEF Above
<1>4. rows.semantic \in Seq(Passages) /\ rows.keyword \in Seq(Passages)
      BY DEF VectorInv, RowsOK, IsList
<1>5. ASSUME query.weight = 10 PROVE First(Len(t), rows.semantic) = First(Len(rows.semantic), t)
      <2>1. \A i \in DOMAIN rows.semantic : i \in DOMAIN t => t[i] = rows.semantic[i]
            BY <1>2, <1>5, SemanticLeads
      <2> QED BY <1>2, <1>4, <2>1, BeginningsAgree
<1>6. ASSUME query.weight = 0 PROVE First(Len(t), rows.keyword) = First(Len(rows.keyword), t)
      <2>1. \A i \in DOMAIN rows.keyword : i \in DOMAIN t => t[i] = rows.keyword[i]
            BY <1>2, <1>6, KeywordLeads
      <2> QED BY <1>2, <1>4, <2>1, BeginningsAgree
<1> QED BY <1>3, <1>5, <1>6


LEMMA EmptyList == IsList(<<>>) /\ ToSet(<<>>) = {} /\ Len(<<>>) = 0
<1>1. <<>> \in Seq(Passages) /\ Len(<<>>) = 0
      BY EmptySeq
<1>2. DOMAIN <<>> = {}
      OBVIOUS
<1> QED BY <1>1, <1>2 DEF IsList, Distinct, ToSet

\* A list is as long as it has members, and they are passages.
LEMMA ListIs ==
    ASSUME NEW s, IsList(s)
    PROVE  ToSet(s) \subseteq Passages /\ Cardinality(ToSet(s)) = Len(s) /\ Len(s) \in Nat
<1>1. s \in Seq(Passages) /\ Distinct(s)
      BY DEF IsList
<1>2. \A i \in DOMAIN s : s[i] \in Passages
      BY <1>1, LenProperties
<1>3. ToSet(s) \subseteq Passages
      BY <1>2 DEF ToSet
<1> QED BY <1>1, <1>3, DistinctSize, LenProperties

\* What either query reads at one time.
LEMMA ReadsAre ==
    ASSUME VectorInv, answered # "idle", NEW n \in Nat,
           NEW found \in BySimilarity(n) \union ByWords(n)
    PROVE  IsList(found) /\ ToSet(found) \subseteq Permitted /\ Len(found) <= n
<1>1. PICK T \in SUBSET Passages :
         /\ \A c \in T : Readable(c)
         /\ \E order \in SetToAllKPermutations(T) : found = First(n, order)
      <2>1. CASE found \in BySimilarity(n)
            <3>1. {c \in Embedded : Readable(c)} \in SUBSET Passages
                  BY VectorAssumption
            <3> QED BY <2>1, <3>1 DEF BySimilarity
      <2>2. CASE found \in ByWords(n)
            <3>1. {c \in Passages : Readable(c)} \in SUBSET Passages
                  OBVIOUS
            <3> QED BY <2>2, <3>1 DEF ByWords
      <2> QED BY <2>1, <2>2
<1>2. PICK order \in SetToAllKPermutations(T) : found = First(n, order)
      BY <1>1
<1>3. IsFiniteSet(T)
      BY VectorAssumption, FS_Subset
<1>4. order \in Seq(T) /\ Distinct(order) /\ ToSet(order) \subseteq T
      BY <1>3, SelectionIs
<1>5. order \in Seq(Passages)
      BY <1>4, SeqMonotonic
<1>6. found \in Seq(Passages) /\ Distinct(found) /\ ToSet(found) \subseteq T /\ Len(found) = Least(n, Len(order))
      BY <1>2, <1>4, <1>5, FirstIs
<1>7. Len(found) <= n
      BY <1>5, <1>6, LenProperties DEF Least
<1>8. T \subseteq Permitted
      BY <1>1 DEF Readable, Permitted, VectorInv, SearchingInv
<1> QED BY <1>6, <1>7, <1>8 DEF IsList

LEMMA FetchedIs ==
    ASSUME VectorInv
    PROVE  Fetched \in Nat /\ Wanted \in Nat /\ Wanted >= query.top_k
<1>1. query.top_k \in Nat /\ MaxTopK \in Nat
      BY VectorAssumption DEF VectorInv, RequestOK
<1>2. Wanted \in Nat /\ Wanted >= query.top_k
      BY <1>1 DEF Wanted
<1>3. 3 * Wanted \in Nat
      BY <1>2
<1> QED BY <1>1, <1>2, <1>3 DEF Fetched, Least

LEMMA VectorInitInv == VectorInit => VectorInv
<1> SUFFICES ASSUME VectorInit PROVE VectorInv
    OBVIOUS
<1>1. /\ loaded \in BOOLEAN /\ held = Passages /\ changes = 0 /\ query = NoQuery
      /\ rows = [semantic |-> <<>>, keyword |-> <<>>]
      /\ reply = <<>> /\ answered = "idle" /\ seen = {}
      BY DEF VectorInit
<1>2. rows.semantic = <<>> /\ rows.keyword = <<>>
      BY <1>1
<1>3. RequestOK
      BY <1>1 DEF RequestOK, NoQuery
<1>4. RowsOK
      BY <1>1, <1>2, EmptyList DEF RowsOK
<1>5. VectorTypeOK
      BY <1>1, <1>2, <1>3, EmptyList, VectorAssumption DEF VectorTypeOK, RequestOK
<1> QED BY <1>1, <1>3, <1>4, <1>5 DEF VectorInv, SearchingInv, AnswerIsPermitted, FusionIsFair

\* A request comes: nothing was read for it.
LEMMA RequestInv ==
    ASSUME VectorInv, answered = "idle", seen' = held, RequestOK',
           answered' \in {"semantic", "keyword", "both", "embedding", "failed"},
           answered' \in {"semantic", "keyword", "both"} => query'.kind \in {"semantic", "keyword", "hybrid"},
           answered' = "embedding" => query'.kind = "similar",
           UNCHANGED <<loaded, held, changes, rows, reply>>
    PROVE  VectorInv'
<1>1. rows' = [semantic |-> <<>>, keyword |-> <<>>]
      BY DEF VectorInv, SearchingInv
<1>2. rows'.semantic = <<>> /\ rows'.keyword = <<>>
      BY <1>1
<1>3. RowsOK'
      BY <1>1, <1>2, EmptyList DEF RowsOK
<1>4. VectorTypeOK'
      <2>1. \A list \in {rows.semantic, rows.keyword, reply} : ToSet(list) \subseteq Passages
            BY DEF VectorInv, VectorTypeOK
      <2> QED BY <2>1 DEF VectorInv, VectorTypeOK, RequestOK
<1> QED BY <1>3, <1>4 DEF VectorInv, SearchingInv, AnswerIsPermitted, FusionIsFair

LEMMA SearchKeeps == ASSUME VectorInv, Search PROVE VectorInv'
<1>1. PICK kind \in {"semantic", "keyword", "hybrid"}, weight \in Weights, k \in TopKs,
           rerank \in BOOLEAN, given \in SUBSET Criteria :
         query' = [NoQuery EXCEPT !.kind = kind, !.weight = weight, !.top_k = k, !.rerank = rerank, !.given = given]
      BY DEF Search
<1>2. /\ query'.kind = kind /\ query'.weight = weight /\ query'.top_k = k /\ query'.rerank = rerank
      /\ query'.chunk = "none"
      BY <1>1 DEF NoQuery
<1>3. RequestOK'
      BY <1>2, VectorAssumption DEF RequestOK
<1>4. /\ answered = "idle" /\ seen' = held /\ UNCHANGED <<loaded, held, changes, rows, reply>>
      /\ answered' = IF query'.kind = "keyword" THEN "keyword" ELSE IF query'.kind = "hybrid" THEN "both" ELSE "semantic"
      BY DEF Search
<1> QED BY <1>2, <1>3, <1>4, RequestInv

LEMMA FindSimilarKeeps == ASSUME VectorInv, FindSimilar PROVE VectorInv'
<1>1. PICK c \in Passages, k \in TopKs, given \in SUBSET Criteria :
         /\ query' = [NoQuery EXCEPT !.kind = "similar", !.top_k = k, !.given = given, !.chunk = c]
         /\ answered' = IF HasEmbedding(c) THEN "embedding" ELSE "failed"
      BY DEF FindSimilar
<1>2. query'.kind = "similar" /\ query'.weight = 10 /\ query'.top_k = k /\ query'.rerank = FALSE
      BY <1>1 DEF NoQuery
<1>3. RequestOK'
      <2>1. query'.rerank \in BOOLEAN
            BY <1>2, Zenon
      <2>2. query'.top_k \in Nat \ {0} /\ query'.weight \in 0..10
            BY <1>2, VectorAssumption
      <2> QED BY <1>2, <2>1, <2>2 DEF RequestOK
<1>4. answered = "idle" /\ seen' = held /\ UNCHANGED <<loaded, held, changes, rows, reply>>
      BY DEF FindSimilar
<1>5. /\ answered' \in {"semantic", "keyword", "both", "embedding", "failed"}
      /\ answered' \notin {"semantic", "keyword", "both"}
      BY <1>1
<1> QED BY <1>2, <1>3, <1>4, <1>5, RequestInv

\* One of the two lists comes.
LEMMA ListComes ==
    ASSUME VectorInv, answered \in {"semantic", "keyword", "both"},
           NEW found, IsList(found), ToSet(found) \subseteq Permitted,
           rows' = [rows EXCEPT !.semantic = found] \/ rows' = [rows EXCEPT !.keyword = found],
           answered' \in {"semantic", "keyword", "read", "failed"},
           UNCHANGED <<loaded, held, changes, query, reply, seen>>
    PROVE  VectorInv'
<1>1. rows = [semantic |-> rows.semantic, keyword |-> rows.keyword] /\ IsList(rows.semantic) /\ IsList(rows.keyword)
      /\ ToSet(rows.semantic) \union ToSet(rows.keyword) \subseteq Permitted
      BY DEF VectorInv, RowsOK
<1>2. /\ rows' = [semantic |-> rows'.semantic, keyword |-> rows'.keyword]
      /\ rows'.semantic \in {rows.semantic, found} /\ rows'.keyword \in {rows.keyword, found}
      BY <1>1
<1>3. Permitted' = Permitted
      BY DEF Permitted, Passing
<1>4. RowsOK'
      BY <1>1, <1>2, <1>3 DEF RowsOK
<1>5. VectorTypeOK'
      <2>1. ToSet(reply) \subseteq Passages
            BY DEF VectorInv, VectorTypeOK
      <2>2. ToSet(rows'.semantic) \subseteq Passages /\ ToSet(rows'.keyword) \subseteq Passages
            BY <1>4, ListIs DEF RowsOK
      <2> QED BY <2>1, <2>2 DEF VectorInv, VectorTypeOK
<1>6. RequestOK'
      BY DEF VectorInv, RequestOK
<1>7. SearchingInv'
      BY DEF VectorInv, SearchingInv
<1> QED BY <1>4, <1>5, <1>6, <1>7 DEF VectorInv, AnswerIsPermitted, FusionIsFair

LEMMA ReadSimilarKeeps == ASSUME VectorInv, ReadSimilar PROVE VectorInv'
<1>1. PICK found \in BySimilarity(Fetched) :
         /\ rows' = [rows EXCEPT !.semantic = found]
         /\ answered' = IF Acceptable(found) THEN Awaiting("keyword") ELSE "failed"
      BY DEF ReadSimilar
<1>2. answered \in {"semantic", "both"} /\ UNCHANGED <<loaded, held, changes, query, reply, seen>>
      BY DEF ReadSimilar
<1>3. IsList(found) /\ ToSet(found) \subseteq Permitted
      BY <1>2, FetchedIs, ReadsAre
<1>4. answered' \in {"keyword", "read", "failed"}
      BY <1>1 DEF Awaiting
<1> QED BY <1>1, <1>2, <1>3, <1>4, ListComes

LEMMA ReadWordedKeeps == ASSUME VectorInv, ReadWorded PROVE VectorInv'
<1>1. PICK found \in ByWords(Fetched) : rows' = [rows EXCEPT !.keyword = found]
      BY DEF ReadWorded
<1>2. answered \in {"keyword", "both"} /\ UNCHANGED <<loaded, held, changes, query, reply, seen>>
      /\ answered' = Awaiting("semantic")
      BY DEF ReadWorded
<1>3. IsList(found) /\ ToSet(found) \subseteq Permitted
      BY <1>2, FetchedIs, ReadsAre
<1>4. answered' \in {"semantic", "read"}
      BY <1>2 DEF Awaiting
<1> QED BY <1>1, <1>2, <1>3, <1>4, ListComes

\* The answer is a list of what may be returned, and not too long.
LEMMA AnswerComes ==
    ASSUME VectorInv, answered \in {"read", "embedding"},
           IsList(reply'), ToSet(reply') \subseteq Permitted,
           answered' \in {"answered", "failed"},
           answered' = "answered" => query.chunk \notin ToSet(reply') /\ Len(reply') <= query.top_k,
           FusionIsFair',
           UNCHANGED <<loaded, held, changes, query, rows, seen>>
    PROVE  VectorInv'
<1>1. Permitted' = Permitted /\ Permitted = {c \in seen \cap Own : Passing(c)}
      BY DEF Permitted, Passing
<1>2. RowsOK'
      BY <1>1 DEF VectorInv, RowsOK
<1>3. VectorTypeOK'
      <2>1. ToSet(rows.semantic) \subseteq Passages /\ ToSet(rows.keyword) \subseteq Passages /\ ToSet(reply') \subseteq Passages
            BY ListIs DEF VectorInv, VectorTypeOK
      <2> QED BY <2>1 DEF VectorInv, VectorTypeOK
<1>4. RequestOK' /\ SearchingInv'
      BY DEF VectorInv, RequestOK, SearchingInv
<1>5. AnswerIsPermitted'
      <2>1. SUFFICES ASSUME answered' = "answered"
                     PROVE  /\ Len(reply') <= query.top_k /\ Cardinality(ToSet(reply')) = Len(reply')
                            /\ ToSet(reply') \subseteq {c \in (seen \cap Own) \ {query.chunk} : Passing(c)}
            BY DEF AnswerIsPermitted, Passing
      <2>2. Cardinality(ToSet(reply')) = Len(reply')
            BY ListIs
      <2> QED BY <1>1, <2>1, <2>2
<1> QED BY <1>2, <1>3, <1>4, <1>5 DEF VectorInv

\* What is found is a list of what may be returned.
LEMMA FoundIs ==
    ASSUME VectorInv, answered = "read"
    PROVE  IsList(Found) /\ ToSet(Found) \subseteq Permitted
<1>1. /\ IsList(rows.semantic) /\ IsList(rows.keyword)
      /\ ToSet(rows.semantic) \union ToSet(rows.keyword) \subseteq Permitted
      BY DEF VectorInv, RowsOK
<1>2. query.kind \in {"semantic", "keyword", "hybrid"}
      BY DEF VectorInv, SearchingInv
<1>3. CASE query.kind = "hybrid"
      <2>1. IsList(Ranked) /\ \A i \in DOMAIN Ranked : Ranked[i] \in Merged
            BY RankedIs
      <2>2. IsList(Fused) /\ ToSet(Fused) \subseteq ToSet(Ranked)
            <3>1. Wanted \in Nat /\ Ranked \in Seq(Passages) /\ Distinct(Ranked)
                  BY <2>1, FetchedIs DEF IsList
            <3> QED BY <3>1, FirstIs DEF Fused, IsList
      <2>3. ToSet(Ranked) \subseteq Merged
            BY <2>1 DEF ToSet
      <2> QED BY <1>1, <1>3, <2>2, <2>3 DEF Found, Merged
<1>4. CASE query.kind = "semantic"
      BY <1>1, <1>4 DEF Found
<1>5. CASE query.kind = "keyword"
      BY <1>1, <1>5 DEF Found
<1> QED BY <1>2, <1>3, <1>4, <1>5

\* A beginning of a beginning is one.
LEMMA FirstOfFirst ==
    ASSUME NEW S, NEW s \in Seq(S), NEW m \in Nat, NEW n \in Nat, m <= n
    PROVE  First(m, First(n, s)) = First(m, s)
<1> DEFINE f == First(n, s)
<1>1. /\ f \in Seq(S) /\ Len(f) = Least(n, Len(s)) /\ Len(s) \in Nat /\ Len(f) \in Nat
      /\ \A i \in DOMAIN f : f[i] = s[i]
      BY FirstIs, LenProperties
<1> HIDE DEF f
<1>2. Least(m, Len(f)) = Least(m, Len(s))
      BY <1>1 DEF Least
<1>3. /\ First(m, f) \in Seq(S) /\ Len(First(m, f)) = Least(m, Len(f)) /\ DOMAIN First(m, f) = 1..Least(m, Len(f))
      /\ \A i \in DOMAIN First(m, f) : i \in DOMAIN f /\ First(m, f)[i] = f[i]
      BY <1>1, FirstIs
<1>4. /\ First(m, s) \in Seq(S) /\ Len(First(m, s)) = Least(m, Len(s)) /\ DOMAIN First(m, s) = 1..Least(m, Len(s))
      /\ \A i \in DOMAIN First(m, s) : First(m, s)[i] = s[i]
      BY <1>1, FirstIs
<1>5. Len(First(m, f)) = Len(First(m, s)) /\ \A i \in 1..Len(First(m, f)) : First(m, f)[i] = First(m, s)[i]
      BY <1>1, <1>2, <1>3, <1>4
<1>6. First(m, f) = First(m, s)
      BY <1>3, <1>4, <1>5, SeqEqual
<1> QED BY <1>6 DEF f

LEMMA ReplyKeeps == ASSUME VectorInv, Reply PROVE VectorInv'
<1>1. /\ answered = "read" /\ answered' = "answered"
      /\ UNCHANGED <<loaded, held, changes, query, rows, seen>>
      /\ reply' \in IF query.rerank THEN Reranked(Found, query.top_k) ELSE {First(query.top_k, Found)}
      BY DEF Reply
<1>2. IsList(Found) /\ ToSet(Found) \subseteq Permitted /\ query.top_k \in Nat
      BY <1>1, FoundIs DEF VectorInv, RequestOK
<1>3. PICK order : /\ reply' = First(query.top_k, order)
                   /\ order \in IF query.rerank /\ loaded /\ Found # <<>> THEN Rescored(Found) ELSE {Found}
      <2>1. CASE query.rerank
            BY <1>1, <2>1 DEF Reranked
      <2>2. CASE ~query.rerank
            BY <1>1, <2>2
      <2> QED BY <2>1, <2>2 DEF VectorInv, RequestOK
<1>4. IsList(order) /\ ToSet(order) \subseteq ToSet(Found)
      <2>1. CASE order \in Rescored(Found)
            <3>1. IsFiniteSet(ToSet(Found)) /\ ToSet(Found) \subseteq Passages
                  BY <1>2, DistinctSize, ListIs DEF IsList
            <3>2. order \in Seq(ToSet(Found)) /\ Distinct(order) /\ ToSet(order) \subseteq ToSet(Found)
                  BY <2>1, <3>1, ArrangementIs DEF Rescored
            <3>3. order \in Seq(Passages)
                  BY <3>1, <3>2, SeqMonotonic
            <3> QED BY <3>2, <3>3 DEF IsList
      <2>2. CASE order = Found
            BY <1>2, <2>2
      <2> QED BY <1>3, <2>1, <2>2
<1>5. /\ IsList(reply') /\ ToSet(reply') \subseteq ToSet(order) /\ Len(reply') <= query.top_k
      <2>1. order \in Seq(Passages) /\ Distinct(order) /\ Len(order) \in Nat
            BY <1>4, LenProperties DEF IsList
      <2>2. /\ reply' \in Seq(Passages) /\ Distinct(reply') /\ ToSet(reply') \subseteq ToSet(order)
            /\ Len(reply') = Least(query.top_k, Len(order))
            BY <1>2, <1>3, <2>1, FirstIs
      <2> QED BY <1>2, <2>1, <2>2 DEF IsList, Least
<1>6. query.chunk \notin ToSet(reply')
      <2>1. query.chunk = "none"
            BY <1>1 DEF VectorInv, RequestOK, SearchingInv
      <2>2. ToSet(reply') \subseteq Passages
            BY <1>5, ListIs
      <2> QED BY <2>1, <2>2, VectorAssumption
<1>7. FusionIsFair'
      <2>1. SUFFICES ASSUME query.kind = "hybrid", ~(query.rerank /\ loaded)
                     PROVE  /\ \A c, d \in Merged :
                                 Above(rows.semantic, c, d) /\ Above(rows.keyword, c, d) /\ d \in ToSet(reply')
                                     => Above(reply', c, d)
                            /\ query.weight = 10 => First(Len(reply'), rows.semantic) = First(Len(rows.semantic), reply')
                            /\ query.weight = 0 => First(Len(reply'), rows.keyword) = First(Len(rows.keyword), reply')
            BY <1>1 DEF FusionIsFair, Merged
      <2>2. order = Fused
            BY <1>3, <2>1 DEF Found
      <2>3. reply' = First(query.top_k, Ranked)
            <3>1. Ranked \in Seq(Passages)
                  BY RankedIs DEF IsList
            <3> QED BY <1>2, <1>3, <2>2, <3>1, FetchedIs, FirstOfFirst DEF Fused
      <2> QED BY <1>2, <2>3, RankingIsFair
<1> QED BY <1>1, <1>2, <1>4, <1>5, <1>6, <1>7, AnswerComes

LEMMA ReplySimilarKeeps == ASSUME VectorInv, ReplySimilar PROVE VectorInv'
<1>1. PICK found \in BySimilarity(query.top_k + 1) :
         /\ reply' = First(query.top_k, Without(found, query.chunk))
         /\ answered' = IF Acceptable(found) /\ reply' # <<>> THEN "answered" ELSE "failed"
      BY DEF ReplySimilar
<1>2. answered = "embedding" /\ UNCHANGED <<loaded, held, changes, query, rows, seen>>
      BY DEF ReplySimilar
<1>3. query.top_k \in Nat /\ query.top_k + 1 \in Nat
      BY DEF VectorInv, RequestOK
<1>4. IsList(found) /\ ToSet(found) \subseteq Permitted
      BY <1>2, <1>3, ReadsAre
<1> DEFINE others == Without(found, query.chunk)
<1>5. others \in Seq(Passages) /\ Distinct(others) /\ ToSet(others) \subseteq ToSet(found) \ {query.chunk}
      BY <1>4, WithoutIs DEF IsList
<1> HIDE DEF others
<1>6. /\ reply' \in Seq(Passages) /\ Distinct(reply') /\ ToSet(reply') \subseteq ToSet(others)
      /\ Len(reply') = Least(query.top_k, Len(others)) /\ Len(others) \in Nat
      BY <1>1, <1>3, <1>5, FirstIs, LenProperties DEF others
<1>7. Len(reply') <= query.top_k
      BY <1>3, <1>6 DEF Least
<1>8. FusionIsFair'
      <2>1. query'.kind # "hybrid"
            BY <1>2 DEF VectorInv, SearchingInv
      <2> QED BY <2>1 DEF FusionIsFair
<1>9. answered' \in {"answered", "failed"}
      BY <1>1
<1>10. IsList(reply') /\ ToSet(reply') \subseteq Permitted /\ query.chunk \notin ToSet(reply')
      BY <1>4, <1>5, <1>6 DEF IsList
<1> QED BY <1>2, <1>7, <1>8, <1>9, <1>10, AnswerComes

LEMMA ChangeKeeps == ASSUME VectorInv, Change PROVE VectorInv'
<1>1. /\ answered \notin {"idle", "answered", "failed"} /\ changes < MaxChanges /\ changes' = changes + 1
      /\ seen' = seen \union held' /\ UNCHANGED <<loaded, query, rows, reply, answered>>
      BY DEF Change
<1>2. held' \subseteq Passages
      BY DEF Change, VectorInv, VectorTypeOK
<1>3. Permitted \subseteq Permitted'
      BY <1>1 DEF Permitted, Passing
<1>4. RowsOK'
      BY <1>1, <1>3 DEF VectorInv, RowsOK
<1>5. VectorTypeOK'
      <2>1. changes' \in 0..MaxChanges
            BY <1>1, VectorAssumption DEF VectorInv, VectorTypeOK
      <2>2. \A list \in {rows.semantic, rows.keyword, reply} : ToSet(list) \subseteq Passages
            BY DEF VectorInv, VectorTypeOK
      <2> QED BY <1>1, <1>2, <2>1, <2>2 DEF VectorInv, VectorTypeOK
<1>6. RequestOK' /\ SearchingInv'
      BY <1>1 DEF VectorInv, RequestOK, SearchingInv
<1> QED BY <1>1, <1>4, <1>5, <1>6 DEF VectorInv, AnswerIsPermitted, FusionIsFair

LEMMA VectorNextInv == ASSUME VectorInv, [VectorNext]_vectorVars PROVE VectorInv'
<1>1. CASE UNCHANGED vectorVars
      <2>1. UNCHANGED <<loaded, held, changes, query, rows, reply, answered, seen>>
            BY <1>1 DEF vectorVars
      <2>2. VectorTypeOK' /\ RequestOK' /\ RowsOK' /\ SearchingInv'
            BY <2>1 DEF VectorInv, VectorTypeOK, RequestOK, RowsOK, SearchingInv, Permitted, Passing
      <2>3. AnswerIsPermitted'
            BY <2>1 DEF VectorInv, AnswerIsPermitted, Passing
      <2>4. FusionIsFair'
            BY <2>1 DEF VectorInv, FusionIsFair, Merged
      <2> QED BY <2>2, <2>3, <2>4 DEF VectorInv
<1> QED BY <1>1, SearchKeeps, ReadSimilarKeeps, ReadWordedKeeps, ReplyKeeps, FindSimilarKeeps,
           ReplySimilarKeeps, ChangeKeeps DEF VectorNext

---------------------------------------------------------------------------
(* The three side by side. *)

AllInv == SplitInv /\ GroundedInv /\ VectorInv

LEMMA StepsApart == [AllNext]_allVars => [Next]_vars /\ [AnswerNext]_answerVars /\ [VectorNext]_vectorVars
  BY DEF AllNext, OnSplit, OnAnswer, OnVector, allVars

\* What each of the three keeps true holds in every state of the specification.
THEOREM Invariance == AllSpec => []AllInv
<1>1. AllInit => AllInv
      BY SplitInitInv, AnswerInitInv, VectorInitInv DEF AllInit, AllInv
<1>2. AllInv /\ [AllNext]_allVars => AllInv'
      BY StepsApart, SplitNextInv, AnswerNextInv, VectorNextInv DEF AllInv
<1> QED BY <1>1, <1>2, PTL DEF AllSpec

\* Of the vector service: whatever its two connections see of the changes made
\* meanwhile, an answer has no chunk twice, none of another organization, beside
\* the filters or never there, and the fusion is fair to both lists.
THEOREM SearchesAreSound == AllSpec => []SearchInv
<1>1. AllInv => SearchInv
      BY DEF AllInv, SplitInv, GroundedInv, VectorInv, SearchInv
<1> QED BY <1>1, Invariance, PTL

\* An answer that a client is told is completed was finished by its provider,
\* says something, and cites no number without a source.
THEOREM ToldAnswersAreGrounded == AllSpec => []ToldIsGrounded
<1>1. AllInv => ToldIsGrounded
      <2>1. CASE told # "completed"
            BY <2>1 DEF ToldIsGrounded
      <2> QED BY <2>1, GroundedPromises DEF AllInv
<1> QED BY <1>1, Invariance, PTL

\* Whatever the text, every visible character is in a chunk.
THEOREM NothingLost == AllSpec => []NoTextLost
<1>1. AllInv => NoTextLost
      BY DEF AllInv, SplitInv
<1> QED BY <1>1, Invariance, PTL

\* Whatever the text, no chunk is longer than Size or padded with blanks.
THEOREM AllFit == AllSpec => []ChunksFit
<1>1. AllInv => ChunksFit
      BY DEF AllInv, SplitInv
<1> QED BY <1>1, Invariance, PTL

\* With an overlap below half of the size, as the defaults have, the loop
\* always gets on.
THEOREM GetsOn ==
    ASSUME Overlap < Size \div 2
    PROVE  AllSpec => Progress
<1>1. AllInv /\ [AllNext]_allVars => [start' > start \/ done']_vars
      BY StepsApart, LoopGetsOn DEF AllInv
<1> QED BY <1>1, Invariance, PTL DEF AllSpec, Progress
=============================================================================
