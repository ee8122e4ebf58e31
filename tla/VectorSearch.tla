---------------------------- MODULE VectorSearch ----------------------------
(***************************************************************************)
(* The vector service of the multi-service deployment: a search reads the  *)
(* chunks by similarity, by words, or by both at the same time over two    *)
(* connections, fuses the two lists by reciprocal ranks and has a          *)
(* cross-encoder rank them again.  Meanwhile chunks come and go.           *)
(*                                                                         *)
(* The orders by distance, by rank of the text search and by score of the  *)
(* cross-encoder are any orders.  What a chunk is filtered by (department, *)
(* tags, documents, dates) is a set of chunks for each criterion.  A query *)
(* is normalised and its abbreviations are spelled out before it is        *)
(* searched; no property here depends on its words.                        *)
(***************************************************************************)
EXTENDS Naturals, FiniteSets, SequencesExt

CONSTANTS
    Passages,      \* document_chunks
    Own,           \* those of the organization that searches
    Embedded,      \* those whose embedding IS NOT NULL
    Opposite,      \* those whose cosine with the query is negative
    Criteria,      \* filters: the set of chunks that satisfy each
    Weights,       \* alpha in tenths
    TopKs,         \* top_k
    RrfK, MaxTopK, \* rrf_k and max_top_k of config.py
    Unit,          \* what scores are measured in: a multiple of every rrf_k + rank
    MaxChanges     \* bound on how often a chunk comes or goes during a search

ASSUME VectorAssumption ==
    /\ Own \subseteq Passages /\ Embedded \subseteq Passages /\ Opposite \subseteq Passages
    /\ Criteria \subseteq SUBSET Passages
    /\ Weights \subseteq 0..10 /\ TopKs \subseteq Nat \ {0} /\ {RrfK, MaxTopK, MaxChanges} \subseteq Nat
    /\ IsFiniteSet(Passages) /\ "none" \notin Passages /\ Unit \in Nat
    /\ \A rank \in 1..Cardinality(Passages) : \E n \in 1..Unit : n * (RrfK + rank) = Unit

VARIABLES
    loaded,        \* whether a model for the cross-encoder was configured and loaded
    held,          \* the chunks in the database
    changes,       \* how often they changed since the search began
    query,         \* the request at work
    rows,          \* what each of the two queries returned
    reply,         \* the answer
    answered,      \* where the search is
    seen           \* the chunks that were in the database at some time since it began

vectorVars == <<loaded, held, changes, query, rows, reply, answered, seen>>

NoQuery == [kind |-> "none", weight |-> 10, top_k |-> 1, rerank |-> FALSE, given |-> {}, chunk |-> "none"]

Least(m, n) == IF m <= n THEN m ELSE n
First(n, s) == SubSeq(s, 1, Least(n, Len(s)))

VectorInit ==
    /\ loaded \in BOOLEAN
    /\ held = Passages /\ changes = 0
    /\ query = NoQuery
    /\ rows = [semantic |-> <<>>, keyword |-> <<>>]
    /\ reply = <<>> /\ answered = "idle" /\ seen = {}

---------------------------------------------------------------------------
\* POST /search.
Search ==
    /\ answered = "idle"
    /\ \E kind \in {"semantic", "keyword", "hybrid"}, weight \in Weights, k \in TopKs,
          rerank \in BOOLEAN, given \in SUBSET Criteria :
          query' = [NoQuery EXCEPT !.kind = kind, !.weight = weight, !.top_k = k, !.rerank = rerank, !.given = given]
    /\ seen' = held
    /\ answered' = IF query'.kind = "keyword" THEN "keyword" ELSE IF query'.kind = "hybrid" THEN "both" ELSE "semantic"
    /\ UNCHANGED <<loaded, held, changes, rows, reply>>

\* What is left of top_k * 3 for the cross-encoder, and what is read for the
\* fusion of it.
Wanted == IF query.rerank THEN 3 * query.top_k ELSE query.top_k
Fetched == IF query.kind = "hybrid" THEN Least(3 * Wanted, MaxTopK) ELSE Wanted

\* _build_filter_clause: a criterion that is not given filters nothing.
Passing(c) == \A criterion \in query.given : c \in criterion

\* Mutant of Readable: the organization is left to the caller.
Readable_Anywhere(c) == c \in held /\ Passing(c)

\* The JOIN and WHERE of both queries.
Readable(c) == c \in held /\ c \in Own /\ Passing(c)

\* The first n in an order: of those with an embedding, of which an approximate
\* index may leave some out; of those that match.
BySimilarity(n) == {First(n, order) : order \in SetToAllKPermutations({c \in Embedded : Readable(c)})}
ByWords(n) == {First(n, order) : order \in SetToAllKPermutations({c \in Passages : Readable(c)})}

\* A row becomes a SearchResult, whose score may not be negative: that of a
\* chunk with a negative cosine is refused, and the request fails with it.
Acceptable(found) == ToSet(found) \cap Opposite = {}

\* hybrid_search waits for both queries, which may be answered in either order.
Awaiting(other) == IF answered = "both" THEN other ELSE "read"

ReadSimilar ==
    /\ answered \in {"semantic", "both"}
    /\ \E found \in BySimilarity(Fetched) :
          /\ rows' = [rows EXCEPT !.semantic = found]
          /\ answered' = IF Acceptable(found) THEN Awaiting("keyword") ELSE "failed"
    /\ UNCHANGED <<loaded, held, changes, query, reply, seen>>

ReadWorded ==
    /\ answered \in {"keyword", "both"}
    /\ \E found \in ByWords(Fetched) : rows' = [rows EXCEPT !.keyword = found]
    /\ answered' = Awaiting("semantic")
    /\ UNCHANGED <<loaded, held, changes, query, reply, seen>>

Rank(list, c) == CHOOSE i \in DOMAIN list : list[i] = c

\* 1 / (k + rank) of a chunk, and 0 of one that is not in the list.
Reciprocal(list, c) == IF c \in ToSet(list) THEN Unit \div (RrfK + Rank(list, c)) ELSE 0

\* Mutant of Score: the ranks of the two lists are added up.
Score_Ranks(c) ==
    query.weight * (IF c \in ToSet(rows.semantic) THEN Rank(rows.semantic, c) ELSE 0)
        + (10 - query.weight) * (IF c \in ToSet(rows.keyword) THEN Rank(rows.keyword, c) ELSE 0)

\* The weighted sum of both.
Score(c) ==
    query.weight * Reciprocal(rows.semantic, c) + (10 - query.weight) * Reciprocal(rows.keyword, c)

\* The chunks of the dictionary, and the order in which they entered it, which
\* a stable sort keeps among equals.
Merged == ToSet(rows.semantic) \union ToSet(rows.keyword)
Place(c) ==
    IF c \in ToSet(rows.semantic) THEN Rank(rows.semantic, c)
    ELSE Len(rows.semantic) + Rank(rows.keyword, c)
Before(c, d) == Score(c) > Score(d) \/ (Score(c) = Score(d) /\ Place(c) < Place(d))

\* _rrf_fuse.
Ranked ==
    [i \in 1..Cardinality(Merged) |-> CHOOSE c \in Merged :
        Cardinality({d \in Merged : Before(d, c)}) = i - 1]
Fused == First(Wanted, Ranked)

Found == CASE query.kind = "semantic" -> rows.semantic
           [] query.kind = "keyword"  -> rows.keyword
           [] query.kind = "hybrid"   -> Fused

\* rerank: the scores of the cross-encoder put what was found in any order, and
\* what is beyond k is cut off.  Without a model, or with nothing found, the
\* order stays.
Rescored(found) == SetToSeqs(ToSet(found))
Reranked(found, k) == {First(k, order) : order \in IF loaded /\ found # <<>> THEN Rescored(found) ELSE {found}}

Reply ==
    /\ answered = "read"
    /\ reply' \in IF query.rerank THEN Reranked(Found, query.top_k) ELSE {First(query.top_k, Found)}
    /\ answered' = "answered"
    /\ UNCHANGED <<loaded, held, changes, query, rows, seen>>

\* get_chunk_embedding.
HasEmbedding(c) == c \in held /\ c \in Own /\ c \in Embedded

\* POST /search/similar: the embedding of a chunk of the organization is read.
\* Without it the answer is 404, and one that is NULL cannot be parsed.
FindSimilar ==
    /\ answered = "idle"
    /\ \E c \in Passages, k \in TopKs, given \in SUBSET Criteria :
          /\ query' = [NoQuery EXCEPT !.kind = "similar", !.top_k = k, !.given = given, !.chunk = c]
          /\ answered' = IF HasEmbedding(c) THEN "embedding" ELSE "failed"
    /\ seen' = held
    /\ UNCHANGED <<loaded, held, changes, rows, reply>>

\* A list in which nothing is twice, without one of its members.
Without(list, c) == IF c \in ToSet(list) THEN RemoveAt(list, Rank(list, c)) ELSE list

\* One more than asked for is read, as the chunk itself may be among them.
ReplySimilar ==
    /\ answered = "embedding"
    /\ \E found \in BySimilarity(query.top_k + 1) :
          /\ reply' = First(query.top_k, Without(found, query.chunk))
          /\ answered' = IF Acceptable(found) /\ reply' # <<>> THEN "answered" ELSE "failed"
    /\ UNCHANGED <<loaded, held, changes, query, rows, seen>>

\* Another service inserts or deletes a chunk.
Change ==
    /\ answered \notin {"idle", "answered", "failed"} /\ changes < MaxChanges
    /\ \E c \in Passages : held' = IF c \in held THEN held \ {c} ELSE held \union {c}
    /\ changes' = changes + 1
    /\ seen' = seen \union held'
    /\ UNCHANGED <<loaded, query, rows, reply, answered>>

VectorNext == Search \/ ReadSimilar \/ ReadWorded \/ Reply \/ FindSimilar \/ ReplySimilar \/ Change

---------------------------------------------------------------------------
VectorTypeOK ==
    /\ loaded \in BOOLEAN /\ held \subseteq Passages /\ seen \subseteq Passages /\ changes \in 0..MaxChanges
    /\ query.kind \in {"none", "semantic", "keyword", "hybrid", "similar"}
    /\ \A list \in {rows.semantic, rows.keyword, reply} : ToSet(list) \subseteq Passages
    /\ answered \in {"idle", "semantic", "keyword", "both", "embedding", "read", "answered", "failed"}

\* Whatever the two connections saw: an answer has no chunk twice, none of
\* another organization or beside the filters, and none that was not in the
\* database while it was made.
AnswerIsPermitted ==
    answered = "answered" =>
        /\ Len(reply) <= query.top_k /\ Cardinality(ToSet(reply)) = Len(reply)
        /\ ToSet(reply) \subseteq {c \in (seen \cap Own) \ {query.chunk} : Passing(c)}

Above(list, c, d) ==
    \E i \in DOMAIN list : list[i] = c /\ \A j \in DOMAIN list : list[j] = d => i < j

\* The fusion is fair to both lists: a chunk that each of them puts above another
\* is above it in the answer, also when the other one falls out of it.  With all
\* the weight on one list the answer has the order of that list.
FusionIsFair ==
    answered = "answered" /\ query.kind = "hybrid" /\ ~(query.rerank /\ loaded) =>
        /\ \A c, d \in Merged :
              Above(rows.semantic, c, d) /\ Above(rows.keyword, c, d) /\ d \in ToSet(reply)
                 => Above(reply, c, d)
        /\ query.weight = 10 => First(Len(reply), rows.semantic) = First(Len(rows.semantic), reply)
        /\ query.weight = 0 => First(Len(reply), rows.keyword) = First(Len(rows.keyword), reply)
===========================================================================
