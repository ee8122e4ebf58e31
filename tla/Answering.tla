------------------------------ MODULE Answering ------------------------------
(***************************************************************************)
(* How the supported runtime finds the sources of an answer, has a         *)
(* provider write it and checks what it cites: search of                   *)
(* backend/runtime/retrieval.py, generate of backend/runtime/providers.py  *)
(* and the check of events() in backend/runtime/main.py.  Chat.tla has the *)
(* stream to the client; there an answer is its number of tokens.          *)
(*                                                                         *)
(* A passage is its words and where it is from; of BM25 the order is left  *)
(* open, not which passages have a score.  An answer is a sequence of      *)
(* marks, which a provider may cut into tokens anywhere.  The connection   *)
(* may be lost after any line without an error of its own; and the client  *)
(* may be gone, or too slow for the 120 seconds, at any yield or await.    *)
(***************************************************************************)
EXTENDS Naturals, Sequences, FiniteSets

CONSTANTS
    Library,       \* chunks: records of org, doc, words and whether doc is indexed
    Asked,         \* the words that are asked for
    Stop,          \* words that are not searched for
    Contents,      \* what a token may be
    MaxTop,        \* the largest top_k
    MaxLines       \* lines of the longest stream of a provider

Numerals == <<"1", "2", "3">>
Marks == {"[", "]", "1", "2", "3", "w"}

ASSUME AnsweringAssumption ==
    /\ IsFiniteSet(Library) /\ Contents \subseteq Seq(Marks)
    /\ MaxTop \in Nat /\ MaxLines \in Nat

VARIABLES
    question,      \* the request: organization, words, documents, top_k
    sources,       \* what search returned
    provider,      \* RAG_PROVIDER, or none that is configured
    lines,         \* how many lines it has sent
    finished,      \* it has sent its last one
    completed,     \* of generate: the line that ends the stream came
    received,      \* of generate: content came
    answer,        \* the answer so far
    status,        \* of events, and in the end of the stored answer
    told           \* what the client hears in "done"

generation == <<lines, finished, completed, received, answer>>
answerVars == <<question, sources, provider, generation, status, told>>

NoQuestion == [org |-> "none", words |-> {}, docs |-> {}, top_k |-> 1]

AnswerInit ==
    /\ question = NoQuestion /\ sources = <<>> /\ provider = "extractive"
    /\ lines = 0 /\ finished = FALSE /\ completed = FALSE /\ received = FALSE
    /\ answer = <<>> /\ status = "idle" /\ told = "none"

---------------------------------------------------------------------------
Tokens(words) == words \ Stop

\* search: the WHERE clause; an empty list of documents is no filter.
Candidates(q) ==
    {c \in Library : c.org = q.org /\ c.indexed /\ (q.docs # {} => c.doc \in q.docs)}

\* The inverse document frequency is the logarithm of more than 1: a word adds
\* to the score of each passage that has it.
Scored(q) == {c \in Candidates(q) : Tokens(q.words) \cap Tokens(c.words) # {}}

\* sorted(...)[:top_k], in the order of the scores.
Hits(q) ==
    LET n == IF Cardinality(Scored(q)) <= q.top_k THEN Cardinality(Scored(q)) ELSE q.top_k
    IN {s \in [1..n -> Scored(q)] : \A i, j \in 1..n : s[i] = s[j] => i = j}

\* configuration(): without a model, or a key that it needs, there is none.
Retrieve ==
    /\ status = "idle"
    /\ \E org \in {c.org : c \in Library}, words \in SUBSET Asked,
          docs \in SUBSET {c.doc : c \in Library}, k \in 1..MaxTop :
          question' = [org |-> org, words |-> words, docs |-> docs, top_k |-> k]
    /\ sources' \in Hits(question')
    /\ provider' \in {"extractive", "ollama", "openai"}
    /\ status' = "generating"
    /\ UNCHANGED <<generation, told>>

\* Without sources there is nothing to generate, nor without a model.
Generates == sources # <<>> /\ provider # "extractive"

\* The finally stores the answer, and "done" says so to a client that is there.
EndsAs(end) == status' = end /\ told' \in {"none", end}

\* The generator is closed at a yield, by no exception that it catches: what
\* there is of the answer is stored with the status that events began with.
Closed == status' = "completed" /\ UNCHANGED told

\* The excerpts, or that nothing was found, are the answer.
Extract ==
    /\ status = "generating" /\ ~Generates
    /\ EndsAs("completed")
    /\ UNCHANGED <<question, sources, provider, generation>>

\* The client does not get beyond "meta" and "sources".
CloseEarly ==
    /\ status = "generating" /\ lines = 0
    /\ Closed
    /\ UNCHANGED <<question, sources, provider, generation>>

Sends == /\ status = "generating" /\ Generates
         /\ lines < MaxLines /\ ~finished /\ lines' = lines + 1

\* Content that a line brings is added to the answer, and yielded.
Bring(content) ==
    /\ answer' = answer \o content
    /\ received' = (received \/ content # <<>>)
    /\ \/ UNCHANGED <<status, told>>
       \/ content # <<>> /\ Closed

\* Ollama: each line says whether it is the last.
OllamaLine ==
    /\ provider = "ollama" /\ Sends
    /\ \E content \in Contents \union {<<>>}, last \in BOOLEAN :
          Bring(content) /\ completed' = last /\ finished' = last
    /\ UNCHANGED <<question, sources, provider>>

\* OpenAI: a chunk, or the line that ends the stream.
OpenAILine ==
    /\ provider = "openai" /\ Sends
    /\ \/ \E content \in Contents \union {<<>>} : Bring(content)
          /\ UNCHANGED <<completed, finished>>
       \/ completed' = TRUE /\ finished' = TRUE
          /\ UNCHANGED <<answer, received, status, told>>
    /\ UNCHANGED <<question, sources, provider>>

\* An error in a line, of the connection or of its 90 seconds.
StreamFails ==
    /\ status = "generating" /\ Generates
    /\ EndsAs("failed")
    /\ UNCHANGED <<question, sources, provider, generation>>

\* Mutant: only what follows the beginning is looked at.
Citations_First(marks) ==
    {n \in DOMAIN Numerals : Len(marks) >= 3 /\ SubSeq(marks, 1, 3) = <<"[", Numerals[n], "]">>}

\* re.findall of a number in brackets.
Citations(marks) ==
    {n \in DOMAIN Numerals : \E i \in 1..(Len(marks) - 2) :
        marks[i] = "[" /\ marks[i + 1] = Numerals[n] /\ marks[i + 2] = "]"}

Invalid == ~(Citations(answer) \subseteq DOMAIN sources)

\* Mutant: a stream that has brought anything is an answer.
StreamEnds_Lenient ==
    /\ status = "generating" /\ Generates
    /\ EndsAs(IF ~received \/ Invalid THEN "failed" ELSE "completed")
    /\ UNCHANGED <<question, sources, provider, generation>>

\* The stream is at its end, or the connection.  generate raises unless the
\* answer is complete; events checks the citations.
StreamEnds ==
    /\ status = "generating" /\ Generates
    /\ EndsAs(IF ~completed \/ ~received \/ Invalid THEN "failed" ELSE "completed")
    /\ UNCHANGED <<question, sources, provider, generation>>

\* The client is gone: events is cancelled while it awaits the provider, or
\* notices it with a token in hand, and then still checks the citations.
Cancelled ==
    /\ status = "generating" /\ Generates
    /\ status' = "cancelled" \/ (Invalid /\ status' = "failed")
    /\ UNCHANGED <<question, sources, provider, generation, told>>

AnswerNext ==
    \/ Retrieve \/ Extract \/ CloseEarly
    \/ OllamaLine \/ OpenAILine \/ StreamFails \/ StreamEnds \/ Cancelled

---------------------------------------------------------------------------
AnswerTypeOK ==
    /\ provider \in {"extractive", "ollama", "openai"}
    /\ \A i \in DOMAIN sources : sources[i] \in Library
    /\ lines \in 0..MaxLines
    /\ {finished, completed, received} \subseteq BOOLEAN
    /\ status \in {"idle", "generating", "completed", "failed", "cancelled"}
    /\ told \in {"none", "completed", "failed"}

\* A client that is told of a completed answer has one that its provider
\* finished, that says something, and that cites no number without a source,
\* however the citations were cut into tokens.  Of the stored answers this is
\* not true: one that is closed at a yield is stored as completed, cut short
\* and unchecked (CompletedIsWhole of Chat); but nobody is told so.
ToldIsGrounded ==
    told = "completed" =>
        /\ status = "completed"
        /\ Generates =>
              /\ finished /\ answer # <<>>
              /\ \A i \in 1..(Len(answer) - 2), n \in DOMAIN Numerals :
                    SubSeq(answer, i, i + 2) = <<"[", Numerals[n], "]">> => n <= Len(sources)
=============================================================================
