----------------------------- MODULE SplitText -----------------------------
(***************************************************************************)
(* split_text of backend/runtime/ingestion.py: cuts a text into chunks of  *)
(* at most Size characters, at the last space in the second half of a      *)
(* chunk if there is one, and lets each chunk begin Overlap characters     *)
(* before the end of the one before.                                       *)
(*                                                                         *)
(* A character is what it is to the function: a space, which rfind looks   *)
(* for; another blank, which only strip knows; or something visible.  A    *)
(* chunk is the set of positions it is cut from.  Positions count from 0,  *)
(* as in the code.                                                         *)
(***************************************************************************)
EXTENDS Integers, Sequences

CONSTANTS
    Size,          \* characters of a chunk at most
    Overlap,       \* characters that two consecutive chunks share
    Texts          \* the texts that are split

Kinds == {"visible", "space", "blank"}

\* The guard of split_text, which raises ValueError otherwise.
ASSUME GuardAssumption == Size \in Nat /\ Overlap \in Nat /\ Overlap < Size

\* A bound of the model: with a larger overlap start may become negative,
\* and Python counts negative positions from the other end.
ASSUME OverlapAssumption == Overlap <= Size \div 2

ASSUME TextsAssumption == Texts \in SUBSET Seq(Kinds)

VARIABLES
    text,          \* the text
    start,         \* where the next chunk begins
    end,           \* where the last one ended
    chunks,        \* the chunks that were yielded
    done           \* the generator is exhausted

vars == <<text, start, end, chunks, done>>

TypeOK ==
    /\ text \in Texts
    /\ start \in 0..Len(text)
    /\ end \in 0..Len(text)
    /\ chunks \in SUBSET SUBSET (0..(Len(text) - 1))
    /\ done \in BOOLEAN

Init ==
    /\ text \in Texts
    /\ start = 0
    /\ end = 0
    /\ chunks = {}
    /\ done = FALSE

Char(i)    == text[i + 1]
Visible(i) == Char(i) = "visible"

\* text[from:to].strip(): from the first visible character to the last.
Stripped(from, to) ==
    {i \in from..(to - 1) : \E j \in from..i, k \in i..(to - 1) :
                               Visible(j) /\ Visible(k)}

\* min(start + size, len(text)).
Limit == IF start + Size < Len(text) THEN start + Size ELSE Len(text)

\* Mutant: a space is looked for in the whole chunk.
Spaces_Anywhere == {i \in start..(Limit - 1) : Char(i) = "space"}

\* Where text.rfind(" ", start + size // 2, end) may find a space.
Spaces == {i \in (start + Size \div 2)..(Limit - 1) : Char(i) = "space"}

\* The chunk that begins at start ends at e: at the last of these spaces
\* when it is beyond start, at the limit otherwise, or when that is the end.
Boundary(e) ==
    LET found == {b \in Spaces : b > start /\ \A i \in Spaces : i <= b}
    IN IF Limit < Len(text) /\ found # {} THEN e \in found ELSE e = Limit

\* Mutant: the overlap is skipped instead of repeated.
Cut_Skips ==
    /\ ~done
    /\ start < Len(text)
    /\ \E e \in 0..Len(text) :
          /\ Boundary(e)
          /\ end' = e
          /\ chunks' = chunks \union ({Stripped(start, e)} \ {{}})
          /\ IF e = Len(text) THEN done' = TRUE /\ UNCHANGED start
                              ELSE start' = e + Overlap /\ UNCHANGED done
    /\ UNCHANGED text

\* One turn of the loop.
Cut ==
    /\ ~done
    /\ start < Len(text)
    /\ \E e \in 0..Len(text) :
          /\ Boundary(e)
          /\ end' = e
          /\ chunks' = chunks \union ({Stripped(start, e)} \ {{}})
          /\ IF e = Len(text) THEN done' = TRUE /\ UNCHANGED start
                              ELSE start' = e - Overlap /\ UNCHANGED done
    /\ UNCHANGED text

\* The condition of the loop is false: the text was empty.
Exhausted ==
    /\ ~done
    /\ start >= Len(text)
    /\ done' = TRUE
    /\ UNCHANGED <<text, start, end, chunks>>

Next == Cut \/ Exhausted

Spec == Init /\ [][Next]_vars

-----------------------------------------------------------------------------
(* What must hold.                                                         *)

\* No visible character is lost: each one before the end of the last chunk
\* is in a chunk that was yielded, so when the generator is exhausted every
\* one is.
NoTextLost ==
    /\ \A i \in 0..(end - 1) : Visible(i) => \E c \in chunks : i \in c
    /\ done => end = Len(text)

\* A chunk has at most Size characters, and nothing in it is before its first
\* or after its last visible one.
ChunksFit ==
    \A c \in chunks :
        /\ \A i, j \in c : j - i < Size
        /\ \A k \in c : \E i, j \in c : /\ i <= k /\ k <= j
                                       /\ Visible(i) /\ Visible(j)

\* Each turn of the loop begins further in the text, or is the last one: the
\* generator is exhausted in the end.
Progress == [][start' > start \/ done']_vars

-----------------------------------------------------------------------------
(* Why it holds: the part of the inductive invariant that is about it.     *)

SplitInv ==
    /\ TypeOK
    /\ start <= end
    /\ NoTextLost
    /\ ChunksFit
=============================================================================
