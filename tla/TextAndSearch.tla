--------------------------- MODULE TextAndSearch ---------------------------
(***************************************************************************)
(* Three small parts that work on texts, side by side: split_text and the  *)
(* answering of the supported runtime, and the vector service.  They share *)
(* nothing, and a behaviour is one of the three.                           *)
(***************************************************************************)
EXTENDS SplitText, Answering, VectorSearch

VARIABLE part      \* whose behaviour this is

allVars == <<part, vars, answerVars, vectorVars>>

\* The two others do not move, so one text is enough for them.
AllInit ==
    /\ part \in {"split", "answer", "vector"}
    /\ Init /\ (part # "split" => text = <<>>)
    /\ AnswerInit /\ VectorInit /\ (part # "vector" => ~loaded)

OnSplit(A)  == part = "split" /\ A /\ UNCHANGED <<part, answerVars, vectorVars>>
OnAnswer(A) == part = "answer" /\ A /\ UNCHANGED <<part, vars, vectorVars>>
OnVector(A) == part = "vector" /\ A /\ UNCHANGED <<part, vars, answerVars>>

AllNext == OnSplit(Next) \/ OnAnswer(AnswerNext) \/ OnVector(VectorNext)

AllSpec == AllInit /\ [][AllNext]_allVars

\* Types, and what an answer of the vector service holds and in which order,
\* whatever its two connections see of the changes made meanwhile.
SearchInv == TypeOK /\ AnswerTypeOK /\ VectorTypeOK /\ AnswerIsPermitted /\ FusionIsFair
=============================================================================
