------------------------------- MODULE MCChat -------------------------------
(***************************************************************************)
(* Instances of Chat for TLC: all questions are asked in one conversation, *)
(* or the third in another.                                                *)
(***************************************************************************)
EXTENDS Chat, TLC

CONSTANTS s1, s2, s3, c1, c2, a, b, v1

OneConversation == [s \in Streams |-> IF s = s3 THEN c2 ELSE c1]

StreamSymmetry == Permutations(Streams)
=============================================================================
