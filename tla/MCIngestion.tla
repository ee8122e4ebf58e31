---------------------------- MODULE MCIngestion ----------------------------
(***************************************************************************)
(* Instances of Ingestion for TLC.                                         *)
(***************************************************************************)
EXTENDS Ingestion, TLC

CONSTANTS d1, d2, d3, r1, r2, r3

\* Two uploads of the same contents; a third document differs.
SameContents == [d \in Docs |-> IF d = d3 THEN "other" ELSE "same"]

\* Requests are alike.
RequestSymmetry == Permutations(Requests)
=============================================================================
