---------------------------- MODULE MCWorkspace -----------------------------
(***************************************************************************)
(* An instance of Workspace for TLC.                                       *)
(***************************************************************************)
EXTENDS Workspace, TLC

CONSTANTS c1, c2, q1, q2, d1, d2, l1, l2, m1, p1, p2
=============================================================================
