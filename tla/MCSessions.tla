----------------------------- MODULE MCSessions -----------------------------
(***************************************************************************)
(* Instances of Sessions for TLC: one organization, or a second one for    *)
(* the last account.                                                       *)
(***************************************************************************)
EXTENDS Sessions, TLC

CONSTANTS u1, u2, u3, t1, t2, t3, r1, r2, o1, o2

TwoOrgs == [u \in Users |-> IF u = u3 THEN o2 ELSE o1]

Symmetries == Permutations(Tokens) \union Permutations(Requests)
=============================================================================
