--------------------------- MODULE MCLegacyAccess ---------------------------
(***************************************************************************)
(* An instance of LegacyAccess for TLC: one request of any caller for any  *)
(* route, or three requests that the window counts and that end with 401;  *)
(* three requests of the auth service, three of the user service, and      *)
(* three that the shared limiter counts for a user or an address.          *)
(***************************************************************************)
EXTENDS LegacyAccess, TLC

CONSTANTS r1, r2, r3, c1, c2, c3, u1, u2, s1

AnyRoute == [r \in Requests |-> IF r = r1 THEN Routes \X Callers ELSE {}]
Anonymous == {x \in ProfileRoutes : x.op = "users.me"} \X {[role |-> "none", own |-> FALSE]}
SameWindow == [r \in Requests |-> Anonymous]
TwoLoads == [routes |-> AnyRoute, window |-> SameWindow]
Clocks == [routes |-> 0, window |-> 4]

\* Two visits of a user, of which one has the clock of a visit without a user.
SomeUsers == [v \in Visits |-> IF v = r3 THEN NoIdentity ELSE u1]
SameAddress == [v \in Visits |-> s1]
SomeTicks == [v \in Visits |-> IF v = r1 THEN 1 ELSE 2]

=============================================================================
