---------------------------- MODULE MCRateWindow ----------------------------
(***************************************************************************)
(* An instance of RateWindow for TLC: two keys with a limit of two, like   *)
(* the api requests of two hosts, and one with a limit of one.             *)
(***************************************************************************)
EXTENDS RateWindow, TLC

CONSTANTS k1, k2, k3, LastInstant

Limits   == [k \in Keys |-> IF k = k3 THEN 1 ELSE 2]
Instants == 0..LastInstant
=============================================================================
