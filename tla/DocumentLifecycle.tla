------------------------- MODULE DocumentLifecycle -------------------------
(***************************************************************************)
(* What the knowledge library promises about one uploaded document, seen   *)
(* from the API: a document is added once, it is pending while it waits    *)
(* for ingestion or is ingested, it settles as ready (searchable) or       *)
(* failed, it may be sent back for re-indexing, and removing it is final:  *)
(* its identifier never names a document again.                            *)
(*                                                                         *)
(* Ingestion implements this specification with rows, files, a worker and  *)
(* concurrent requests.                                                    *)
(***************************************************************************)
CONSTANT Docs          \* the identifiers that uid() may draw

VARIABLE stage         \* stage[d] : the life of the document named d

Stages == {"none", "pending", "ready", "failed", "gone"}

Init == stage = [d \in Docs |-> "none"]

\* The step of document d from one of the stages in from to the stage to.
Moves(d, from, to) ==
    /\ stage[d] \in from
    /\ stage' = [stage EXCEPT ![d] = to]

\* An upload creates the row of a fresh identifier, queued for ingestion.
Add(d) == Moves(d, {"none"}, "pending")

\* The worker ends its work on a document.
Settle(d) == \E to \in {"ready", "failed"} : Moves(d, {"pending"}, to)

\* A request to index the document again.
Requeue(d) == Moves(d, {"ready", "failed"}, "pending")

\* Removal, allowed at any time in the life of the document.
Remove(d) == Moves(d, {"pending", "ready", "failed"}, "gone")

Next == \E d \in Docs : Add(d) \/ Settle(d) \/ Requeue(d) \/ Remove(d)

Spec == Init /\ [][Next]_stage
=============================================================================
