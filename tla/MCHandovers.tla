---------------------------- MODULE MCHandovers ----------------------------
(***************************************************************************)
(* Instances of the handover queue for TLC.                                 *)
(***************************************************************************)
EXTENDS Handovers, TLC

CONSTANTS a1, a2, r1, r2, r3, c1, c2   \* model values

\* The first run has a consumer_id of its own, the others share one.
TwoLabels == [r \in Runs |-> IF r = r1 THEN c1 ELSE c2]

\* All runs pass the same consumer_id, as the ingest skill is told to.
OneLabel == [r \in Runs |-> c1]
=============================================================================
