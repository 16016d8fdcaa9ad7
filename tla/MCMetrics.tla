------------------------------ MODULE MCMetrics ------------------------------
(***************************************************************************)
(* Metrics with the counters of a bridge and its sink, and two clients.    *)
(***************************************************************************)
EXTENDS Metrics
=============================================================================
