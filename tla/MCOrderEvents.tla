--------------------------- MODULE MCOrderEvents ---------------------------
(* OrderEvents for TLC.  No symmetry: the run checks liveness properties. *)
EXTENDS OrderEvents
=============================================================================
