---------------------------- MODULE MCDisputes ----------------------------
(* Disputes for TLC.  No symmetry: the run checks a liveness property. *)
EXTENDS Disputes
=============================================================================
