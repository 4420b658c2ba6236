------------------------- MODULE MCAlipayPayments -------------------------
(* AlipayPayments for TLC.  No symmetry: the run checks a liveness property. *)
EXTENDS AlipayPayments
=============================================================================
