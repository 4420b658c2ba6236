-------------------------- MODULE MCWithdrawals --------------------------
(* Withdrawals for TLC: sessions are interchangeable model values. *)
EXTENDS Withdrawals, TLC

Symmetry == Permutations(Sessions)
=============================================================================
