------------------------------- MODULE MCLogins -------------------------------
(* Logins for TLC: the devices are interchangeable. *)
EXTENDS Logins, TLC
CONSTANTS d1, d2
Symmetry == Permutations(Devices)
=============================================================================
