--------------------------- MODULE MCOrderEscrow ---------------------------
(* OrderEscrow for TLC. *)
EXTENDS OrderEscrow, TLC

\* Sound for the runs of invariants and action properties: no definition tells
\* two buyers or two request sessions apart.
Symmetry == Permutations(Buyers) \cup Permutations(Requests)
=============================================================================
