------------------------------ MODULE MCAccounts ------------------------------
(* Accounts for TLC: the requests, the openids, the phones and the tokens are   *)
(* each interchangeable.                                                        *)
EXTENDS Accounts, TLC
CONSTANTS r1, r2, o1, o2, p1, p2, t1, t2, s1
Symmetry == Permutations(Requests) \cup Permutations(Openids) \cup
            Permutations(Phones) \cup Permutations(Tokens)
=============================================================================
