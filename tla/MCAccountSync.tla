--------------------------- MODULE MCAccountSync ---------------------------
(* Small instances of AccountSync for TLC.                                 *)
EXTENDS AccountSync, TLC

CONSTANTS h1, h2, t1, t2, p1, p2

Symmetry == Permutations(Requests) \cup Permutations(Holdings)
               \cup Permutations(Transactions)
=============================================================================
