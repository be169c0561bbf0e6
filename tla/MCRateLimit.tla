----------------------------- MODULE MCRateLimit -----------------------------
(* Small instances of RateLimit for TLC.                                   *)
EXTENDS RateLimit, TLC

CONSTANTS p1, p2

(* A request is only a name.                                               *)
Interchangeable == Permutations(Requests)
=============================================================================
