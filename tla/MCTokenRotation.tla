-------------------------- MODULE MCTokenRotation --------------------------
(* Small instances of TokenRotation for TLC.                               *)
EXTENDS TokenRotation, TLC

CONSTANTS u1, s1, s2, r1, r2, l1, g1, g2, w1, v1

OwnerOf == [s \in Sessions |-> u1]

Interchangeable == Permutations(Refreshers)
=============================================================================
