-------------------------- MODULE MCEventDelivery --------------------------
(* Small instances of EventDelivery for TLC.                               *)
EXTENDS EventDelivery

CONSTANTS r1, r2

Symmetry == Permutations(Recalcs)
=============================================================================
