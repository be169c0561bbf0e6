--------------------------- MODULE MCUserAccount ---------------------------
(* Small instances of UserAccount for TLC.                                 *)
EXTENDS UserAccount, TLC

CONSTANTS p1, p2, w1, w2
=============================================================================
