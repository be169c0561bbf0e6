------------------------- MODULE MCSessionLifecycle -------------------------
(* Small instances of SessionLifecycle for TLC.                            *)
EXTENDS SessionLifecycle, TLC

CONSTANTS s1, s2, s3, p1, p2
=============================================================================
