------------------------ MODULE MCProviderConnection ------------------------
(* Small instances of ProviderConnection for TLC.                          *)
EXTENDS ProviderConnection, TLC

CONSTANTS c1, c2, p1, p2, st1
=============================================================================
