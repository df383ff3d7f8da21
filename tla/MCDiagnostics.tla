---------------------------- MODULE MCDiagnostics ----------------------------
(* One seed peer and one other peer.                                       *)
EXTENDS Diagnostics

CONSTANTS s1, p1
=============================================================================
