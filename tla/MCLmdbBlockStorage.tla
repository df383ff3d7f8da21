-------------------------- MODULE MCLmdbBlockStorage --------------------------
(* A block larger than a new map, and two small ones.                      *)
EXTENDS LmdbBlockStorage, FiniteSetsExt

CONSTANTS a, b, c, r1

MCSize == [h \in Hash |-> IF h = a THEN 4 ELSE 1]
MCSpace == [S \in SUBSET Hash |-> MapThenSumSet(LAMBDA h : MCSize[h], S)]
=============================================================================
