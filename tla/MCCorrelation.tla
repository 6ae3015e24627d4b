--------------------------- MODULE MCCorrelation ----------------------------
(* Devices are interchangeable: no property counts steps of one of them.   *)
EXTENDS Correlation, TLC

CONSTANTS p1, p2, m1, m2, i1, i2, h1

Symmetry == Permutations(PDIDs)
=============================================================================
