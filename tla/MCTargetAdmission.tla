------------------------- MODULE MCTargetAdmission -------------------------
(* TLC instances of TargetAdmission: process w1 runs two actuations at a     *)
(* time, w2 one.                                                             *)
EXTENDS TargetAdmission, TLC

CONSTANTS w1, w2, a1, a2, b1, i1, i2, h1, h1upper

PlaceOf(s) == IF s = b1 THEN w2 ELSE w1
Lower(t) == h1
Interchangeable == Permutations({i1, i2}) \union Permutations({a1, a2})
============================================================================
