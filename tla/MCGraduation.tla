---------------------------- MODULE MCGraduation ----------------------------
(* Instances of Graduation for TLC: two processes, one thread each, or one  *)
(* process with two.                                                        *)
EXTENDS Graduation, TLC

CONSTANTS w1, w2, t1, t2
OneEach(s) == IF s = t1 THEN w1 ELSE w2
Shared(s) == w1
Sym == Permutations(Ref)
=============================================================================
