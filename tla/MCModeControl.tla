--------------------------- MODULE MCModeControl ---------------------------
(* Instances of ModeControl for TLC: model values p1, p2 are processes and  *)
(* k1, k2 the goroutines of a process that may raise a kill.                *)
EXTENDS ModeControl

CONSTANTS p1, p2, k1, k2
=============================================================================
