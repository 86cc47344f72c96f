--------------------------- MODULE MCModelBreaker ---------------------------
(* TLC instances of ModelBreaker. *)
EXTENDS ModelBreaker, TLC

CONSTANTS w1, w2, c1, c2, c3

\* Two calls in one worker, one in the other.
Calls3 == (c1 :> w1) @@ (c2 :> w1) @@ (c3 :> w2)
=============================================================================
