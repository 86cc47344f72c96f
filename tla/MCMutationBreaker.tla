------------------------- MODULE MCMutationBreaker -------------------------
(* TLC instances of MutationBreaker. *)
EXTENDS MutationBreaker, TLC

CONSTANTS w1, w2, t1, t2, t3

\* Two workers, two actuations in the first.
Home3 == (t1 :> w1) @@ (t2 :> w1) @@ (t3 :> w2)
=============================================================================
