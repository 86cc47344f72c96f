--------------------------- MODULE MCRunnerSession ---------------------------
(* TLC instances of RunnerSession.                                           *)
EXTENDS RunnerSession
=============================================================================
