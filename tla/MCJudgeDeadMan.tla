--------------------------- MODULE MCJudgeDeadMan ---------------------------
(* TLC instances of JudgeDeadMan. *)
EXTENDS JudgeDeadMan

CONSTANTS liveness, frontier, sibling
=============================================================================
