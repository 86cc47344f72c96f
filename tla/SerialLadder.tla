---------------------------- MODULE SerialLadder ----------------------------
(***************************************************************************)
(* What the graduation store promises of one op-class: its rung moves only *)
(* by whole runs, one after another, as if a single ladder had seen them   *)
(* in some order.  A run may also find nothing it can read, and then it    *)
(* starts the class again from approve; nothing else ever drops or grants  *)
(* a rung.                                                                 *)
(***************************************************************************)
EXTENDS Ladder

VARIABLE rung

\* approve, or a rung from before the promotions needed credit.
Init == \E level \in Level : rung = Rung(level, 0, 0)

\* One run's outcome.
Run == \E outcome \in Outcome : rung' = applyOutcome(rung, outcome)

\* One run's outcome, on a class that could not be read.
Forfeit == \E outcome \in Outcome : rung' = applyOutcome(Fresh, outcome)

\* A re-ratified name earns again from nothing.
Reset == rung' = Fresh

Next == Run \/ Forfeit \/ Reset

Spec == Init /\ [][Next]_rung
=============================================================================
