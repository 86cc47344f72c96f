----------------------------- MODULE AppendLog -----------------------------
(***************************************************************************)
(* What the governance ledger promises its callers: one log for the whole  *)
(* deployment, which changes only by a decision being appended to its end. *)
(***************************************************************************)
EXTENDS Sequences

CONSTANT Decision

VARIABLE log

Init == log = <<>>

Next == \E d \in Decision : log' = Append(log, d)

Spec == Init /\ [][Next]_log
=============================================================================
