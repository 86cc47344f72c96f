--------------------------- MODULE MCCommitConfirm ---------------------------
(* TLC instances of CommitConfirm.                                           *)
EXTENDS CommitConfirm
=============================================================================
