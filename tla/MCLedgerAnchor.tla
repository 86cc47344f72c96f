--------------------------- MODULE MCLedgerAnchor ---------------------------
(* TLC instances of LedgerAnchor.  A hash is its input. *)
EXTENDS LedgerAnchor

CONSTANTS w1, w2, d1, d2

Digest(s, d, p) == <<s, d, p>>
NoDigest == <<>>
=============================================================================
