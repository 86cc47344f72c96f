---------------------------- MODULE MCGovLedger ----------------------------
(* TLC instances of GovLedger.  A hash is its input, so no two rows collide. *)
EXTENDS GovLedger

CONSTANTS w1, w2, w3, d1, d2

Digest(s, d, p) == <<s, d, p>>
NoDigest == <<>>
=============================================================================
