--------------------------- MODULE MCSponsorGrant ---------------------------
(***************************************************************************)
(* Instances of SponsorGrant for TLC.                                      *)
(***************************************************************************)
EXTENDS SponsorGrant, TLC

CONSTANTS r1, r2, w1, w2, k1, f1, f2

Alike == Permutations(Recipients) \cup Permutations(Workers) \cup Permutations(Fees)
=============================================================================
