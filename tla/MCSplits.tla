------------------------------ MODULE MCSplits ------------------------------
(***************************************************************************)
(* Instances of Splits for TLC.                                            *)
(***************************************************************************)
EXTENDS Splits, TLC

CONSTANTS x, y, r, d1, d2, h1, h2

MCAmount == [i \in Invitations |-> 2]
AnyOrder == Permutations(Invitations) \cup Permutations(Digests) \cup Permutations(Hashes)
=============================================================================
