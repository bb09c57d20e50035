-------------------------- MODULE MCPaymentAttempt --------------------------
(***************************************************************************)
(* Instances of PaymentAttempt for TLC.                                    *)
(***************************************************************************)
EXTENDS PaymentAttempt, TLC

Symmetry == Permutations(Tabs) \cup Permutations(Workers)
=============================================================================
