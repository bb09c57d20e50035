--------------------------- MODULE MCProjection ----------------------------
(***************************************************************************)
(* Instances of Projection for TLC.                                        *)
(***************************************************************************)
EXTENDS Projection, TLC

CONSTANTS o1, o2

MCPrice  == o1 :> 5 @@ o2 :> 3
MCFee    == o1 :> 2 @@ o2 :> 1
MCPoints == o1 :> 3 @@ o2 :> 0
MCOrderOf == [r \in Refunds |-> o1]
MCAmount == [r \in Refunds \cup Withdrawals |-> IF r = 1 THEN 2 ELSE IF r \in {2, 12} THEN 3 ELSE 1]
=============================================================================
