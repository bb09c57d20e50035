------------------------------ MODULE Amounts -------------------------------
(***************************************************************************)
(* Arithmetic on amounts of base units: checked subtraction, rounded-down  *)
(* shares, and the sum of the values of a function.                        *)
(*                                                                         *)
(* For the sum, a value n at the point x is laid out as the n units        *)
(* <<x, 1>>, ..., <<x, n>>, and the units are counted.  The definition has *)
(* no recursion, so the facts about it follow from those about finite sets *)
(* (AmountsProofs); MCCheckout checks on small functions that it is the    *)
(* sum that SumFunction of the community modules computes.                 *)
(***************************************************************************)
EXTENDS Integers, FiniteSets

\* A checked subtraction: Solidity 0.8 reverts when it would go below zero.
CanTake(balance, amount) == amount <= balance

\* Math.mulDiv(part, numerator, denominator), rounding down.
Share(part, numerator, denominator) == (part * numerator) \div denominator

Units(f) == UNION {{x} \X (1..f[x]) : x \in DOMAIN f}

Total(f) == Cardinality(Units(f))
=============================================================================
