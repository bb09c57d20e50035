------------------------------- MODULE Escrow -------------------------------
(***************************************************************************)
(* What the settlement contract promises about money, without how it keeps *)
(* its books: an order is funded once, for one merchant and with one fee;  *)
(* what it holds goes back to the payer in parts, or is released once to   *)
(* the merchant and the platform, neither getting more than its part of    *)
(* the gross amount; a party is paid out only what was released to it.     *)
(* Checkout implements it (MCCheckout!EscrowSpec).                         *)
(***************************************************************************)
EXTENDS Integers

CONSTANTS OrderKeys, Merchants, Platform

Parties == Merchants \cup {Platform}

VARIABLES
  terms,   \* [payee, gross, fee] of a funded order; NoTerms before
  held,    \* what an order still holds
  open,    \* the funded orders not released yet
  credit,  \* what a party may be paid out
  vault    \* all the money in custody

vars == <<terms, held, open, credit, vault>>

NoTerms == [payee |-> Platform, gross |-> 0, fee |-> 0]

Init ==
  /\ terms = [k \in OrderKeys |-> NoTerms]
  /\ held = [k \in OrderKeys |-> 0]
  /\ open = {}
  /\ credit = [p \in Parties |-> 0]
  /\ vault = 0

Fund(k) ==
  /\ terms[k] = NoTerms
  /\ terms'[k].payee \in Merchants
  /\ terms'[k].gross > 0 /\ terms'[k].fee \in 0..terms'[k].gross
  /\ terms' = [terms EXCEPT ![k] = terms'[k]]
  /\ held' = [held EXCEPT ![k] = terms'[k].gross]
  /\ open' = open \cup {k}
  /\ vault' = vault + terms'[k].gross
  /\ UNCHANGED credit

Return(k) ==
  /\ k \in open
  /\ held'[k] \in 0..(held[k] - 1)
  /\ held' = [held EXCEPT ![k] = held'[k]]
  /\ vault' = vault - (held[k] - held'[k])
  /\ UNCHANGED <<terms, open, credit>>

\* The platform gets at most the fee and the merchant at most the rest.
Release(k) ==
  LET toMerchant == credit'[terms[k].payee] - credit[terms[k].payee]
      toPlatform == credit'[Platform] - credit[Platform]
  IN
  /\ k \in open
  /\ toMerchant \in 0..(terms[k].gross - terms[k].fee)
  /\ toPlatform \in 0..terms[k].fee
  /\ toMerchant + toPlatform = held[k]
  /\ credit' = [credit EXCEPT ![terms[k].payee] = @ + toMerchant,
                              ![Platform] = @ + toPlatform]
  /\ held' = [held EXCEPT ![k] = 0]
  /\ open' = open \ {k}
  /\ UNCHANGED <<terms, vault>>

PayOut(p) ==
  /\ credit'[p] \in 0..(credit[p] - 1)
  /\ credit' = [credit EXCEPT ![p] = credit'[p]]
  /\ vault' = vault - (credit[p] - credit'[p])
  /\ UNCHANGED <<terms, held, open>>

Next ==
  \/ \E k \in OrderKeys : Fund(k) \/ Return(k) \/ Release(k)
  \/ \E p \in Parties : PayOut(p)

Spec == Init /\ [][Next]_vars
=============================================================================
