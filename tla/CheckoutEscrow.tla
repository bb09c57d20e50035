--------------------------- MODULE CheckoutEscrow ---------------------------
(***************************************************************************)
(* The books of Checkout read as an Escrow.                                *)
(***************************************************************************)
EXTENDS Checkout

\* The platform as a party: any value that is not a merchant id.
Platform == 0

\* What the escrow keeps about each order, which orders are open, what each party
\* may be paid out, and the money of orders in the vault.
BookTerms == [k \in OrderKeys |-> [payee |-> orders[k].merchant, gross |-> orders[k].gross,
                                   fee |-> orders[k].platformFee]]
BookHeld == [k \in OrderKeys |-> IF orders[k].finalized THEN 0
                                 ELSE orders[k].gross - orders[k].refunded]
BookOpen == {k \in OrderKeys : OrderExists(k) /\ ~orders[k].finalized}
BookCredit == [p \in MerchantIds \cup {Platform} |->
                 IF p = Platform THEN platformCredit ELSE merchantCredit[p]]
BookVault == usdc[Vault] - donated

Books == INSTANCE Escrow WITH
  Merchants <- MerchantIds, terms <- BookTerms, held <- BookHeld, open <- BookOpen,
  credit <- BookCredit, vault <- BookVault

\* The contract keeps the promise of the escrow: every step of it funds,
\* returns, releases or pays out as Escrow allows, or moves no money of orders.
ImplementsEscrow == Books!Spec
=============================================================================
