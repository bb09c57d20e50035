----------------------------- MODULE MCCheckout -----------------------------
(***************************************************************************)
(* Instances of Checkout for TLC.                                          *)
(***************************************************************************)
EXTENDS CheckoutEscrow, TLC, Functions

CONSTANTS alice, bob

\* The unit-counting sum is the sum.
ASSUME TotalIsSum == \A f \in [1..3 -> 0..4] : Total(f) = SumFunction(f)

SomeMetadata == CHOOSE h \in Metadata : TRUE

T(price, supply, wallet, points, window) ==
  [unitPrice |-> price, startsAt |-> 0, endsAt |-> 0, maxSupply |-> supply,
   maxPerWallet |-> wallet, loyaltyPoints |-> points, refundWindow |-> window,
   metadata |-> SomeMetadata]

-----------------------------------------------------------------------------
(* Whole life cycle: one merchant, one product, every function.            *)

\* The second terms are on sale only from 1 to 2; the third are refused.
LifecycleTerms == {T(2, 1, 0, 1, 1),
                   [T(1, 0, 1, 0, 0) EXCEPT !.startsAt = 1, !.endsAt = 2],
                   T(0, 0, 0, 0, 0)}

-----------------------------------------------------------------------------
(* Settlement: two merchants with a product each are open for business, and *)
(* two orders go through payment, refunds, maturation and withdrawal.      *)

StockedTerms == {T(5, 3, 2, 3, 1), T(3, 2, 0, 1, 0)}
TermsOf(p) == CHOOSE t \in ProductTerms : ValidTerms(t) /\
  (p = 1) = (\A u \in ProductTerms : u.unitPrice <= t.unitPrice)
OwnerOf(m) == IF m = 1 THEN alice ELSE bob

\* The state after createMerchant, createProduct and setProductActive of each.
StockedInit ==
  /\ merchants = [m \in MerchantIds |->
       [owner |-> OwnerOf(m), payout |-> OwnerOf(m), metadata |-> SomeMetadata,
        active |-> TRUE, suspended |-> FALSE]]
  /\ nextMerchantId = MaxMerchants + 1
  /\ products = [p \in ProductIds |->
       [merchant |-> p, terms |-> TermsOf(p), sold |-> 0, version |-> 1, active |-> TRUE]]
  /\ nextProductId = MaxProducts + 1
  /\ purchasedByWallet = [p \in ProductIds |-> [a \in Accounts |-> 0]]
  /\ orders = [k \in OrderKeys |-> NoOrder]
  /\ merchantLocked = [m \in MerchantIds |-> 0]
  /\ merchantCredit = [m \in MerchantIds |-> 0]
  /\ merchantWithdrawn = [m \in MerchantIds |-> 0]
  /\ platformLocked = 0 /\ platformCredit = 0 /\ platformWithdrawn = 0
  /\ totalLockedLiability = 0 /\ totalMerchantCredit = 0
  /\ loyaltyPoints = [m \in MerchantIds |-> [a \in Accounts |-> 0]]
  /\ feeRecipient = alice /\ platformFeeBps \in FeeRates /\ paused = FALSE
  /\ passBalance = [p \in ProductIds |-> [a \in Accounts |-> 0]]
  /\ usdc = [h \in Holders |-> IF h = Vault THEN 0 ELSE InitialUsdc]
  /\ donated = 0 /\ signed = {} /\ now = 0

StockedSpec == StockedInit /\ [][OrderNext \/ EnvironmentNext]_vars

Symmetry == Permutations(OrderKeys)

=============================================================================
