------------------------------ MODULE Checkout ------------------------------
(***************************************************************************)
(* The settlement contract OpenTabCheckout.sol, with the two contracts it  *)
(* calls: USDC (balances only) and OpenTabPass1155 (passes minted and      *)
(* burnt).  A transaction is atomic, so each external function is one      *)
(* action; a revert is a false guard.  The caller of a function is its     *)
(* first parameter; a function guarded by a role has none, the holder of   *)
(* the role may call it at any time.                                       *)
(*                                                                         *)
(* A struct that was never written has its zero value, as in Solidity: an  *)
(* order exists iff its payer is not Nobody, a merchant iff its owner is   *)
(* not Nobody, a product iff its merchant is not 0.                        *)
(*                                                                         *)
(* Amounts are naturals: uint128 and uint64 do not overflow at the sizes a *)
(* USDC balance can have.  What can underflow is written as a checked      *)
(* subtraction, CanTake, which reverts as Solidity 0.8 does.               *)
(***************************************************************************)
EXTENDS Amounts

CONSTANTS
  Accounts,           \* externally owned accounts
  Nobody,             \* address(0)
  Vault,              \* address(this), as a holder of USDC
  RefundOperators,    \* the accounts that hold REFUND_OPERATOR_ROLE
  OrderKeys,          \* the bytes32 order keys
  BPS,                \* 10_000 in the code
  MaxFeeBps,          \* MAX_PLATFORM_FEE_BPS
  MaxIntentValidity,  \* MAX_INTENT_VALIDITY
  MaxQuantity,        \* MAX_QUANTITY_PER_ORDER
  Metadata,           \* nonzero metadata digests
  NoMetadata          \* bytes32(0)

\* Bounds and input sets: they only keep an instance finite.
CONSTANTS
  ProductTerms,       \* what an owner may ask of createProduct, updateProduct
  Quantities, FeeRates, Validities,
  MaxMerchants, MaxProducts, MaxVersion, MaxIntents, MaxTime, MaxDonation,
  InitialUsdc         \* USDC each account starts with

MerchantIds == 1..MaxMerchants
ProductIds  == 1..MaxProducts
Holders     == Accounts \cup {Vault}

Terms == [unitPrice: Nat, startsAt: Nat, endsAt: Nat, maxSupply: Nat,
          maxPerWallet: Nat, loyaltyPoints: Nat, refundWindow: Nat,
          metadata: Metadata \cup {NoMetadata}]

ASSUME AddressAssumption ==
  /\ Nobody \notin Accounts /\ Vault \notin Accounts
  /\ RefundOperators \subseteq Accounts
  /\ NoMetadata \notin Metadata
ASSUME FiniteAssumption == IsFiniteSet(OrderKeys) /\ IsFiniteSet(Accounts)
ASSUME FeeAssumption == BPS \in Nat \ {0} /\ MaxFeeBps \in 0..BPS
ASSUME LimitAssumption == MaxIntentValidity \in Nat /\ MaxQuantity \in Nat
ASSUME InputAssumption ==
  /\ ProductTerms \subseteq Terms
  /\ Quantities \subseteq Nat /\ FeeRates \subseteq Nat /\ Validities \subseteq Nat
ASSUME BoundAssumption ==
  /\ MaxMerchants \in Nat /\ MaxProducts \in Nat /\ MaxVersion \in Nat
  /\ MaxIntents \in Nat /\ MaxTime \in Nat /\ MaxDonation \in Nat
  /\ InitialUsdc \in Nat

VARIABLES
  merchants, nextMerchantId, products, nextProductId, purchasedByWallet,
  orders,
  merchantLocked, merchantCredit, merchantWithdrawn,
  platformLocked, platformCredit, platformWithdrawn,
  totalLockedLiability, totalMerchantCredit,
  loyaltyPoints, feeRecipient, platformFeeBps, paused,
  passBalance,        \* OpenTabPass1155: ERC-1155 balances per product
  usdc,               \* USDC balances
  donated,            \* USDC sent to the contract outside pay
  signed,             \* intents the order signer has signed so far
  now                 \* block.timestamp

catalogVars == <<merchants, nextMerchantId, products, nextProductId>>
salesVars   == <<purchasedByWallet, orders, loyaltyPoints, passBalance>>
ledgerVars  == <<merchantLocked, merchantCredit, merchantWithdrawn,
                 platformLocked, platformCredit, platformWithdrawn,
                 totalLockedLiability, totalMerchantCredit, usdc, donated>>
adminVars   == <<feeRecipient, platformFeeBps, paused>>
vars == <<catalogVars, salesVars, ledgerVars, adminVars, signed, now>>

Merchant == [owner: Accounts \cup {Nobody}, payout: Accounts \cup {Nobody},
             metadata: Metadata \cup {NoMetadata},
             active: BOOLEAN, suspended: BOOLEAN]

Product == [merchant: 0..MaxMerchants, terms: Terms, sold: Nat, version: Nat,
            active: BOOLEAN]

OrderIntent == [orderKey: OrderKeys, payer: Accounts, recipient: Accounts,
                merchant: MerchantIds, product: ProductIds, version: Nat,
                amount: Nat, platformFeeBps: Nat, platformFee: Nat,
                quantity: Nat, validAfter: Nat, validUntil: Nat,
                refundDeadline: Nat, metadata: Metadata \cup {NoMetadata}]

Order == [merchant: 0..MaxMerchants, product: 0..MaxProducts,
          payer: Accounts \cup {Nobody}, recipient: Accounts \cup {Nobody},
          gross: Nat, platformFee: Nat, refunded: Nat, merchantRefunded: Nat,
          platformRefunded: Nat, loyaltyAwarded: Nat, loyaltyRefunded: Nat,
          quantity: Nat, refundDeadline: Nat, finalized: BOOLEAN]

NoMerchant == [owner |-> Nobody, payout |-> Nobody, metadata |-> NoMetadata,
               active |-> FALSE, suspended |-> FALSE]
NoTerms == [unitPrice |-> 0, startsAt |-> 0, endsAt |-> 0, maxSupply |-> 0,
            maxPerWallet |-> 0, loyaltyPoints |-> 0, refundWindow |-> 0,
            metadata |-> NoMetadata]
NoProduct == [merchant |-> 0, terms |-> NoTerms, sold |-> 0, version |-> 0,
              active |-> FALSE]
NoOrder == [merchant |-> 0, product |-> 0, payer |-> Nobody, recipient |-> Nobody,
            gross |-> 0, platformFee |-> 0, refunded |-> 0,
            merchantRefunded |-> 0, platformRefunded |-> 0,
            loyaltyAwarded |-> 0, loyaltyRefunded |-> 0,
            quantity |-> 0, refundDeadline |-> 0, finalized |-> FALSE]

Init ==
  /\ merchants = [m \in MerchantIds |-> NoMerchant] /\ nextMerchantId = 1
  /\ products = [p \in ProductIds |-> NoProduct] /\ nextProductId = 1
  /\ purchasedByWallet = [p \in ProductIds |-> [a \in Accounts |-> 0]]
  /\ orders = [k \in OrderKeys |-> NoOrder]
  /\ merchantLocked = [m \in MerchantIds |-> 0]
  /\ merchantCredit = [m \in MerchantIds |-> 0]
  /\ merchantWithdrawn = [m \in MerchantIds |-> 0]
  /\ platformLocked = 0 /\ platformCredit = 0 /\ platformWithdrawn = 0
  /\ totalLockedLiability = 0 /\ totalMerchantCredit = 0
  /\ loyaltyPoints = [m \in MerchantIds |-> [a \in Accounts |-> 0]]
  /\ feeRecipient \in Accounts /\ platformFeeBps \in FeeRates \cap 0..MaxFeeBps
  /\ paused = FALSE
  /\ passBalance = [p \in ProductIds |-> [a \in Accounts |-> 0]]
  /\ usdc = [h \in Holders |-> IF h = Vault THEN 0 ELSE InitialUsdc]
  /\ donated = 0 /\ signed = {} /\ now = 0

-----------------------------------------------------------------------------
(* Helpers.  A definition X_Something is a broken variant of X: a mistake     *)
(* that one of the properties must catch; nothing uses it.                   *)

whenNotPaused == ~paused

OwnsMerchant(a, m) == merchants[m].owner = a
Usable(m) == merchants[m].active /\ ~merchants[m].suspended
ValidTerms(t) == /\ t.unitPrice # 0
                 /\ t.endsAt = 0 \/ t.endsAt > t.startsAt
                 /\ t.metadata # NoMetadata
ProductExists(p) == products[p].merchant # 0
Unsold(p) == products[p].sold = 0
OrderExists(k) == orders[k].payer # Nobody

\* USDC moves, exact (_transferOutExact and the receipt check of pay).
Transfer(from, to, amount) ==
  usdc' = [usdc EXCEPT ![from] = @ - amount, ![to] = @ + amount]

-----------------------------------------------------------------------------
(* Merchants and products *)

CreateMerchant(a, payout, h) ==
  /\ whenNotPaused
  /\ nextMerchantId \in MerchantIds
  /\ merchants' = [merchants EXCEPT ![nextMerchantId] =
       [owner |-> a, payout |-> payout, metadata |-> h,
        active |-> TRUE, suspended |-> FALSE]]
  /\ nextMerchantId' = nextMerchantId + 1
  /\ UNCHANGED <<products, nextProductId, salesVars, ledgerVars, adminVars, signed, now>>

UpdateMerchantPayout(a, m, payout) ==
  /\ whenNotPaused /\ OwnsMerchant(a, m)
  /\ merchants' = [merchants EXCEPT ![m].payout = payout]
  /\ UNCHANGED <<nextMerchantId, products, nextProductId, salesVars, ledgerVars,
                 adminVars, signed, now>>

UpdateMerchantMetadata(a, m, h) ==
  /\ whenNotPaused /\ OwnsMerchant(a, m)
  /\ merchants' = [merchants EXCEPT ![m].metadata = h]
  /\ UNCHANGED <<nextMerchantId, products, nextProductId, salesVars, ledgerVars,
                 adminVars, signed, now>>

SetMerchantActive(a, m, active) ==
  /\ whenNotPaused /\ OwnsMerchant(a, m)
  /\ merchants' = [merchants EXCEPT ![m].active = active]
  /\ UNCHANGED <<nextMerchantId, products, nextProductId, salesVars, ledgerVars,
                 adminVars, signed, now>>

\* The compliance switch: works while paused.
SetMerchantSuspended(m, suspended) ==
  /\ merchants[m].owner # Nobody
  /\ merchants' = [merchants EXCEPT ![m].suspended = suspended]
  /\ UNCHANGED <<nextMerchantId, products, nextProductId, salesVars, ledgerVars,
                 adminVars, signed, now>>

CreateProduct(a, m, t) ==
  /\ whenNotPaused /\ OwnsMerchant(a, m) /\ Usable(m) /\ ValidTerms(t)
  /\ nextProductId \in ProductIds
  /\ products' = [products EXCEPT ![nextProductId] =
       [merchant |-> m, terms |-> t, sold |-> 0, version |-> 1, active |-> FALSE]]
  /\ nextProductId' = nextProductId + 1
  /\ UNCHANGED <<merchants, nextMerchantId, salesVars, ledgerVars, adminVars, signed, now>>

UpdateProduct(a, p, t) ==
  /\ whenNotPaused /\ ProductExists(p) /\ OwnsMerchant(a, products[p].merchant)
  /\ Unsold(p) /\ ValidTerms(t)
  /\ products[p].version < MaxVersion
  /\ products' = [products EXCEPT ![p].terms = t, ![p].version = @ + 1]
  /\ UNCHANGED <<merchants, nextMerchantId, nextProductId, salesVars, ledgerVars,
                 adminVars, signed, now>>

SetProductActive(a, p, active) ==
  /\ whenNotPaused /\ ProductExists(p) /\ OwnsMerchant(a, products[p].merchant)
  /\ active => Usable(products[p].merchant)
  /\ products' = [products EXCEPT ![p].active = active]
  /\ UNCHANGED <<merchants, nextMerchantId, nextProductId, salesVars, ledgerVars,
                 adminVars, signed, now>>

-----------------------------------------------------------------------------
(* Orders *)

RefundDeadline(t, validUntil) ==
  IF t.refundWindow = 0 THEN 0 ELSE validUntil + t.refundWindow

\* The order signer of the application signs the terms the product has now, at
\* the fee rate the application is configured with; the intent may reach the
\* contract later, after the terms changed, or never.  A key may be signed more
\* than once, with other terms.
SignIntent(k, payer, recipient, p, quantity, bps, validity) ==
  LET t == products[p].terms
      amount == t.unitPrice * quantity
  IN
  /\ ProductExists(p) /\ products[p].active
  /\ Cardinality(signed) < MaxIntents
  /\ signed' = signed \cup
       {[orderKey |-> k, payer |-> payer, recipient |-> recipient,
         merchant |-> products[p].merchant, product |-> p,
         version |-> products[p].version, amount |-> amount,
         platformFeeBps |-> bps, platformFee |-> Share(amount, bps, BPS),
         quantity |-> quantity, validAfter |-> now, validUntil |-> now + validity,
         refundDeadline |-> RefundDeadline(t, now + validity),
         metadata |-> t.metadata]}
  /\ UNCHANGED <<catalogVars, salesVars, ledgerVars, adminVars, now>>

ValidOrderIntent(sender, i) ==
  LET t == products[i.product].terms
  IN
  /\ ~OrderExists(i.orderKey)
  /\ i.payer = sender
  /\ i.quantity \in 1..MaxQuantity
  /\ i.validAfter <= now /\ now <= i.validUntil
  /\ i.validUntil - i.validAfter <= MaxIntentValidity
  /\ ProductExists(i.product) /\ products[i.product].active
  /\ products[i.product].merchant = i.merchant
  /\ products[i.product].version = i.version
  /\ t.metadata = i.metadata
  /\ Usable(i.merchant)
  /\ t.startsAt <= now /\ (t.endsAt = 0 \/ now <= t.endsAt)
  /\ i.amount = t.unitPrice * i.quantity /\ i.amount # 0
  /\ i.platformFeeBps <= MaxFeeBps
  /\ i.platformFee = Share(i.amount, i.platformFeeBps, BPS)
  /\ i.refundDeadline = RefundDeadline(t, i.validUntil)
  /\ i \in signed

WithinLimits_BeforeThisSale(p, newSold, newWalletTotal) ==
  LET t == products[p].terms
  IN /\ t.maxSupply = 0 \/ products[p].sold <= t.maxSupply
     /\ t.maxPerWallet = 0 \/ newWalletTotal <= t.maxPerWallet

WithinLimits(p, newSold, newWalletTotal) ==
  LET t == products[p].terms
  IN /\ t.maxSupply = 0 \/ newSold <= t.maxSupply
     /\ t.maxPerWallet = 0 \/ newWalletTotal <= t.maxPerWallet

PaidOrder(i) ==
  [merchant |-> i.merchant, product |-> i.product, payer |-> i.payer,
   recipient |-> i.recipient, gross |-> i.amount, platformFee |-> i.platformFee,
   refunded |-> 0, merchantRefunded |-> 0, platformRefunded |-> 0,
   loyaltyAwarded |-> products[i.product].terms.loyaltyPoints * i.quantity,
   loyaltyRefunded |-> 0, quantity |-> i.quantity,
   refundDeadline |-> i.refundDeadline, finalized |-> FALSE]

Pay(sender, i) ==
  LET newSold == products[i.product].sold + i.quantity
      newWalletTotal == purchasedByWallet[i.product][i.recipient] + i.quantity
      order == PaidOrder(i)
  IN
  /\ whenNotPaused
  /\ ValidOrderIntent(sender, i)
  /\ WithinLimits(i.product, newSold, newWalletTotal)
  /\ CanTake(usdc[sender], i.amount)
  /\ products' = [products EXCEPT ![i.product].sold = newSold]
  /\ purchasedByWallet' =
       [purchasedByWallet EXCEPT ![i.product][i.recipient] = newWalletTotal]
  /\ orders' = [orders EXCEPT ![i.orderKey] = order]
  /\ merchantLocked' =
       [merchantLocked EXCEPT ![i.merchant] = @ + (i.amount - i.platformFee)]
  /\ platformLocked' = platformLocked + i.platformFee
  /\ totalLockedLiability' = totalLockedLiability + i.amount
  /\ loyaltyPoints' =
       [loyaltyPoints EXCEPT ![i.merchant][i.recipient] = @ + order.loyaltyAwarded]
  /\ Transfer(sender, Vault, i.amount)
  /\ passBalance' = [passBalance EXCEPT ![i.product][i.recipient] = @ + i.quantity]
  /\ UNCHANGED <<merchants, nextMerchantId, nextProductId,
                 merchantCredit, merchantWithdrawn, platformCredit,
                 platformWithdrawn, totalMerchantCredit, donated,
                 adminVars, signed, now>>

\* What one refund of `amount` takes back from each party of order o.  The fee
\* and the points follow the cumulative refund, rounded down.
NewRefunded(o, amount) == o.refunded + amount
PlatformDelta_PerRefund(o, amount) == Share(o.platformFee, amount, o.gross)
PlatformDelta(o, amount) ==
  Share(o.platformFee, NewRefunded(o, amount), o.gross) - o.platformRefunded
MerchantDelta(o, amount) == amount - PlatformDelta(o, amount)
LoyaltyDelta(o, amount) ==
  Share(o.loyaltyAwarded, NewRefunded(o, amount), o.gross) - o.loyaltyRefunded

RefundedOrder_LosesMerchantPart(o, amount) ==
  [o EXCEPT !.refunded = NewRefunded(o, amount),
            !.platformRefunded = @ + PlatformDelta(o, amount),
            !.loyaltyRefunded = @ + LoyaltyDelta(o, amount)]
RefundedOrder_LosesPoints(o, amount) ==
  [o EXCEPT !.refunded = NewRefunded(o, amount),
            !.platformRefunded = @ + PlatformDelta(o, amount),
            !.merchantRefunded = @ + MerchantDelta(o, amount)]
RefundedOrder_ShrinksGross(o, amount) == [o EXCEPT !.gross = @ - amount]
RefundedOrder(o, amount) ==
  [o EXCEPT !.refunded = NewRefunded(o, amount),
            !.platformRefunded = @ + PlatformDelta(o, amount),
            !.merchantRefunded = @ + MerchantDelta(o, amount),
            !.loyaltyRefunded = @ + LoyaltyDelta(o, amount)]

Refund(sender, k, amount) ==
  LET o == orders[k]
      fully == NewRefunded(o, amount) = o.gross
  IN
  /\ whenNotPaused
  /\ OrderExists(k) /\ ~o.finalized
  /\ o.refundDeadline # 0 /\ now <= o.refundDeadline
  /\ OwnsMerchant(sender, o.merchant) \/ sender \in RefundOperators
  /\ amount # 0 /\ amount <= o.gross - o.refunded
  /\ CanTake(merchantLocked[o.merchant], MerchantDelta(o, amount))
  /\ CanTake(platformLocked, PlatformDelta(o, amount))
  /\ CanTake(totalLockedLiability, amount)
  /\ CanTake(loyaltyPoints[o.merchant][o.recipient], LoyaltyDelta(o, amount))
  /\ CanTake(usdc[Vault], amount)
  /\ fully => CanTake(passBalance[o.product][o.recipient], o.quantity)
  /\ orders' = [orders EXCEPT ![k] = RefundedOrder(o, amount)]
  /\ merchantLocked' = [merchantLocked EXCEPT ![o.merchant] = @ - MerchantDelta(o, amount)]
  /\ platformLocked' = platformLocked - PlatformDelta(o, amount)
  /\ totalLockedLiability' = totalLockedLiability - amount
  /\ loyaltyPoints' =
       [loyaltyPoints EXCEPT ![o.merchant][o.recipient] = @ - LoyaltyDelta(o, amount)]
  /\ Transfer(Vault, o.payer, amount)
  /\ passBalance' = IF fully
       THEN [passBalance EXCEPT ![o.product][o.recipient] = @ - o.quantity]
       ELSE passBalance
  /\ UNCHANGED <<catalogVars, purchasedByWallet,
                 merchantCredit, merchantWithdrawn, platformCredit,
                 platformWithdrawn, totalMerchantCredit, donated,
                 adminVars, signed, now>>

\* What an order still holds for its merchant, for the platform, in all.
MerchantHeld_IgnoresRefunds(o) == o.gross - o.platformFee
MerchantHeld_PaysWholeRefund(o) == o.gross - o.platformFee - o.refunded
PlatformHeld_IgnoresRefunds(o) == o.platformFee
MerchantHeld(o) == o.gross - o.platformFee - o.merchantRefunded
PlatformHeld(o) == o.platformFee - o.platformRefunded
Held_ForgetsFee(o) == MerchantHeld(o)
Held(o) == MerchantHeld(o) + PlatformHeld(o)

\* Anyone may call it.
FinalizeOrder(k) ==
  LET o == orders[k]
  IN
  /\ whenNotPaused
  /\ OrderExists(k) /\ ~o.finalized
  /\ o.refundDeadline = 0 \/ now > o.refundDeadline
  /\ CanTake(merchantLocked[o.merchant], MerchantHeld(o))
  /\ CanTake(platformLocked, PlatformHeld(o))
  /\ CanTake(totalLockedLiability, Held(o))
  /\ orders' = [orders EXCEPT ![k].finalized = TRUE]
  /\ merchantLocked' = [merchantLocked EXCEPT ![o.merchant] = @ - MerchantHeld(o)]
  /\ platformLocked' = platformLocked - PlatformHeld(o)
  /\ totalLockedLiability' = totalLockedLiability - Held(o)
  /\ merchantCredit' = [merchantCredit EXCEPT ![o.merchant] = @ + MerchantHeld(o)]
  /\ totalMerchantCredit' = totalMerchantCredit + MerchantHeld(o)
  /\ platformCredit' = platformCredit + PlatformHeld(o)
  /\ UNCHANGED <<catalogVars, purchasedByWallet, loyaltyPoints, passBalance,
                 merchantWithdrawn, platformWithdrawn, usdc, donated,
                 adminVars, signed, now>>

WithdrawMerchant(sender, m, amount, expectedPayout) ==
  /\ whenNotPaused
  /\ OwnsMerchant(sender, m) /\ merchants[m].payout = expectedPayout
  /\ amount # 0 /\ amount <= merchantCredit[m]
  /\ CanTake(totalMerchantCredit, amount)
  /\ CanTake(usdc[Vault], amount)
  /\ merchantCredit' = [merchantCredit EXCEPT ![m] = @ - amount]
  /\ totalMerchantCredit' = totalMerchantCredit - amount
  /\ merchantWithdrawn' = [merchantWithdrawn EXCEPT ![m] = @ + amount]
  /\ Transfer(Vault, merchants[m].payout, amount)
  /\ UNCHANGED <<catalogVars, salesVars, merchantLocked, platformLocked,
                 platformCredit, platformWithdrawn, totalLockedLiability, donated,
                 adminVars, signed, now>>

WithdrawPlatform(sender, amount) ==
  /\ whenNotPaused
  /\ sender = feeRecipient
  /\ amount # 0 /\ amount <= platformCredit
  /\ CanTake(usdc[Vault], amount)
  /\ platformCredit' = platformCredit - amount
  /\ platformWithdrawn' = platformWithdrawn + amount
  /\ Transfer(Vault, feeRecipient, amount)
  /\ UNCHANGED <<catalogVars, salesVars, merchantLocked, merchantCredit,
                 merchantWithdrawn, platformLocked, totalLockedLiability,
                 totalMerchantCredit, donated, adminVars, signed, now>>

-----------------------------------------------------------------------------
(* Administration and environment *)

SetPlatformFeeBps(bps) ==
  /\ bps <= MaxFeeBps
  /\ platformFeeBps' = bps
  /\ UNCHANGED <<catalogVars, salesVars, ledgerVars, feeRecipient, paused, signed, now>>

SetFeeRecipient(a) ==
  /\ feeRecipient' = a
  /\ UNCHANGED <<catalogVars, salesVars, ledgerVars, platformFeeBps, paused, signed, now>>

SetPaused(p) ==
  /\ paused # p
  /\ paused' = p
  /\ UNCHANGED <<catalogVars, salesVars, ledgerVars, feeRecipient, platformFeeBps,
                 signed, now>>

\* Someone transfers USDC straight to the contract's address.
Donate(a, amount) ==
  /\ donated + amount <= MaxDonation
  /\ CanTake(usdc[a], amount)
  /\ Transfer(a, Vault, amount)
  /\ donated' = donated + amount
  /\ UNCHANGED <<catalogVars, salesVars, merchantLocked, merchantCredit,
                 merchantWithdrawn, platformLocked, platformCredit,
                 platformWithdrawn, totalLockedLiability, totalMerchantCredit,
                 adminVars, signed, now>>

Tick ==
  /\ now < MaxTime
  /\ now' = now + 1
  /\ UNCHANGED <<catalogVars, salesVars, ledgerVars, adminVars, signed>>

MerchantNext ==
  \E a \in Accounts :
    \/ \E payout \in Accounts, h \in Metadata : CreateMerchant(a, payout, h)
    \/ \E m \in MerchantIds :
         \/ \E payout \in Accounts : UpdateMerchantPayout(a, m, payout)
         \/ \E h \in Metadata : UpdateMerchantMetadata(a, m, h)
         \/ \E active \in BOOLEAN : SetMerchantActive(a, m, active)
         \/ \E t \in ProductTerms : CreateProduct(a, m, t)
    \/ \E p \in ProductIds :
         \/ \E t \in ProductTerms : UpdateProduct(a, p, t)
         \/ \E active \in BOOLEAN : SetProductActive(a, p, active)

OrderNext ==
  \/ \E k \in OrderKeys, payer, recipient \in Accounts, p \in ProductIds,
        q \in Quantities, bps \in FeeRates, v \in Validities :
       SignIntent(k, payer, recipient, p, q, bps, v)
  \/ \E a \in Accounts :
       \/ \E i \in signed : Pay(a, i)
       \/ \E k \in OrderKeys : \E amount \in 1..orders[k].gross : Refund(a, k, amount)
       \/ \E m \in MerchantIds, payout \in Accounts :
            \E amount \in 1..merchantCredit[m] : WithdrawMerchant(a, m, amount, payout)
       \/ \E amount \in 1..platformCredit : WithdrawPlatform(a, amount)
  \/ \E k \in OrderKeys : FinalizeOrder(k)

AdminNext ==
  \/ \E m \in MerchantIds, suspended \in BOOLEAN : SetMerchantSuspended(m, suspended)
  \/ \E bps \in FeeRates : SetPlatformFeeBps(bps)
  \/ \E a \in Accounts : SetFeeRecipient(a)
  \/ \E p \in BOOLEAN : SetPaused(p)

EnvironmentNext ==
  \/ \E a \in Accounts, amount \in 1..MaxDonation : Donate(a, amount)
  \/ Tick

Next == MerchantNext \/ OrderNext \/ AdminNext \/ EnvironmentNext

Spec == Init /\ [][Next]_vars

-----------------------------------------------------------------------------
(* Properties *)

\* Every variable has its type; amounts never go below zero.
TypeOK ==
  /\ merchants \in [MerchantIds -> Merchant] /\ nextMerchantId \in Nat
  /\ products \in [ProductIds -> Product] /\ nextProductId \in Nat
  /\ purchasedByWallet \in [ProductIds -> [Accounts -> Nat]]
  /\ orders \in [OrderKeys -> Order]
  /\ merchantLocked \in [MerchantIds -> Nat]
  /\ merchantCredit \in [MerchantIds -> Nat]
  /\ merchantWithdrawn \in [MerchantIds -> Nat]
  /\ platformLocked \in Nat /\ platformCredit \in Nat /\ platformWithdrawn \in Nat
  /\ totalLockedLiability \in Nat /\ totalMerchantCredit \in Nat
  /\ loyaltyPoints \in [MerchantIds -> [Accounts -> Nat]]
  /\ feeRecipient \in Accounts /\ platformFeeBps \in 0..MaxFeeBps /\ paused \in BOOLEAN
  /\ passBalance \in [ProductIds -> [Accounts -> Nat]]
  /\ usdc \in [Holders -> Nat] /\ donated \in Nat
  /\ signed \subseteq OrderIntent /\ now \in Nat

totalLiability == totalLockedLiability + totalMerchantCredit + platformCredit

\* The USDC the contract holds is exactly what it owes, plus what was sent to
\* it unasked: the assertion balanceOf(this) >= totalLiability() that closes
\* every token-moving function, with nothing left unaccounted for.
Solvent == usdc[Vault] = totalLiability + donated

\* A function of an order, summed over the orders that satisfy a condition.
SumOverOrders(value(_), counts(_)) ==
  Total([k \in OrderKeys |-> IF counts(orders[k]) THEN value(orders[k]) ELSE 0])

\* The locked buckets are what the open orders still hold: a refund of one order
\* or the maturation of one never draws on the money of another order, or of
\* another merchant.
LockedBuckets ==
  /\ \A m \in MerchantIds :
       merchantLocked[m] =
         SumOverOrders(MerchantHeld, LAMBDA o : o.merchant = m /\ ~o.finalized)
  /\ platformLocked = SumOverOrders(PlatformHeld, LAMBDA o : ~o.finalized)
  /\ totalLockedLiability = platformLocked + Total(merchantLocked)
  /\ totalMerchantCredit = Total(merchantCredit)

\* What a merchant was ever paid, net of fees, is locked, credited, withdrawn or
\* refunded; likewise the platform's fees.  The locked buckets agree with it
\* order by order.
Conservation ==
  /\ LockedBuckets
  /\ \A m \in MerchantIds :
       SumOverOrders(LAMBDA o : o.gross - o.platformFee, LAMBDA o : o.merchant = m) =
         merchantLocked[m] + merchantCredit[m] + merchantWithdrawn[m]
         + SumOverOrders(LAMBDA o : o.merchantRefunded, LAMBDA o : o.merchant = m)
  /\ SumOverOrders(LAMBDA o : o.platformFee, LAMBDA o : TRUE) =
         platformLocked + platformCredit + platformWithdrawn
         + SumOverOrders(LAMBDA o : o.platformRefunded, LAMBDA o : TRUE)

\* However a refund is split into parts, the parts of merchant and platform add
\* up to it, neither gives back more than it got, and the fee and the points
\* given back are those of one refund of the whole, rounded down.
RefundSplitExact ==
  \A k \in OrderKeys : LET o == orders[k] IN
    /\ o.merchantRefunded + o.platformRefunded = o.refunded
    /\ o.refunded <= o.gross
    /\ o.platformRefunded <= o.platformFee
    /\ o.merchantRefunded <= o.gross - o.platformFee
    /\ OrderExists(k) =>
         /\ o.platformRefunded = Share(o.platformFee, o.refunded, o.gross)
         /\ o.loyaltyRefunded = Share(o.loyaltyAwarded, o.refunded, o.gross)

\* A recipient holds the passes of the orders not refunded in full, and the
\* points awarded and not taken back.
PassesAndPoints ==
  /\ \A p \in ProductIds, a \in Accounts :
       passBalance[p][a] =
         SumOverOrders(LAMBDA o : o.quantity,
           LAMBDA o : o.product = p /\ o.recipient = a /\ o.refunded < o.gross)
  /\ \A m \in MerchantIds, a \in Accounts :
       loyaltyPoints[m][a] =
         SumOverOrders(LAMBDA o : o.loyaltyAwarded - o.loyaltyRefunded,
           LAMBDA o : o.merchant = m /\ o.recipient = a)

\* Sales stay within the limits of the product however many intents are signed
\* for what is left of it: sold counts every order ever paid, refunded or not,
\* and neither limit is ever passed.
LimitsKept ==
  \A p \in ProductIds : LET t == products[p].terms IN
    /\ products[p].sold =
         SumOverOrders(LAMBDA o : o.quantity, LAMBDA o : o.product = p)
    /\ t.maxSupply # 0 => products[p].sold <= t.maxSupply
    /\ \A a \in Accounts :
         /\ purchasedByWallet[p][a] =
              SumOverOrders(LAMBDA o : o.quantity,
                            LAMBDA o : o.product = p /\ o.recipient = a)
         /\ t.maxPerWallet # 0 => purchasedByWallet[p][a] <= t.maxPerWallet

\* Unless the contract is paused, money always has a way out, even when the
\* merchant is suspended or inactive: the owner can refund an open order in
\* full until its deadline, anyone can finalize it after, and what is credited
\* can be withdrawn in one call.
AlwaysAWayOut ==
  ~paused =>
    /\ \A k \in OrderKeys : LET o == orders[k] IN
         OrderExists(k) /\ ~o.finalized /\ Held(o) > 0 =>
           \/ ENABLED FinalizeOrder(k)
           \/ ENABLED Refund(merchants[o.merchant].owner, k, o.gross - o.refunded)
    /\ \A m \in MerchantIds :
         merchantCredit[m] > 0 =>
           ENABLED WithdrawMerchant(merchants[m].owner, m, merchantCredit[m],
                                    merchants[m].payout)
    /\ platformCredit > 0 => ENABLED WithdrawPlatform(feeRecipient, platformCredit)

\* An order is written once: its terms never change, refunds only grow, and
\* after maturation nothing of it changes any more.
OrderStep(k) ==
  LET o == orders[k]  n == orders'[k] IN
  OrderExists(k) /\ n # o =>
    /\ ~o.finalized
    /\ n = [o EXCEPT !.refunded = n.refunded, !.merchantRefunded = n.merchantRefunded,
                     !.platformRefunded = n.platformRefunded,
                     !.loyaltyRefunded = n.loyaltyRefunded, !.finalized = n.finalized]
    /\ n.refunded >= o.refunded /\ n.merchantRefunded >= o.merchantRefunded
    /\ n.platformRefunded >= o.platformRefunded /\ n.loyaltyRefunded >= o.loyaltyRefunded
    /\ n.finalized => n.refunded = o.refunded
OrdersOnlyMature == [][\A k \in OrderKeys : OrderStep(k)]_orders
=============================================================================
