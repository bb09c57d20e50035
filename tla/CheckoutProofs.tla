--------------------------- MODULE CheckoutProofs ---------------------------
(***************************************************************************)
(* Proofs about Checkout, for all values of its constants: types, solvency *)
(* and the exact split of refunds.                                         *)
(*                                                                         *)
(* None of them is inductive alone.  That a bucket stays natural needs     *)
(* that what an order still holds is natural, which needs the exact split  *)
(* of what was refunded before; the split needs the terms an order was     *)
(* paid with.  OrderSane collects what every order keeps.                  *)
(***************************************************************************)
EXTENDS Checkout, AmountsProofs

\* What an order that was paid keeps until the end.
PaidSane(o) ==
  /\ o.merchant \in MerchantIds /\ o.product \in ProductIds
  /\ o.payer \in Accounts /\ o.recipient \in Accounts
  /\ o.gross > 0 /\ o.refunded <= o.gross /\ o.platformFee <= o.gross
  /\ o.merchantRefunded + o.platformRefunded = o.refunded
  /\ o.platformRefunded = Share(o.platformFee, o.refunded, o.gross)
  /\ o.loyaltyRefunded = Share(o.loyaltyAwarded, o.refunded, o.gross)

OrderSane(o) == o = NoOrder \/ PaidSane(o)

OrdersSane == \A k \in OrderKeys : OrderSane(orders[k])

IInv == TypeOK /\ OrdersSane /\ Solvent

-----------------------------------------------------------------------------
(* Orders *)

\* A paid order holds a natural amount for each party, and no party gave back
\* more than it got.
LEMMA HeldNat ==
  ASSUME NEW o \in Order, PaidSane(o)
  PROVE  /\ o.platformRefunded <= o.platformFee
         /\ o.merchantRefunded <= o.gross - o.platformFee
         /\ MerchantHeld(o) \in Nat /\ PlatformHeld(o) \in Nat /\ Held(o) \in Nat
         /\ Held(o) = o.gross - o.refunded
<1>1. /\ o.gross \in Nat \ {0} /\ o.platformFee \in Nat /\ o.refunded \in Nat
      /\ o.merchantRefunded \in Nat /\ o.platformRefunded \in Nat
  BY DEF Order, PaidSane
<1>2. /\ o.refunded <= o.gross /\ o.platformFee <= o.gross
      /\ o.merchantRefunded + o.platformRefunded = o.refunded
      /\ o.platformRefunded = Share(o.platformFee, o.refunded, o.gross)
  BY DEF PaidSane
<1>3. o.platformRefunded <= o.platformFee
  BY <1>1, <1>2, ShareAtMost
<1>4. Share(o.platformFee, o.gross, o.gross) = o.platformFee
  BY <1>1, ShareEnds
<1>5. o.platformFee - o.platformRefunded <= o.gross - o.refunded
  BY <1>1, <1>2, <1>4, ShareGrowth
<1> QED
  BY <1>1, <1>2, <1>3, <1>5 DEF MerchantHeld, PlatformHeld, Held

\* A refund within what is left takes a natural amount from each party, the
\* parts add up to it, and the order stays sane.
LEMMA RefundParts ==
  ASSUME NEW o \in Order, PaidSane(o), NEW amount \in Nat,
         amount <= o.gross - o.refunded
  PROVE  /\ PlatformDelta(o, amount) \in 0..amount
         /\ MerchantDelta(o, amount) \in 0..amount
         /\ LoyaltyDelta(o, amount) \in Nat
         /\ RefundedOrder(o, amount) \in Order
         /\ PaidSane(RefundedOrder(o, amount))
<1> DEFINE c == o.refunded
           d == NewRefunded(o, amount)
           g == o.gross
           n == RefundedOrder(o, amount)
<1>1. /\ g \in Nat \ {0} /\ c \in Nat /\ o.platformFee \in Nat /\ o.loyaltyAwarded \in Nat
      /\ o.merchantRefunded \in Nat /\ o.platformRefunded \in Nat /\ o.loyaltyRefunded \in Nat
  BY DEF Order, PaidSane
<1>2. d \in Nat /\ c <= d /\ d <= g /\ d - c = amount
  BY <1>1 DEF NewRefunded
<1>3. /\ o.platformRefunded = Share(o.platformFee, c, g) /\ o.platformFee <= g
      /\ o.loyaltyRefunded = Share(o.loyaltyAwarded, c, g)
  BY DEF PaidSane
<1>4. /\ Share(o.platformFee, d, g) \in Nat /\ Share(o.loyaltyAwarded, d, g) \in Nat
      /\ Share(o.platformFee, c, g) <= Share(o.platformFee, d, g)
      /\ Share(o.platformFee, d, g) - Share(o.platformFee, c, g) <= d - c
      /\ Share(o.loyaltyAwarded, c, g) <= Share(o.loyaltyAwarded, d, g)
  BY <1>1, <1>2, <1>3, ShareType, ShareGrowth
<1>5. PlatformDelta(o, amount) \in 0..amount
  BY <1>1, <1>2, <1>3, <1>4 DEF PlatformDelta
<1>6. MerchantDelta(o, amount) \in 0..amount
  BY <1>5 DEF MerchantDelta
<1>7. LoyaltyDelta(o, amount) \in Nat
  BY <1>1, <1>3, <1>4 DEF LoyaltyDelta
<1>8. n \in Order
  <2>1. /\ d \in Nat
        /\ o.platformRefunded + PlatformDelta(o, amount) \in Nat
        /\ o.merchantRefunded + MerchantDelta(o, amount) \in Nat
        /\ o.loyaltyRefunded + LoyaltyDelta(o, amount) \in Nat
    BY <1>1, <1>2, <1>5, <1>6, <1>7
  <2> QED
    BY <2>1 DEF RefundedOrder, Order
<1>9. PaidSane(n)
  <2>1. /\ n.refunded = d
        /\ n.platformRefunded = o.platformRefunded + PlatformDelta(o, amount)
        /\ n.merchantRefunded = o.merchantRefunded + MerchantDelta(o, amount)
        /\ n.loyaltyRefunded = o.loyaltyRefunded + LoyaltyDelta(o, amount)
        /\ n.gross = g /\ n.platformFee = o.platformFee
        /\ n.loyaltyAwarded = o.loyaltyAwarded
        /\ n.merchant = o.merchant /\ n.product = o.product
        /\ n.payer = o.payer /\ n.recipient = o.recipient
    BY DEF RefundedOrder, Order
  <2>2. n.platformRefunded = Share(n.platformFee, n.refunded, n.gross)
    BY <2>1, <1>1, <1>4 DEF PlatformDelta
  <2>3. n.loyaltyRefunded = Share(n.loyaltyAwarded, n.refunded, n.gross)
    BY <2>1, <1>1, <1>4 DEF LoyaltyDelta
  <2>4. n.merchantRefunded + n.platformRefunded = n.refunded
    <3>1. o.merchantRefunded + o.platformRefunded = c
      BY DEF PaidSane
    <3> QED
      BY <2>1, <3>1, <1>1, <1>2, <1>5 DEF MerchantDelta
  <2> QED
    BY <2>1, <2>2, <2>3, <2>4, <1>1, <1>2 DEF PaidSane
<1> QED
  BY <1>5, <1>6, <1>7, <1>8, <1>9

\* An order that exists was paid.
LEMMA ExistingPaid ==
  ASSUME IInv, NEW k \in OrderKeys, OrderExists(k)
  PROVE  orders[k] \in Order /\ PaidSane(orders[k])
  BY DEF IInv, TypeOK, OrdersSane, OrderSane, OrderExists, NoOrder

-----------------------------------------------------------------------------
(* Steps that move no money *)

\* The empty deployment satisfies the invariant.
LEMMA InitInv == Init => IInv
<1> SUFFICES ASSUME Init PROVE IInv
  OBVIOUS
<1> USE AddressAssumption, BoundAssumption, FeeAssumption
<1>1. NoMerchant \in Merchant /\ NoProduct \in Product /\ NoOrder \in Order
  BY DEF NoMerchant, Merchant, NoProduct, Product, NoTerms, Terms, NoOrder, Order
<1>2. TypeOK
  BY <1>1 DEF Init, TypeOK, Holders
<1>3. OrdersSane
  BY DEF Init, OrdersSane, OrderSane
<1>4. Solvent
  BY DEF Init, Solvent, totalLiability, Holders
<1> QED
  BY <1>2, <1>3, <1>4 DEF IInv

\* Neither changes unless orders or the ledger do.
LEMMA BooksUnchanged ==
  ASSUME IInv, UNCHANGED <<orders, totalLockedLiability, totalMerchantCredit,
                           platformCredit, donated, usdc>>
  PROVE  OrdersSane' /\ Solvent'
  BY DEF IInv, OrdersSane, OrderSane, PaidSane, Solvent, totalLiability

\* A function of merchants or products writes the catalog and nothing else: its
\* types are those of the catalog it leaves.
LEMMA CatalogTypes ==
  ASSUME TypeOK, merchants' \in [MerchantIds -> Merchant], nextMerchantId' \in Nat,
         products' \in [ProductIds -> Product], nextProductId' \in Nat,
         UNCHANGED <<salesVars, ledgerVars, adminVars, signed, now>>
  PROVE  /\ TypeOK'
         /\ UNCHANGED <<orders, totalLockedLiability, totalMerchantCredit,
                        platformCredit, donated, usdc>>
<1>1. /\ UNCHANGED <<purchasedByWallet, orders, loyaltyPoints, passBalance>>
      /\ UNCHANGED <<merchantLocked, merchantCredit, merchantWithdrawn>>
      /\ UNCHANGED <<platformLocked, platformCredit, platformWithdrawn>>
      /\ UNCHANGED <<totalLockedLiability, totalMerchantCredit, usdc, donated>>
      /\ UNCHANGED <<feeRecipient, platformFeeBps, paused, signed, now>>
  BY DEF salesVars, ledgerVars, adminVars
<1> QED
  BY <1>1 DEF TypeOK

\* A merchant or a product with one field rewritten is one.
LEMMA CatalogFields ==
  /\ \A x \in Merchant, a \in Accounts : [x EXCEPT !.payout = a] \in Merchant
  /\ \A x \in Merchant, h \in Metadata : [x EXCEPT !.metadata = h] \in Merchant
  /\ \A x \in Merchant, b \in BOOLEAN : [x EXCEPT !.active = b] \in Merchant
  /\ \A x \in Merchant, b \in BOOLEAN : [x EXCEPT !.suspended = b] \in Merchant
  /\ \A x \in Product, b \in BOOLEAN : [x EXCEPT !.active = b] \in Product
  /\ \A x \in Product, t \in Terms, n \in Nat :
       [x EXCEPT !.terms = t, !.version = n] \in Product
<1>1. \A x \in Merchant, a \in Accounts : [x EXCEPT !.payout = a] \in Merchant
  BY DEF Merchant
<1>2. \A x \in Merchant, h \in Metadata : [x EXCEPT !.metadata = h] \in Merchant
  BY DEF Merchant
<1>3. \A x \in Merchant, b \in BOOLEAN : [x EXCEPT !.active = b] \in Merchant
  BY DEF Merchant
<1>4. \A x \in Merchant, b \in BOOLEAN : [x EXCEPT !.suspended = b] \in Merchant
  BY DEF Merchant
<1>5. \A x \in Product, b \in BOOLEAN : [x EXCEPT !.active = b] \in Product
  BY DEF Product
<1>6. \A x \in Product, t \in Terms, n \in Nat :
        [x EXCEPT !.terms = t, !.version = n] \in Product
  BY DEF Product
<1> QED
  BY <1>1, <1>2, <1>3, <1>4, <1>5, <1>6

\* Functions of merchants and products.
LEMMA MerchantStep == ASSUME IInv, MerchantNext PROVE IInv'
<1> DEFINE Kept == /\ TypeOK'
                   /\ UNCHANGED <<orders, totalLockedLiability, totalMerchantCredit,
                                  platformCredit, donated, usdc>>
<1>0. /\ TypeOK /\ merchants \in [MerchantIds -> Merchant] /\ nextMerchantId \in Nat
      /\ products \in [ProductIds -> Product] /\ nextProductId \in Nat
  BY DEF IInv, TypeOK
<1>1. ASSUME NEW a \in Accounts, NEW payout \in Accounts, NEW h \in Metadata,
             CreateMerchant(a, payout, h)
      PROVE  Kept
  <2>1. [owner |-> a, payout |-> payout, metadata |-> h, active |-> TRUE,
         suspended |-> FALSE] \in Merchant
    BY DEF Merchant
  <2>2. /\ merchants' \in [MerchantIds -> Merchant] /\ nextMerchantId' \in Nat
        /\ UNCHANGED <<products, nextProductId, salesVars, ledgerVars, adminVars,
                       signed, now>>
    BY <1>0, <1>1, <2>1 DEF CreateMerchant
  <2> QED
    BY <1>0, <2>2, CatalogTypes
<1>2. ASSUME NEW a \in Accounts, NEW m \in MerchantIds, NEW payout \in Accounts,
             UpdateMerchantPayout(a, m, payout)
      PROVE  Kept
  <2>1. /\ merchants' = [merchants EXCEPT ![m].payout = payout]
        /\ UNCHANGED <<nextMerchantId, products, nextProductId, salesVars, ledgerVars,
                       adminVars, signed, now>>
    BY <1>2 DEF UpdateMerchantPayout
  <2>2. merchants' \in [MerchantIds -> Merchant]
    BY <1>0, <2>1, CatalogFields
  <2> QED
    BY <1>0, <2>1, <2>2, CatalogTypes
<1>3. ASSUME NEW a \in Accounts, NEW m \in MerchantIds, NEW h \in Metadata,
             UpdateMerchantMetadata(a, m, h)
      PROVE  Kept
  <2>1. /\ merchants' = [merchants EXCEPT ![m].metadata = h]
        /\ UNCHANGED <<nextMerchantId, products, nextProductId, salesVars, ledgerVars,
                       adminVars, signed, now>>
    BY <1>3 DEF UpdateMerchantMetadata
  <2>2. merchants' \in [MerchantIds -> Merchant]
    BY <1>0, <2>1, CatalogFields
  <2> QED
    BY <1>0, <2>1, <2>2, CatalogTypes
<1>4. ASSUME NEW a \in Accounts, NEW m \in MerchantIds, NEW active \in BOOLEAN,
             SetMerchantActive(a, m, active)
      PROVE  Kept
  <2>1. /\ merchants' = [merchants EXCEPT ![m].active = active]
        /\ UNCHANGED <<nextMerchantId, products, nextProductId, salesVars, ledgerVars,
                       adminVars, signed, now>>
    BY <1>4 DEF SetMerchantActive
  <2>2. merchants' \in [MerchantIds -> Merchant]
    BY <1>0, <2>1, CatalogFields
  <2> QED
    BY <1>0, <2>1, <2>2, CatalogTypes
<1>5. ASSUME NEW a \in Accounts, NEW m \in MerchantIds, NEW t \in ProductTerms,
             CreateProduct(a, m, t)
      PROVE  Kept
  <2>1. [merchant |-> m, terms |-> t, sold |-> 0, version |-> 1, active |-> FALSE]
          \in Product
    BY InputAssumption DEF Product, MerchantIds
  <2>2. /\ products' \in [ProductIds -> Product] /\ nextProductId' \in Nat
        /\ UNCHANGED <<merchants, nextMerchantId, salesVars, ledgerVars, adminVars,
                       signed, now>>
    BY <1>0, <1>5, <2>1 DEF CreateProduct
  <2> QED
    BY <1>0, <2>2, CatalogTypes
<1>6. ASSUME NEW a \in Accounts, NEW p \in ProductIds, NEW t \in ProductTerms,
             UpdateProduct(a, p, t)
      PROVE  Kept
  <2>1. /\ products' = [products EXCEPT ![p].terms = t, ![p].version = @ + 1]
        /\ UNCHANGED <<merchants, nextMerchantId, nextProductId, salesVars, ledgerVars,
                       adminVars, signed, now>>
    BY <1>6 DEF UpdateProduct
  <2>2. PICK n \in Nat : n = products[p].version + 1
    BY <1>0 DEF Product
  <2>3. products' = [products EXCEPT ![p] = [products[p] EXCEPT !.terms = t, !.version = n]]
    BY <1>0, <2>1, <2>2 DEF Product
  <2>4. products' \in [ProductIds -> Product]
    BY <1>0, <2>3, CatalogFields, InputAssumption
  <2> QED
    BY <1>0, <2>1, <2>4, CatalogTypes
<1>7. ASSUME NEW a \in Accounts, NEW p \in ProductIds, NEW active \in BOOLEAN,
             SetProductActive(a, p, active)
      PROVE  Kept
  <2>1. /\ products' = [products EXCEPT ![p].active = active]
        /\ UNCHANGED <<merchants, nextMerchantId, nextProductId, salesVars, ledgerVars,
                       adminVars, signed, now>>
    BY <1>7 DEF SetProductActive
  <2>2. products' \in [ProductIds -> Product]
    BY <1>0, <2>1, CatalogFields
  <2> QED
    BY <1>0, <2>1, <2>2, CatalogTypes
<1>8. Kept
  <2> HIDE DEF Kept
  <2> QED
    BY <1>1, <1>2, <1>3, <1>4, <1>5, <1>6, <1>7 DEF MerchantNext
<1> QED
  BY <1>8, BooksUnchanged DEF IInv

\* Functions of the administrator.
LEMMA AdminStep == ASSUME IInv, AdminNext PROVE IInv'
<1> USE InputAssumption, FeeAssumption
<1> USE DEF catalogVars, salesVars, ledgerVars, adminVars
<1>1. ASSUME NEW m \in MerchantIds, NEW suspended \in BOOLEAN,
             SetMerchantSuspended(m, suspended)
      PROVE  TypeOK'
  <2>1. /\ TypeOK /\ merchants \in [MerchantIds -> Merchant] /\ nextMerchantId \in Nat
        /\ products \in [ProductIds -> Product] /\ nextProductId \in Nat
    BY DEF IInv, TypeOK
  <2>2. /\ merchants' = [merchants EXCEPT ![m].suspended = suspended]
        /\ UNCHANGED <<nextMerchantId, products, nextProductId, salesVars, ledgerVars,
                       adminVars, signed, now>>
    BY <1>1 DEF SetMerchantSuspended
  <2>3. merchants' \in [MerchantIds -> Merchant]
    BY <2>1, <2>2, CatalogFields
  <2> QED
    BY <2>1, <2>2, <2>3, CatalogTypes
<1>2. ASSUME NEW bps \in FeeRates, SetPlatformFeeBps(bps) PROVE TypeOK'
  BY <1>2 DEF IInv, TypeOK, SetPlatformFeeBps
<1>3. ASSUME NEW a \in Accounts, SetFeeRecipient(a) PROVE TypeOK'
  BY <1>3 DEF IInv, TypeOK, SetFeeRecipient
<1>4. ASSUME NEW p \in BOOLEAN, SetPaused(p) PROVE TypeOK'
  BY <1>4 DEF IInv, TypeOK, SetPaused
<1>5. TypeOK'
  BY <1>1, <1>2, <1>3, <1>4 DEF AdminNext
<1>6. UNCHANGED <<orders, totalLockedLiability, totalMerchantCredit,
                  platformCredit, donated, usdc>>
  BY DEF AdminNext, SetMerchantSuspended, SetPlatformFeeBps, SetFeeRecipient, SetPaused
<1> QED
  BY <1>5, <1>6, BooksUnchanged DEF IInv

\* A signed intent is well typed: its amount and fee are natural.
LEMMA SignStep ==
  ASSUME IInv, NEW k \in OrderKeys, NEW payer \in Accounts, NEW recipient \in Accounts,
         NEW p \in ProductIds, NEW q \in Quantities, NEW bps \in FeeRates,
         NEW v \in Validities, SignIntent(k, payer, recipient, p, q, bps, v)
  PROVE  IInv'
<1> USE InputAssumption, FeeAssumption, BoundAssumption
<1> DEFINE t == products[p].terms
           amount == t.unitPrice * q
<1>1. products[p] \in Product /\ t \in Terms /\ t.unitPrice \in Nat /\ t.refundWindow \in Nat
      /\ t.metadata \in Metadata \cup {NoMetadata} /\ products[p].version \in Nat
      /\ q \in Nat /\ bps \in Nat /\ v \in Nat /\ now \in Nat
  BY DEF IInv, TypeOK, Product, Terms
<1>2. products[p].merchant \in MerchantIds
  BY <1>1 DEF Product, SignIntent, ProductExists, MerchantIds
<1>3. amount \in Nat
  BY <1>1
<1>4. Share(amount, bps, BPS) \in Nat
  BY <1>1, <1>3, ShareType
<1>5. RefundDeadline(t, now + v) \in Nat
  BY <1>1 DEF RefundDeadline
<1>6. signed' \subseteq OrderIntent
  BY <1>1, <1>2, <1>3, <1>4, <1>5 DEF SignIntent, OrderIntent, IInv, TypeOK
<1>7. UNCHANGED <<catalogVars, salesVars, ledgerVars, adminVars, now>>
  BY DEF SignIntent
<1>8. TypeOK'
  BY <1>6, <1>7 DEF IInv, TypeOK, catalogVars, salesVars, ledgerVars, adminVars
<1> QED
  BY <1>7, <1>8, BooksUnchanged DEF IInv, salesVars, ledgerVars

-----------------------------------------------------------------------------
(* Steps that move money *)

\* A transfer between two holders moves exactly the amount.
LEMMA TransferMoves ==
  ASSUME usdc \in [Holders -> Nat], NEW from \in Holders, NEW to \in Holders, from # to,
         NEW amount \in Nat, CanTake(usdc[from], amount), Transfer(from, to, amount)
  PROVE  /\ usdc' \in [Holders -> Nat]
         /\ usdc'[from] = usdc[from] - amount
         /\ usdc'[to] = usdc[to] + amount
         /\ \A h \in Holders \ {from, to} : usdc'[h] = usdc[h]
  BY DEF CanTake, Transfer

\* An account is not the contract.
LEMMA VaultApart == Vault \in Holders /\ \A a \in Accounts : a \in Holders /\ a # Vault
  BY AddressAssumption DEF Holders

\* An intent that pay accepts makes a sane order.
LEMMA PaidOrderSane ==
  ASSUME IInv, NEW a \in Accounts, NEW i \in signed, ValidOrderIntent(a, i)
  PROVE  /\ i \in OrderIntent /\ i.platformFee <= i.amount
         /\ PaidOrder(i) \in Order /\ PaidSane(PaidOrder(i))
<1> USE FeeAssumption, BoundAssumption
<1>1. /\ i \in OrderIntent /\ i.amount \in Nat \ {0} /\ i.platformFeeBps \in Nat
      /\ i.quantity \in Nat /\ i.product \in ProductIds
      /\ i.platformFee = Share(i.amount, i.platformFeeBps, BPS)
      /\ i.platformFeeBps <= BPS
  BY DEF IInv, TypeOK, OrderIntent, ValidOrderIntent
<1>2. i.platformFee <= i.amount
  BY <1>1, ShareAtMost
<1>3. products[i.product].terms.loyaltyPoints * i.quantity \in Nat
  <2>1. products[i.product].terms.loyaltyPoints \in Nat
    BY <1>1 DEF IInv, TypeOK, Product, Terms
  <2> QED
    BY <2>1, <1>1
<1>4. PaidOrder(i) \in Order
  BY <1>1, <1>3 DEF PaidOrder, Order, OrderIntent, MerchantIds, ProductIds
<1>5. /\ Share(i.platformFee, 0, i.amount) = 0
      /\ Share(products[i.product].terms.loyaltyPoints * i.quantity, 0, i.amount) = 0
  BY <1>1, <1>3, ShareEnds DEF OrderIntent
<1>6. PaidSane(PaidOrder(i))
  BY <1>1, <1>2, <1>5 DEF PaidSane, PaidOrder, OrderIntent
<1> QED
  BY <1>1, <1>2, <1>4, <1>6

\* pay
LEMMA PayStep ==
  ASSUME IInv, NEW a \in Accounts, NEW i \in signed, Pay(a, i)
  PROVE  IInv'
<1> DEFINE o == PaidOrder(i)
<1>1. /\ i \in OrderIntent /\ i.platformFee <= i.amount /\ o \in Order /\ PaidSane(o)
      /\ i.amount \in Nat /\ i.platformFee \in Nat /\ i.quantity \in Nat
      /\ i.product \in ProductIds /\ i.merchant \in MerchantIds
      /\ i.recipient \in Accounts /\ i.orderKey \in OrderKeys
      /\ o.loyaltyAwarded \in Nat
  BY PaidOrderSane DEF Pay, OrderIntent, Order
<1>2. orders' \in [OrderKeys -> Order] /\ OrdersSane'
  <2>1. orders' = [orders EXCEPT ![i.orderKey] = o]
    BY DEF Pay
  <2> HIDE DEF o
  <2> QED
    BY <2>1, <1>1 DEF IInv, TypeOK, OrdersSane, OrderSane, PaidSane
<1>3. /\ usdc' \in [Holders -> Nat]
      /\ usdc'[Vault] = usdc[Vault] + i.amount
  BY <1>1, VaultApart, TransferMoves DEF IInv, TypeOK, Pay
<1>4. products' \in [ProductIds -> Product]
  <2>1. /\ products' = [products EXCEPT ![i.product].sold = products[i.product].sold + i.quantity]
        /\ products[i.product].sold + i.quantity \in Nat
    BY <1>1 DEF Pay, IInv, TypeOK, Product
  <2> QED
    BY <2>1 DEF IInv, TypeOK, Product
<1>5. purchasedByWallet' \in [ProductIds -> [Accounts -> Nat]]
  BY <1>1 DEF Pay, IInv, TypeOK
<1>6. passBalance' \in [ProductIds -> [Accounts -> Nat]]
  BY <1>1 DEF Pay, IInv, TypeOK
<1>7. loyaltyPoints' \in [MerchantIds -> [Accounts -> Nat]]
  <2> HIDE DEF o
  <2>1. loyaltyPoints' =
          [loyaltyPoints EXCEPT ![i.merchant][i.recipient] = @ + o.loyaltyAwarded]
    BY DEF Pay, o
  <2> QED
    BY <1>1, <2>1 DEF IInv, TypeOK
<1>8. /\ merchantLocked' \in [MerchantIds -> Nat] /\ platformLocked' \in Nat
      /\ totalLockedLiability' \in Nat
  BY <1>1 DEF Pay, IInv, TypeOK
<1>9. UNCHANGED <<merchants, nextMerchantId, nextProductId, merchantCredit,
                  merchantWithdrawn, platformCredit, platformWithdrawn,
                  totalMerchantCredit, donated, adminVars, signed, now>>
  BY DEF Pay
<1>10. TypeOK'
  BY <1>2, <1>3, <1>4, <1>5, <1>6, <1>7, <1>8, <1>9 DEF IInv, TypeOK, adminVars
<1>11. Solvent'
  <2>1. totalLockedLiability' = totalLockedLiability + i.amount
    BY DEF Pay
  <2> QED
    BY <1>1, <1>3, <1>9, <2>1 DEF IInv, TypeOK, Solvent, totalLiability, Holders
<1> QED
  BY <1>2, <1>10, <1>11 DEF IInv

\* refund
LEMMA RefundStep ==
  ASSUME IInv, NEW a \in Accounts, NEW k \in OrderKeys, NEW amount \in 1..orders[k].gross,
         Refund(a, k, amount)
  PROVE  IInv'
<1> DEFINE o == orders[k]
           n == RefundedOrder(o, amount)
<1>1. o \in Order /\ PaidSane(o) /\ o.gross \in Nat /\ o.refunded \in Nat
      /\ o.quantity \in Nat /\ o.merchant \in MerchantIds /\ o.product \in ProductIds
      /\ o.payer \in Accounts /\ o.recipient \in Accounts
  BY ExistingPaid DEF Refund, Order, PaidSane
<1>2. amount \in Nat /\ amount <= o.gross - o.refunded
  BY <1>1 DEF Refund
<1>3. /\ PlatformDelta(o, amount) \in Nat /\ MerchantDelta(o, amount) \in Nat
      /\ LoyaltyDelta(o, amount) \in Nat
      /\ n \in Order /\ PaidSane(n)
  BY <1>1, <1>2, RefundParts
<1> HIDE DEF n
<1>4. orders' \in [OrderKeys -> Order] /\ OrdersSane'
  <2>1. orders' = [orders EXCEPT ![k] = n]
    BY DEF Refund, n
  <2> QED
    BY <2>1, <1>3 DEF IInv, TypeOK, OrdersSane, OrderSane, PaidSane
<1>5. /\ usdc' \in [Holders -> Nat]
      /\ usdc'[Vault] = usdc[Vault] - amount
  BY <1>1, <1>2, VaultApart, TransferMoves DEF IInv, TypeOK, Refund
<1>6. passBalance' \in [ProductIds -> [Accounts -> Nat]]
  BY <1>1 DEF Refund, CanTake, IInv, TypeOK
<1>7. loyaltyPoints' \in [MerchantIds -> [Accounts -> Nat]]
  BY <1>1, <1>3 DEF Refund, CanTake, IInv, TypeOK
<1>8. /\ merchantLocked' \in [MerchantIds -> Nat] /\ platformLocked' \in Nat
      /\ totalLockedLiability' \in Nat
  BY <1>1, <1>2, <1>3 DEF Refund, CanTake, IInv, TypeOK
<1>9. UNCHANGED <<catalogVars, purchasedByWallet, merchantCredit, merchantWithdrawn,
                  platformCredit, platformWithdrawn, totalMerchantCredit, donated,
                  adminVars, signed, now>>
  BY DEF Refund
<1>10. TypeOK'
  BY <1>4, <1>5, <1>6, <1>7, <1>8, <1>9 DEF IInv, TypeOK, adminVars, catalogVars
<1>11. Solvent'
  <2>1. totalLockedLiability' = totalLockedLiability - amount
    BY DEF Refund
  <2> QED
    BY <1>2, <1>5, <1>9, <2>1 DEF IInv, TypeOK, Solvent, totalLiability, Holders
<1> QED
  BY <1>4, <1>10, <1>11 DEF IInv

\* finalizeOrder
LEMMA FinalizeStep ==
  ASSUME IInv, NEW k \in OrderKeys, FinalizeOrder(k)
  PROVE  IInv'
<1> DEFINE o == orders[k]
<1>1. o \in Order /\ PaidSane(o) /\ o.merchant \in MerchantIds
  BY ExistingPaid DEF FinalizeOrder, PaidSane
<1>2. /\ MerchantHeld(o) \in Nat /\ PlatformHeld(o) \in Nat
      /\ Held(o) = MerchantHeld(o) + PlatformHeld(o)
  BY <1>1, HeldNat DEF Held
<1>3. orders' \in [OrderKeys -> Order] /\ OrdersSane'
  <2>1. orders' = [orders EXCEPT ![k].finalized = TRUE]
    BY DEF FinalizeOrder
  <2>2. /\ [o EXCEPT !.finalized = TRUE] \in Order
        /\ PaidSane([o EXCEPT !.finalized = TRUE])
    BY <1>1 DEF Order, PaidSane
  <2>3. orders' = [orders EXCEPT ![k] = [o EXCEPT !.finalized = TRUE]]
    BY <2>1
  <2> DEFINE n == [o EXCEPT !.finalized = TRUE]
  <2> HIDE DEF n
  <2> QED
    BY <2>2, <2>3 DEF IInv, TypeOK, OrdersSane, OrderSane, PaidSane, n
<1>4. /\ merchantLocked' \in [MerchantIds -> Nat] /\ merchantCredit' \in [MerchantIds -> Nat]
      /\ platformLocked' \in Nat /\ platformCredit' \in Nat
      /\ totalLockedLiability' \in Nat /\ totalMerchantCredit' \in Nat
  BY <1>1, <1>2 DEF FinalizeOrder, CanTake, IInv, TypeOK
<1>5. UNCHANGED <<catalogVars, purchasedByWallet, loyaltyPoints, passBalance,
                  merchantWithdrawn, platformWithdrawn, usdc, donated,
                  adminVars, signed, now>>
  BY DEF FinalizeOrder
<1>6. TypeOK'
  BY <1>3, <1>4, <1>5 DEF IInv, TypeOK, adminVars, catalogVars
<1>7. Solvent'
  <2>1. /\ totalLockedLiability' = totalLockedLiability - Held(o)
        /\ totalMerchantCredit' = totalMerchantCredit + MerchantHeld(o)
        /\ platformCredit' = platformCredit + PlatformHeld(o)
    BY DEF FinalizeOrder
  <2> HIDE DEF o
  <2> QED
    BY <1>2, <1>5, <2>1 DEF IInv, TypeOK, Solvent, totalLiability, Holders
<1> QED
  BY <1>3, <1>6, <1>7 DEF IInv

\* withdrawMerchant
LEMMA WithdrawMerchantStep ==
  ASSUME IInv, NEW a \in Accounts, NEW m \in MerchantIds, NEW payout \in Accounts,
         NEW amount \in 1..merchantCredit[m], WithdrawMerchant(a, m, amount, payout)
  PROVE  IInv'
<1>1. amount \in Nat /\ merchants[m].payout = payout
  BY DEF IInv, TypeOK, WithdrawMerchant
<1>2. /\ usdc' \in [Holders -> Nat]
      /\ usdc'[Vault] = usdc[Vault] - amount
  BY <1>1, VaultApart, TransferMoves DEF IInv, TypeOK, WithdrawMerchant
<1>3. /\ merchantCredit' \in [MerchantIds -> Nat]
      /\ merchantWithdrawn' \in [MerchantIds -> Nat]
      /\ totalMerchantCredit' \in Nat
  BY <1>1 DEF WithdrawMerchant, CanTake, IInv, TypeOK
<1>4. UNCHANGED <<catalogVars, salesVars, merchantLocked, platformLocked,
                  platformCredit, platformWithdrawn, totalLockedLiability, donated,
                  adminVars, signed, now>>
  BY DEF WithdrawMerchant
<1>5. TypeOK'
  BY <1>2, <1>3, <1>4 DEF IInv, TypeOK, adminVars, catalogVars, salesVars
<1>6. Solvent'
  <2>1. totalMerchantCredit' = totalMerchantCredit - amount
    BY DEF WithdrawMerchant
  <2> QED
    BY <1>1, <1>2, <1>4, <2>1 DEF IInv, TypeOK, Solvent, totalLiability, Holders
<1>7. OrdersSane'
  BY <1>4 DEF IInv, OrdersSane, OrderSane, PaidSane, salesVars
<1> QED
  BY <1>5, <1>6, <1>7 DEF IInv

\* withdrawPlatform
LEMMA WithdrawPlatformStep ==
  ASSUME IInv, NEW a \in Accounts, NEW amount \in 1..platformCredit,
         WithdrawPlatform(a, amount)
  PROVE  IInv'
<1>1. amount \in Nat
  BY DEF IInv, TypeOK
<1>2. /\ usdc' \in [Holders -> Nat]
      /\ usdc'[Vault] = usdc[Vault] - amount
  BY <1>1, VaultApart, TransferMoves DEF IInv, TypeOK, WithdrawPlatform
<1>3. platformCredit' \in Nat /\ platformWithdrawn' \in Nat
  BY <1>1 DEF WithdrawPlatform, IInv, TypeOK
<1>4. UNCHANGED <<catalogVars, salesVars, merchantLocked, merchantCredit,
                  merchantWithdrawn, platformLocked, totalLockedLiability,
                  totalMerchantCredit, donated, adminVars, signed, now>>
  BY DEF WithdrawPlatform
<1>5. TypeOK'
  BY <1>2, <1>3, <1>4 DEF IInv, TypeOK, adminVars, catalogVars, salesVars
<1>6. Solvent'
  <2>1. platformCredit' = platformCredit - amount
    BY DEF WithdrawPlatform
  <2> QED
    BY <1>1, <1>2, <1>4, <2>1 DEF IInv, TypeOK, Solvent, totalLiability, Holders
<1>7. OrdersSane'
  BY <1>4 DEF IInv, OrdersSane, OrderSane, PaidSane, salesVars
<1> QED
  BY <1>5, <1>6, <1>7 DEF IInv

\* Steps of the environment.
LEMMA EnvironmentStep == ASSUME IInv, EnvironmentNext PROVE IInv'
<1>1. ASSUME NEW a \in Accounts, NEW amount \in 1..MaxDonation, Donate(a, amount)
      PROVE  IInv'
  <2>1. amount \in Nat
    BY BoundAssumption
  <2>2. /\ usdc' \in [Holders -> Nat]
        /\ usdc'[Vault] = usdc[Vault] + amount /\ donated' = donated + amount
    BY <1>1, <2>1, VaultApart, TransferMoves DEF IInv, TypeOK, Donate
  <2>3. UNCHANGED <<catalogVars, salesVars, merchantLocked, merchantCredit,
                    merchantWithdrawn, platformLocked, platformCredit,
                    platformWithdrawn, totalLockedLiability, totalMerchantCredit,
                    adminVars, signed, now>>
    BY <1>1 DEF Donate
  <2>4. TypeOK'
    BY <2>1, <2>2, <2>3 DEF IInv, TypeOK, adminVars, catalogVars, salesVars
  <2>5. Solvent'
    BY <2>1, <2>2, <2>3 DEF IInv, TypeOK, Solvent, totalLiability, Holders
  <2>6. OrdersSane'
    BY <2>3 DEF IInv, OrdersSane, OrderSane, PaidSane, salesVars
  <2> QED
    BY <2>4, <2>5, <2>6 DEF IInv
<1>2. ASSUME Tick PROVE IInv'
  <2>1. UNCHANGED <<catalogVars, salesVars, ledgerVars, adminVars, signed>> /\ now' \in Nat
    BY <1>2 DEF Tick, IInv, TypeOK
  <2>2. TypeOK'
    BY <2>1 DEF IInv, TypeOK, catalogVars, salesVars, ledgerVars, adminVars
  <2> QED
    BY <2>1, <2>2, BooksUnchanged DEF IInv, salesVars, ledgerVars
<1> QED
  BY <1>1, <1>2 DEF EnvironmentNext

-----------------------------------------------------------------------------
(* Theorems *)

\* Every step keeps the invariant.
LEMMA StepInv == IInv /\ [Next]_vars => IInv'
<1> SUFFICES ASSUME IInv, [Next]_vars PROVE IInv'
  OBVIOUS
<1>1. CASE MerchantNext
  BY <1>1, MerchantStep
<1>2. CASE AdminNext
  BY <1>2, AdminStep
<1>3. CASE EnvironmentNext
  BY <1>3, EnvironmentStep
<1>4. CASE OrderNext
  BY <1>4, SignStep, PayStep, RefundStep, FinalizeStep, WithdrawMerchantStep,
     WithdrawPlatformStep DEF OrderNext
<1>5. CASE UNCHANGED vars
  <2>1. TypeOK'
    BY <1>5 DEF IInv, TypeOK, vars, catalogVars, salesVars, ledgerVars, adminVars
  <2> QED
    BY <1>5, <2>1, BooksUnchanged DEF IInv, vars, salesVars, ledgerVars
<1> QED
  BY <1>1, <1>2, <1>3, <1>4, <1>5 DEF Next

\* The inductive invariant holds.
THEOREM Invariant == Spec => []IInv
  BY InitInv, StepInv, PTL DEF Spec

\* Every variable of the contract keeps its type, in any run of any instance.  That
\* no subtraction reverts for want of a bucket is CheckoutLedgerProofs!NeverShort:
\* here a function that would revert is only not enabled.
THEOREM TypeCorrect == Spec => []TypeOK
<1>1. IInv => TypeOK
  BY DEF IInv
<1> QED
  BY <1>1, Invariant, PTL

\* The USDC of the contract is exactly what it owes and what it was sent unasked:
\* balanceOf(this) >= totalLiability() can never fail.
THEOREM AlwaysSolvent == Spec => []Solvent
<1>1. IInv => Solvent
  BY DEF IInv
<1> QED
  BY <1>1, Invariant, PTL

\* Whatever the parts a refund is made in, the split is exact and bounded.
THEOREM RefundsExact == Spec => []RefundSplitExact
<1>1. IInv => RefundSplitExact
  <2> SUFFICES ASSUME IInv, NEW k \in OrderKeys
               PROVE  RefundSplitExact!(k)
    BY DEF RefundSplitExact
  <2>1. CASE orders[k] = NoOrder
    BY <2>1 DEF NoOrder, OrderExists
  <2>2. CASE PaidSane(orders[k])
    <3>1. orders[k] \in Order
      BY DEF IInv, TypeOK
    <3> QED
      BY <2>2, <3>1, HeldNat DEF PaidSane
  <2> QED
    BY <2>1, <2>2 DEF IInv, OrdersSane, OrderSane
<1> QED
  BY <1>1, Invariant, PTL

-----------------------------------------------------------------------------
(* Steps of an order *)

\* A refund only adds to what an order gave back.
LEMMA RefundGrows ==
  ASSUME IInv, NEW a \in Accounts, NEW k \in OrderKeys, NEW amount \in 1..orders[k].gross,
         Refund(a, k, amount), NEW j \in OrderKeys
  PROVE  OrderStep(j)
<1> DEFINE o == orders[k]
           n == RefundedOrder(o, amount)
<1>1. orders' = [orders EXCEPT ![k] = n] /\ ~o.finalized
  BY DEF Refund
<1>2. o \in Order /\ n \in Order /\ amount \in Nat
      /\ PlatformDelta(o, amount) \in Nat /\ MerchantDelta(o, amount) \in Nat
      /\ LoyaltyDelta(o, amount) \in Nat
  <2>1. o \in Order /\ PaidSane(o) /\ amount \in Nat /\ amount <= o.gross - o.refunded
    BY ExistingPaid DEF Refund, IInv, TypeOK, Order
  <2> QED
    BY <2>1, RefundParts
<1>3. /\ n.refunded = o.refunded + amount
      /\ n.platformRefunded = o.platformRefunded + PlatformDelta(o, amount)
      /\ n.merchantRefunded = o.merchantRefunded + MerchantDelta(o, amount)
      /\ n.loyaltyRefunded = o.loyaltyRefunded + LoyaltyDelta(o, amount)
      /\ n.finalized = o.finalized
  BY <1>2 DEF RefundedOrder, NewRefunded, Order
<1>4. n = [o EXCEPT !.refunded = n.refunded, !.merchantRefunded = n.merchantRefunded,
                    !.platformRefunded = n.platformRefunded,
                    !.loyaltyRefunded = n.loyaltyRefunded, !.finalized = n.finalized]
  BY <1>2 DEF RefundedOrder, Order
<1>5. /\ n.refunded >= o.refunded /\ n.platformRefunded >= o.platformRefunded
      /\ n.merchantRefunded >= o.merchantRefunded /\ n.loyaltyRefunded >= o.loyaltyRefunded
  BY <1>2, <1>3 DEF Order
<1> HIDE DEF n
<1>6. CASE j = k
  <2>1. orders'[k] = n
    BY <1>1 DEF IInv, TypeOK
  <2> QED
    BY <1>6, <2>1, <1>1, <1>3, <1>4, <1>5 DEF OrderStep
<1>7. CASE j # k
  BY <1>1, <1>7 DEF IInv, TypeOK, OrderStep
<1> QED
  BY <1>6, <1>7

\* Maturation only sets the flag, once.
LEMMA FinalizeMatures ==
  ASSUME IInv, NEW k \in OrderKeys, FinalizeOrder(k), NEW j \in OrderKeys
  PROVE  OrderStep(j)
<1> DEFINE o == orders[k]
           n == [o EXCEPT !.finalized = TRUE]
<1>1. orders' = [orders EXCEPT ![k] = n] /\ ~o.finalized
  BY DEF FinalizeOrder
<1>2. o \in Order
  BY DEF IInv, TypeOK
<1>3. /\ n = [o EXCEPT !.refunded = n.refunded, !.merchantRefunded = n.merchantRefunded,
                    !.platformRefunded = n.platformRefunded,
                    !.loyaltyRefunded = n.loyaltyRefunded, !.finalized = n.finalized]
      /\ n.refunded = o.refunded /\ n.platformRefunded = o.platformRefunded
      /\ n.merchantRefunded = o.merchantRefunded /\ n.loyaltyRefunded = o.loyaltyRefunded
  BY <1>2 DEF Order
<1>4. /\ o.refunded \in Nat /\ o.platformRefunded \in Nat
      /\ o.merchantRefunded \in Nat /\ o.loyaltyRefunded \in Nat
  BY <1>2 DEF Order
<1> HIDE DEF n
<1>5. CASE j = k
  <2>1. orders'[k] = n
    BY <1>1 DEF IInv, TypeOK
  <2> QED
    BY <1>5, <2>1, <1>1, <1>3, <1>4 DEF OrderStep
<1>6. CASE j # k
  BY <1>1, <1>6 DEF IInv, TypeOK, OrderStep
<1> QED
  BY <1>5, <1>6

\* Once paid, an order keeps its terms, gives back more and more, and is frozen
\* when it matures.
THEOREM OrdersMature == Spec => OrdersOnlyMature
<1>1. ASSUME IInv, [Next]_vars PROVE [\A k \in OrderKeys : OrderStep(k)]_orders
  <2> SUFFICES ASSUME orders' # orders, NEW j \in OrderKeys PROVE OrderStep(j)
    OBVIOUS
  <2>1. ASSUME NEW a \in Accounts, NEW i \in signed, Pay(a, i) PROVE OrderStep(j)
    <3>1. orders' = [orders EXCEPT ![i.orderKey] = PaidOrder(i)] /\ ~OrderExists(i.orderKey)
      BY <2>1 DEF Pay, ValidOrderIntent
    <3> QED
      BY <3>1 DEF IInv, TypeOK, OrderStep
  <2>2. OrderNext
    BY <1>1 DEF Next, vars, salesVars, MerchantNext, AdminNext, EnvironmentNext,
       CreateMerchant, UpdateMerchantPayout, UpdateMerchantMetadata,
       SetMerchantActive, CreateProduct, UpdateProduct, SetProductActive,
       SetMerchantSuspended, SetPlatformFeeBps, SetFeeRecipient, SetPaused, Donate, Tick
  <2> QED
    BY <1>1, <2>1, <2>2, RefundGrows, FinalizeMatures
    DEF OrderNext, SignIntent, WithdrawMerchant, WithdrawPlatform, salesVars
<1> QED
  BY <1>1, Invariant, PTL DEF Spec, OrdersOnlyMature
=============================================================================
