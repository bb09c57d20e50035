------------------------ MODULE CheckoutLedgerProofs ------------------------
(***************************************************************************)
(* Proofs about the books of Checkout, for all values of its constants:    *)
(* the buckets, passes, points and sales counters always agree with the    *)
(* orders, one by one, and the contract implements Escrow.                 *)
(*                                                                         *)
(* What is summed over the orders is a column: a function from sane orders *)
(* to naturals.  A step that rewrites one order moves the sum of every     *)
(* column by the difference of two entries (ColumnMoves), so each function *)
(* of the contract is checked entry by entry.                              *)
(***************************************************************************)
EXTENDS CheckoutEscrow, CheckoutProofs

SaneOrders == {o \in Order : OrderSane(o)}

\* The sum of a column over the orders of the contract.
Sum(column) == Total([k \in OrderKeys |-> column[orders[k]]])

LockedColumn(m) ==
  [o \in SaneOrders |-> IF o.merchant = m /\ ~o.finalized THEN MerchantHeld(o) ELSE 0]
PlatformLockedColumn ==
  [o \in SaneOrders |-> IF ~o.finalized THEN PlatformHeld(o) ELSE 0]
NetColumn(m) ==
  [o \in SaneOrders |-> IF o.merchant = m THEN o.gross - o.platformFee ELSE 0]
NetBackColumn(m) ==
  [o \in SaneOrders |-> IF o.merchant = m THEN o.merchantRefunded ELSE 0]
FeeColumn == [o \in SaneOrders |-> o.platformFee]
FeeBackColumn == [o \in SaneOrders |-> o.platformRefunded]
PassColumn(p, a) ==
  [o \in SaneOrders |->
     IF o.product = p /\ o.recipient = a /\ o.refunded < o.gross THEN o.quantity ELSE 0]
PointColumn(m, a) ==
  [o \in SaneOrders |->
     IF o.merchant = m /\ o.recipient = a THEN o.loyaltyAwarded - o.loyaltyRefunded ELSE 0]
SoldColumn(p) == [o \in SaneOrders |-> IF o.product = p THEN o.quantity ELSE 0]
BoughtColumn(p, a) ==
  [o \in SaneOrders |-> IF o.product = p /\ o.recipient = a THEN o.quantity ELSE 0]

-----------------------------------------------------------------------------
(* The inductive invariant, in columns *)

LockedAgree ==
  /\ \A m \in MerchantIds : merchantLocked[m] = Sum(LockedColumn(m))
  /\ platformLocked = Sum(PlatformLockedColumn)

TotalsAgree ==
  /\ totalLockedLiability = platformLocked + Total(merchantLocked)
  /\ totalMerchantCredit = Total(merchantCredit)

ReceiptsAgree ==
  /\ \A m \in MerchantIds :
       Sum(NetColumn(m)) = merchantLocked[m] + merchantCredit[m] + merchantWithdrawn[m]
                           + Sum(NetBackColumn(m))
  /\ Sum(FeeColumn) = platformLocked + platformCredit + platformWithdrawn
                      + Sum(FeeBackColumn)

HoldingsAgree ==
  /\ \A p \in ProductIds, a \in Accounts : passBalance[p][a] = Sum(PassColumn(p, a))
  /\ \A m \in MerchantIds, a \in Accounts : loyaltyPoints[m][a] = Sum(PointColumn(m, a))

SalesAgree ==
  \A p \in ProductIds :
    /\ products[p].sold = Sum(SoldColumn(p))
    /\ \A a \in Accounts : purchasedByWallet[p][a] = Sum(BoughtColumn(p, a))

WithinTerms(p) ==
  LET t == products[p].terms
  IN /\ t.maxSupply # 0 => products[p].sold <= t.maxSupply
     /\ \A a \in Accounts : t.maxPerWallet # 0 => purchasedByWallet[p][a] <= t.maxPerWallet

LimitsAgree == \A p \in ProductIds : WithinTerms(p)

\* createProduct starts the count of sales at zero: the id it takes must have
\* none yet.
FreshIds == \A p \in ProductIds : p >= nextProductId => products[p] = NoProduct

LInv == /\ LockedAgree /\ TotalsAgree /\ ReceiptsAgree /\ HoldingsAgree
        /\ SalesAgree /\ LimitsAgree /\ FreshIds

-----------------------------------------------------------------------------
(* Columns *)

\* Orders are sane, so every column has an entry for each of them.
LEMMA OrdersInColumns == IInv => orders \in [OrderKeys -> SaneOrders]
  BY DEF IInv, TypeOK, OrdersSane, SaneOrders

\* The fields of a sane order are natural and what it gave back is within what
\* it got.
LEMMA SaneFields ==
  ASSUME NEW o \in SaneOrders
  PROVE  /\ MerchantHeld(o) \in Nat /\ PlatformHeld(o) \in Nat
         /\ o.gross - o.platformFee \in Nat /\ o.gross \in Nat /\ o.refunded \in Nat
         /\ o.merchantRefunded \in Nat /\ o.platformFee \in Nat
         /\ o.platformRefunded \in Nat /\ o.quantity \in Nat
         /\ o.loyaltyAwarded - o.loyaltyRefunded \in Nat
<1>1. CASE o = NoOrder
  BY <1>1 DEF NoOrder, MerchantHeld, PlatformHeld
<1>2. CASE PaidSane(o)
  <2>1. /\ o \in Order /\ o.gross \in Nat \ {0} /\ o.platformFee \in Nat
        /\ o.refunded \in Nat /\ o.refunded <= o.gross /\ o.platformFee <= o.gross
        /\ o.loyaltyAwarded \in Nat /\ o.loyaltyRefunded \in Nat
        /\ o.loyaltyRefunded = Share(o.loyaltyAwarded, o.refunded, o.gross)
        /\ o.merchantRefunded \in Nat /\ o.platformRefunded \in Nat /\ o.quantity \in Nat
    BY <1>2 DEF SaneOrders, Order, PaidSane
  <2>2. o.loyaltyRefunded <= o.loyaltyAwarded
    BY <2>1, ShareAtMost
  <2> QED
    BY <1>2, <2>1, <2>2, HeldNat
<1> QED
  BY <1>1, <1>2 DEF SaneOrders, OrderSane

\* Every column has natural entries.
LEMMA ColumnTypes ==
  /\ \A m : /\ LockedColumn(m) \in [SaneOrders -> Nat]
            /\ NetColumn(m) \in [SaneOrders -> Nat]
            /\ NetBackColumn(m) \in [SaneOrders -> Nat]
  /\ PlatformLockedColumn \in [SaneOrders -> Nat]
  /\ FeeColumn \in [SaneOrders -> Nat] /\ FeeBackColumn \in [SaneOrders -> Nat]
  /\ \A x, a : /\ PassColumn(x, a) \in [SaneOrders -> Nat]
               /\ PointColumn(x, a) \in [SaneOrders -> Nat]
               /\ BoughtColumn(x, a) \in [SaneOrders -> Nat]
  /\ \A p : SoldColumn(p) \in [SaneOrders -> Nat]
  BY SaneFields DEF LockedColumn, NetColumn, NetBackColumn, PlatformLockedColumn,
     FeeColumn, FeeBackColumn, PassColumn, PointColumn, BoughtColumn, SoldColumn

\* The sum of a column is natural, and no entry exceeds it.
LEMMA SumType ==
  ASSUME orders \in [OrderKeys -> SaneOrders], NEW column \in [SaneOrders -> Nat]
  PROVE  /\ Sum(column) \in Nat
         /\ \A k \in OrderKeys : column[orders[k]] <= Sum(column)
<1> DEFINE f == [k \in OrderKeys |-> column[orders[k]]]
<1>1. f \in [OrderKeys -> Nat]
  OBVIOUS
<1>2. Total(f) \in Nat
  BY <1>1, TotalType, FiniteAssumption
<1>3. ASSUME NEW k \in OrderKeys PROVE column[orders[k]] <= Total(f)
  <2>1. f[k] <= Total(f)
    BY <1>1, TotalUpdate, FiniteAssumption
  <2> QED
    BY <2>1
<1> QED
  BY <1>2, <1>3 DEF Sum

\* Rewriting one order moves the sum of a column by the difference of the two
\* entries.
LEMMA ColumnMoves ==
  ASSUME orders \in [OrderKeys -> SaneOrders], NEW k \in OrderKeys, NEW n \in SaneOrders,
         orders' = [orders EXCEPT ![k] = n], NEW column \in [SaneOrders -> Nat]
  PROVE  /\ Sum(column) \in Nat /\ column[orders[k]] \in Nat /\ column[n] \in Nat
         /\ column[orders[k]] <= Sum(column)
         /\ Sum(column)' = Sum(column) - column[orders[k]] + column[n]
<1> DEFINE f == [j \in OrderKeys |-> column[orders[j]]]
           g == [j \in OrderKeys |-> column[orders'[j]]]
<1>1. f \in [OrderKeys -> Nat] /\ g \in [OrderKeys -> Nat]
  OBVIOUS
<1>2. \A j \in OrderKeys : j # k => g[j] = f[j]
  OBVIOUS
<1>3. f[k] = column[orders[k]] /\ g[k] = column[n]
  OBVIOUS
<1>4. f[k] <= Total(f) /\ Total(g) = Total(f) - f[k] + g[k]
  BY <1>1, <1>2, TotalUpdate, FiniteAssumption
<1> QED
  BY <1>3, <1>4, SumType DEF Sum

\* A sum moves only with the orders.
LEMMA SumUnchanged ==
  ASSUME UNCHANGED orders, NEW column
  PROVE  Sum(column)' = Sum(column)
  BY DEF Sum

\* The columns add up what the properties add up.
LEMMA ColumnsAreSums ==
  ASSUME IInv
  PROVE  /\ \A m \in MerchantIds :
              /\ Sum(LockedColumn(m)) =
                   SumOverOrders(MerchantHeld, LAMBDA o : o.merchant = m /\ ~o.finalized)
              /\ Sum(NetColumn(m)) =
                   SumOverOrders(LAMBDA o : o.gross - o.platformFee,
                                 LAMBDA o : o.merchant = m)
              /\ Sum(NetBackColumn(m)) =
                   SumOverOrders(LAMBDA o : o.merchantRefunded, LAMBDA o : o.merchant = m)
         /\ Sum(PlatformLockedColumn) =
              SumOverOrders(PlatformHeld, LAMBDA o : ~o.finalized)
         /\ Sum(FeeColumn) = SumOverOrders(LAMBDA o : o.platformFee, LAMBDA o : TRUE)
         /\ Sum(FeeBackColumn) =
              SumOverOrders(LAMBDA o : o.platformRefunded, LAMBDA o : TRUE)
<1>1. \A k \in OrderKeys : orders[k] \in SaneOrders
  BY OrdersInColumns
<1> QED
  BY <1>1 DEF Sum, SumOverOrders, LockedColumn, NetColumn, NetBackColumn,
     PlatformLockedColumn, FeeColumn, FeeBackColumn

\* The same for what holders and products are counted by.
LEMMA CountsAreSums ==
  ASSUME IInv
  PROVE  /\ \A p \in ProductIds, a \in Accounts :
              /\ Sum(PassColumn(p, a)) =
                   SumOverOrders(LAMBDA o : o.quantity,
                     LAMBDA o : o.product = p /\ o.recipient = a /\ o.refunded < o.gross)
              /\ Sum(BoughtColumn(p, a)) =
                   SumOverOrders(LAMBDA o : o.quantity,
                                 LAMBDA o : o.product = p /\ o.recipient = a)
         /\ \A m \in MerchantIds, a \in Accounts :
              Sum(PointColumn(m, a)) =
                SumOverOrders(LAMBDA o : o.loyaltyAwarded - o.loyaltyRefunded,
                              LAMBDA o : o.merchant = m /\ o.recipient = a)
         /\ \A p \in ProductIds :
              Sum(SoldColumn(p)) =
                SumOverOrders(LAMBDA o : o.quantity, LAMBDA o : o.product = p)
<1>1. \A k \in OrderKeys : orders[k] \in SaneOrders
  BY OrdersInColumns
<1> QED
  BY <1>1 DEF Sum, SumOverOrders, PassColumn, BoughtColumn, PointColumn, SoldColumn

\* An order that was never written adds nothing to any column.
LEMMA NoOrderAddsNothing ==
  /\ NoOrder \in SaneOrders
  /\ \A m : /\ LockedColumn(m)[NoOrder] = 0 /\ NetColumn(m)[NoOrder] = 0
            /\ NetBackColumn(m)[NoOrder] = 0
  /\ PlatformLockedColumn[NoOrder] = 0
  /\ FeeColumn[NoOrder] = 0 /\ FeeBackColumn[NoOrder] = 0
  /\ \A x, a : /\ PassColumn(x, a)[NoOrder] = 0 /\ PointColumn(x, a)[NoOrder] = 0
               /\ BoughtColumn(x, a)[NoOrder] = 0
  /\ \A p : SoldColumn(p)[NoOrder] = 0
<1>1. NoOrder \in SaneOrders
  BY BoundAssumption DEF NoOrder, Order, SaneOrders, OrderSane
<1> HIDE DEF SaneOrders
<1>2. /\ NoOrder.gross = 0 /\ NoOrder.platformFee = 0 /\ NoOrder.merchantRefunded = 0
      /\ NoOrder.platformRefunded = 0 /\ NoOrder.quantity = 0
      /\ NoOrder.loyaltyAwarded = 0 /\ NoOrder.loyaltyRefunded = 0
  BY DEF NoOrder
<1> QED
  BY <1>1, <1>2 DEF LockedColumn, NetColumn, NetBackColumn, PlatformLockedColumn,
     FeeColumn, FeeBackColumn, PassColumn, PointColumn, BoughtColumn, SoldColumn,
     MerchantHeld, PlatformHeld

\* One bucket of the merchants' changes the total of the buckets.
LEMMA BucketMoves ==
  ASSUME NEW f \in [MerchantIds -> Nat], NEW g \in [MerchantIds -> Nat],
         NEW m \in MerchantIds, \A x \in MerchantIds : x # m => g[x] = f[x]
  PROVE  Total(f) \in Nat /\ f[m] <= Total(f) /\ Total(g) = Total(f) - f[m] + g[m]
<1>1. IsFiniteSet(MerchantIds)
  BY BoundAssumption, FS_Interval DEF MerchantIds
<1> QED
  BY <1>1, TotalUpdate, TotalType

-----------------------------------------------------------------------------
(* Init *)

\* Every sum over the empty deployment is zero.
LEMMA InitLedger == Init => LInv
<1> SUFFICES ASSUME Init PROVE LInv
  OBVIOUS
<1>1. \A k \in OrderKeys : orders[k] = NoOrder
  BY DEF Init
<1>2. ASSUME NEW column, column[NoOrder] = 0 PROVE Sum(column) = 0
  <2>1. [k \in OrderKeys |-> column[orders[k]]] = [k \in OrderKeys |-> 0]
    BY <1>1, <1>2
  <2> QED
    BY <2>1, TotalZero DEF Sum
<1>3. Total(merchantLocked) = 0 /\ Total(merchantCredit) = 0
  BY TotalZero DEF Init
<1>4. LockedAgree
  BY <1>2, NoOrderAddsNothing DEF Init, LockedAgree
<1>5. TotalsAgree
  BY <1>3 DEF Init, TotalsAgree
<1>6. ReceiptsAgree
  BY <1>2, NoOrderAddsNothing DEF Init, ReceiptsAgree
<1>7. HoldingsAgree
  BY <1>2, NoOrderAddsNothing DEF Init, HoldingsAgree
<1>8. SalesAgree
  BY <1>2, NoOrderAddsNothing DEF Init, SalesAgree, NoProduct
<1>9. LimitsAgree /\ FreshIds
  BY DEF Init, LimitsAgree, WithinTerms, FreshIds, NoProduct, NoTerms
<1> QED
  BY <1>4, <1>5, <1>6, <1>7, <1>8, <1>9 DEF LInv

-----------------------------------------------------------------------------
(* pay *)

\* A payment appends its order: every sum grows by the entry of the new order.
LEMMA PayLedger ==
  ASSUME IInv, LInv, NEW a \in Accounts, NEW i \in signed, Pay(a, i)
  PROVE  LInv'
<1> DEFINE k == i.orderKey
           n == PaidOrder(i)
           net == i.amount - i.platformFee
<1>1. /\ i \in OrderIntent /\ i.platformFee <= i.amount /\ n \in SaneOrders
      /\ i.amount \in Nat \ {0} /\ i.platformFee \in Nat /\ i.quantity \in Nat
      /\ i.product \in ProductIds /\ i.merchant \in MerchantIds
      /\ i.recipient \in Accounts /\ k \in OrderKeys /\ n.loyaltyAwarded \in Nat
      /\ net \in Nat
  <2>1. ValidOrderIntent(a, i) /\ i.amount # 0 /\ i.quantity \in 1..MaxQuantity
    BY DEF Pay, ValidOrderIntent
  <2>2. /\ i \in OrderIntent /\ i.platformFee <= i.amount
        /\ n \in Order /\ PaidSane(n)
    BY <2>1, PaidOrderSane
  <2>3. /\ i.amount \in Nat /\ i.platformFee \in Nat /\ i.quantity \in Nat
        /\ i.product \in ProductIds /\ i.merchant \in MerchantIds
        /\ i.recipient \in Accounts /\ k \in OrderKeys
    BY <2>2 DEF OrderIntent
  <2>4. n \in SaneOrders /\ n.loyaltyAwarded \in Nat
    <3> HIDE DEF n
    <3> QED
      BY <2>2 DEF SaneOrders, OrderSane, Order
  <2>5. net \in Nat
    <3>1. PICK amount \in Nat, fee \in Nat :
            amount = i.amount /\ fee = i.platformFee /\ fee <= amount
      BY <2>2, <2>3
    <3> QED
      BY <3>1
  <2> QED
    BY <2>1, <2>2, <2>3, <2>4, <2>5
<1>2. /\ orders \in [OrderKeys -> SaneOrders] /\ orders[k] = NoOrder
      /\ orders' = [orders EXCEPT ![k] = n]
  <2>1. ~PaidSane(orders[k])
    BY <1>1, AddressAssumption DEF Pay, ValidOrderIntent, OrderExists, PaidSane
  <2> QED
    BY <1>1, <2>1, OrdersInColumns DEF Pay, IInv, OrdersSane, OrderSane
<1>3. /\ n.merchant = i.merchant /\ n.product = i.product /\ n.recipient = i.recipient
      /\ n.gross = i.amount /\ n.platformFee = i.platformFee /\ n.refunded = 0
      /\ n.merchantRefunded = 0 /\ n.platformRefunded = 0 /\ n.loyaltyRefunded = 0
      /\ n.quantity = i.quantity /\ n.finalized = FALSE
      /\ MerchantHeld(n) = net /\ PlatformHeld(n) = i.platformFee
  BY <1>1 DEF PaidOrder, MerchantHeld, PlatformHeld
<1>4. ASSUME NEW column \in [SaneOrders -> Nat], column[NoOrder] = 0
      PROVE  Sum(column)' = Sum(column) + column[n] /\ Sum(column) \in Nat
  <2> HIDE DEF n, k
  <2>1. PICK o \in SaneOrders : o = n
    BY <1>1
  <2>2. orders' = [orders EXCEPT ![k] = o] /\ k \in OrderKeys
    BY <1>1, <1>2, <2>1
  <2>3. /\ Sum(column) \in Nat /\ column[o] \in Nat /\ column[orders[k]] \in Nat
        /\ Sum(column)' = Sum(column) - column[orders[k]] + column[o]
    BY <1>2, <2>2, ColumnMoves
  <2> QED
    BY <1>2, <1>4, <2>1, <2>3
<1>5. /\ merchantLocked' = [merchantLocked EXCEPT ![i.merchant] = @ + net]
      /\ platformLocked' = platformLocked + i.platformFee
      /\ totalLockedLiability' = totalLockedLiability + i.amount
      /\ loyaltyPoints' =
           [loyaltyPoints EXCEPT ![i.merchant][i.recipient] = @ + n.loyaltyAwarded]
      /\ passBalance' = [passBalance EXCEPT ![i.product][i.recipient] = @ + i.quantity]
      /\ products' = [products EXCEPT ![i.product].sold =
                        products[i.product].sold + i.quantity]
      /\ purchasedByWallet' =
           [purchasedByWallet EXCEPT ![i.product][i.recipient] =
              purchasedByWallet[i.product][i.recipient] + i.quantity]
      /\ UNCHANGED <<nextProductId, merchantCredit, merchantWithdrawn, platformCredit,
                     platformWithdrawn, totalMerchantCredit>>
  BY DEF Pay
<1>6. WithinLimits(i.product, products[i.product].sold + i.quantity,
                   purchasedByWallet[i.product][i.recipient] + i.quantity)
      /\ ProductExists(i.product)
  BY DEF Pay, ValidOrderIntent
<1>7. TypeOK
  BY DEF IInv
<1> HIDE DEF n, k, net
<1>8. LockedAgree'
  <2>1. ASSUME NEW m \in MerchantIds PROVE merchantLocked'[m] = Sum(LockedColumn(m))'
    <3>1. LockedColumn(m)[n] = IF m = i.merchant THEN net ELSE 0
      BY <1>1, <1>3 DEF LockedColumn
    <3>2. Sum(LockedColumn(m))' = Sum(LockedColumn(m)) + LockedColumn(m)[n]
          /\ Sum(LockedColumn(m)) \in Nat
      BY <1>4, ColumnTypes, NoOrderAddsNothing
    <3> QED
      BY <1>1, <1>5, <1>7, <3>1, <3>2 DEF LInv, LockedAgree, TypeOK
  <2>2. platformLocked' = Sum(PlatformLockedColumn)'
    <3>1. PlatformLockedColumn[n] = i.platformFee
      BY <1>1, <1>3 DEF PlatformLockedColumn
    <3> QED
      BY <1>4, <1>5, <3>1, ColumnTypes, NoOrderAddsNothing DEF LInv, LockedAgree
  <2> QED
    BY <2>1, <2>2 DEF LockedAgree
<1>9. TotalsAgree'
  <2>1. merchantLocked \in [MerchantIds -> Nat] /\ merchantLocked' \in [MerchantIds -> Nat]
    BY <1>1, <1>5, <1>7 DEF TypeOK
  <2>2. /\ Total(merchantLocked) \in Nat
        /\ Total(merchantLocked') =
             Total(merchantLocked) - merchantLocked[i.merchant] + merchantLocked'[i.merchant]
    BY <1>1, <1>5, <2>1, BucketMoves
  <2>3. merchantLocked'[i.merchant] = merchantLocked[i.merchant] + net
    BY <1>1, <1>5, <2>1
  <2> QED
    BY <1>1, <1>5, <1>7, <2>1, <2>2, <2>3 DEF LInv, TotalsAgree, TypeOK, net
<1>10. ReceiptsAgree'
  <2>1. ASSUME NEW m \in MerchantIds
        PROVE  Sum(NetColumn(m))' =
                 merchantLocked'[m] + merchantCredit'[m] + merchantWithdrawn'[m]
                 + Sum(NetBackColumn(m))'
    <3>1. /\ NetColumn(m)[n] = IF m = i.merchant THEN net ELSE 0
          /\ NetBackColumn(m)[n] = 0
      BY <1>1, <1>3 DEF NetColumn, NetBackColumn, net
    <3>2. /\ Sum(NetColumn(m))' = Sum(NetColumn(m)) + NetColumn(m)[n]
          /\ Sum(NetBackColumn(m))' = Sum(NetBackColumn(m)) + NetBackColumn(m)[n]
          /\ Sum(NetColumn(m)) \in Nat /\ Sum(NetBackColumn(m)) \in Nat
      BY <1>4, ColumnTypes, NoOrderAddsNothing
    <3> QED
      BY <1>1, <1>5, <1>7, <3>1, <3>2 DEF LInv, ReceiptsAgree, TypeOK
  <2>2. Sum(FeeColumn)' = platformLocked' + platformCredit' + platformWithdrawn'
                          + Sum(FeeBackColumn)'
    <3>1. FeeColumn[n] = i.platformFee /\ FeeBackColumn[n] = 0
      BY <1>1, <1>3 DEF FeeColumn, FeeBackColumn
    <3>2. /\ Sum(FeeColumn)' = Sum(FeeColumn) + FeeColumn[n]
          /\ Sum(FeeBackColumn)' = Sum(FeeBackColumn) + FeeBackColumn[n]
          /\ Sum(FeeColumn) \in Nat /\ Sum(FeeBackColumn) \in Nat
      BY <1>4, ColumnTypes, NoOrderAddsNothing
    <3> QED
      BY <1>1, <1>5, <1>7, <3>1, <3>2 DEF LInv, ReceiptsAgree, TypeOK
  <2> QED
    BY <2>1, <2>2 DEF ReceiptsAgree
<1>11. HoldingsAgree'
  <2>1. ASSUME NEW p \in ProductIds, NEW b \in Accounts
        PROVE  passBalance'[p][b] = Sum(PassColumn(p, b))'
    <3>1. PassColumn(p, b)[n] = IF p = i.product /\ b = i.recipient THEN i.quantity ELSE 0
      BY <1>1, <1>3 DEF PassColumn
    <3>2. Sum(PassColumn(p, b))' = Sum(PassColumn(p, b)) + PassColumn(p, b)[n]
          /\ Sum(PassColumn(p, b)) \in Nat
      BY <1>4, ColumnTypes, NoOrderAddsNothing
    <3> QED
      BY <1>1, <1>5, <1>7, <3>1, <3>2 DEF LInv, HoldingsAgree, TypeOK
  <2>2. ASSUME NEW m \in MerchantIds, NEW b \in Accounts
        PROVE  loyaltyPoints'[m][b] = Sum(PointColumn(m, b))'
    <3>1. PointColumn(m, b)[n] =
            IF m = i.merchant /\ b = i.recipient THEN n.loyaltyAwarded ELSE 0
      BY <1>1, <1>3 DEF PointColumn
    <3>2. Sum(PointColumn(m, b))' = Sum(PointColumn(m, b)) + PointColumn(m, b)[n]
          /\ Sum(PointColumn(m, b)) \in Nat
      BY <1>4, ColumnTypes, NoOrderAddsNothing
    <3> QED
      BY <1>1, <1>5, <1>7, <3>1, <3>2 DEF LInv, HoldingsAgree, TypeOK
  <2> QED
    BY <2>1, <2>2 DEF HoldingsAgree
<1>12. SalesAgree'
  <2> SUFFICES ASSUME NEW p \in ProductIds
               PROVE  /\ products'[p].sold = Sum(SoldColumn(p))'
                      /\ \A b \in Accounts :
                           purchasedByWallet'[p][b] = Sum(BoughtColumn(p, b))'
    BY DEF SalesAgree
  <2>1. SoldColumn(p)[n] = IF p = i.product THEN i.quantity ELSE 0
    BY <1>1, <1>3 DEF SoldColumn
  <2>2. Sum(SoldColumn(p))' = Sum(SoldColumn(p)) + SoldColumn(p)[n]
        /\ Sum(SoldColumn(p)) \in Nat
    BY <1>4, ColumnTypes, NoOrderAddsNothing
  <2>3. products'[p].sold = Sum(SoldColumn(p))'
    BY <1>1, <1>5, <1>7, <2>1, <2>2 DEF LInv, SalesAgree, TypeOK, Product
  <2>4. ASSUME NEW b \in Accounts
        PROVE  purchasedByWallet'[p][b] = Sum(BoughtColumn(p, b))'
    <3>1. BoughtColumn(p, b)[n] = IF p = i.product /\ b = i.recipient THEN i.quantity ELSE 0
      BY <1>1, <1>3 DEF BoughtColumn
    <3>2. Sum(BoughtColumn(p, b))' = Sum(BoughtColumn(p, b)) + BoughtColumn(p, b)[n]
          /\ Sum(BoughtColumn(p, b)) \in Nat
      BY <1>4, ColumnTypes, NoOrderAddsNothing
    <3> QED
      BY <1>1, <1>5, <1>7, <3>1, <3>2 DEF LInv, SalesAgree, TypeOK
  <2> QED
    BY <2>3, <2>4
<1>13. LimitsAgree'
  <2> SUFFICES ASSUME NEW p \in ProductIds PROVE WithinTerms(p)'
    BY DEF LimitsAgree
  <2>1. CASE p = i.product
    <3>1. /\ products'[p].terms = products[p].terms
          /\ products'[p].sold = products[p].sold + i.quantity
      BY <1>1, <1>5, <1>7, <2>1 DEF TypeOK, Product
    <3>2. \A b \in Accounts : purchasedByWallet'[p][b] =
            IF b = i.recipient THEN purchasedByWallet[p][b] + i.quantity
                               ELSE purchasedByWallet[p][b]
      BY <1>1, <1>5, <1>7, <2>1 DEF TypeOK
    <3> QED
      BY <1>6, <2>1, <3>1, <3>2 DEF LInv, LimitsAgree, WithinTerms, WithinLimits
  <2>2. CASE p # i.product
    BY <1>1, <1>5, <1>7, <2>2 DEF LInv, LimitsAgree, WithinTerms, TypeOK
  <2> QED
    BY <2>1, <2>2
<1>14. FreshIds'
  <2>1. products[i.product] # NoProduct
    BY <1>6 DEF ProductExists, NoProduct
  <2> QED
    BY <1>1, <1>5, <1>7, <2>1 DEF LInv, FreshIds, TypeOK
<1> QED
  BY <1>8, <1>9, <1>10, <1>11, <1>12, <1>13, <1>14 DEF LInv

-----------------------------------------------------------------------------
(* refund *)

\* Counts of sales, limits and ids stay: an order keeps its product, recipient
\* and quantity, and the catalog does not change.
LEMMA SalesKept ==
  ASSUME IInv, LInv, NEW k \in OrderKeys, NEW n \in SaneOrders,
         orders' = [orders EXCEPT ![k] = n],
         n.product = orders[k].product, n.recipient = orders[k].recipient,
         n.quantity = orders[k].quantity,
         UNCHANGED <<products, nextProductId, purchasedByWallet>>
  PROVE  SalesAgree' /\ LimitsAgree' /\ FreshIds'
<1>1. orders \in [OrderKeys -> SaneOrders] /\ orders[k] \in SaneOrders
  BY OrdersInColumns
<1>2. ASSUME NEW p \in ProductIds
      PROVE  /\ Sum(SoldColumn(p))' = Sum(SoldColumn(p))
             /\ \A b \in Accounts : Sum(BoughtColumn(p, b))' = Sum(BoughtColumn(p, b))
  <2>1. /\ SoldColumn(p)[n] = SoldColumn(p)[orders[k]]
        /\ \A b \in Accounts : BoughtColumn(p, b)[n] = BoughtColumn(p, b)[orders[k]]
    BY <1>1 DEF SoldColumn, BoughtColumn
  <2>2. ASSUME NEW column \in [SaneOrders -> Nat], column[n] = column[orders[k]]
        PROVE  Sum(column)' = Sum(column)
    <3>1. /\ Sum(column) \in Nat /\ column[n] \in Nat
          /\ Sum(column)' = Sum(column) - column[orders[k]] + column[n]
      BY <1>1, ColumnMoves
    <3> QED
      BY <2>2, <3>1
  <2> QED
    BY <2>1, <2>2, ColumnTypes
<1>3. SalesAgree'
  BY <1>2 DEF LInv, SalesAgree
<1> QED
  BY <1>3 DEF LInv, LimitsAgree, WithinTerms, FreshIds

\* A refund takes from the buckets, the points and, when it is the last part,
\* the passes exactly what the entries of its order lose.
LEMMA RefundLedger ==
  ASSUME IInv, LInv, NEW a \in Accounts, NEW k \in OrderKeys,
         NEW amount \in 1..orders[k].gross, Refund(a, k, amount)
  PROVE  LInv'
<1> DEFINE o == orders[k]
           r == RefundedOrder(o, amount)
           dm == MerchantDelta(o, amount)
           dp == PlatformDelta(o, amount)
           dl == LoyaltyDelta(o, amount)
<1>1. /\ o \in Order /\ PaidSane(o) /\ o \in SaneOrders
      /\ amount \in Nat \ {0} /\ amount <= o.gross - o.refunded
      /\ o.merchant \in MerchantIds /\ o.product \in ProductIds /\ o.recipient \in Accounts
      /\ ~o.finalized /\ o.refunded \in Nat /\ o.gross \in Nat /\ o.quantity \in Nat
      /\ o.merchantRefunded \in Nat /\ o.platformRefunded \in Nat
      /\ o.loyaltyRefunded \in Nat /\ o.loyaltyAwarded \in Nat /\ o.platformFee \in Nat
  <2>1. o \in Order /\ PaidSane(o)
    BY ExistingPaid DEF Refund
  <2> QED
    BY <2>1 DEF Refund, Order, PaidSane, SaneOrders, OrderSane
<1>2. dm \in Nat /\ dp \in Nat /\ dl \in Nat /\ r \in SaneOrders /\ dm + dp = amount
  BY <1>1, RefundParts DEF SaneOrders, OrderSane, MerchantDelta
<1>3. /\ r.merchant = o.merchant /\ r.product = o.product /\ r.recipient = o.recipient
      /\ r.gross = o.gross /\ r.platformFee = o.platformFee
      /\ r.refunded = o.refunded + amount
      /\ r.merchantRefunded = o.merchantRefunded + dm
      /\ r.platformRefunded = o.platformRefunded + dp
      /\ r.loyaltyAwarded = o.loyaltyAwarded
      /\ r.loyaltyRefunded = o.loyaltyRefunded + dl
      /\ r.quantity = o.quantity /\ r.finalized = o.finalized
  BY <1>1 DEF RefundedOrder, NewRefunded, Order
<1>4. /\ orders' = [orders EXCEPT ![k] = r]
      /\ merchantLocked' = [merchantLocked EXCEPT ![o.merchant] = @ - dm]
      /\ platformLocked' = platformLocked - dp
      /\ totalLockedLiability' = totalLockedLiability - amount
      /\ loyaltyPoints' = [loyaltyPoints EXCEPT ![o.merchant][o.recipient] = @ - dl]
      /\ passBalance' = IF o.refunded + amount = o.gross
           THEN [passBalance EXCEPT ![o.product][o.recipient] = @ - o.quantity]
           ELSE passBalance
      /\ UNCHANGED <<products, nextProductId, purchasedByWallet, merchantCredit,
                     merchantWithdrawn, platformCredit, platformWithdrawn,
                     totalMerchantCredit>>
  BY DEF Refund, catalogVars, NewRefunded
<1>5. TypeOK /\ IInv'
  BY RefundStep DEF IInv
<1>6. merchantLocked \in [MerchantIds -> Nat] /\ merchantLocked' \in [MerchantIds -> Nat]
  BY <1>5 DEF IInv, TypeOK
<1>7. PICK n \in SaneOrders : n = r
  BY <1>2
<1>8. /\ MerchantHeld(o) \in Nat /\ PlatformHeld(o) \in Nat
      /\ MerchantHeld(n) = MerchantHeld(o) - dm /\ PlatformHeld(n) = PlatformHeld(o) - dp
  BY <1>1, <1>2, <1>3, <1>7, SaneFields DEF MerchantHeld, PlatformHeld
<1> HIDE DEF r, dm, dp, dl
<1>9. ASSUME NEW column \in [SaneOrders -> Nat]
      PROVE  /\ Sum(column) \in Nat /\ column[o] \in Nat /\ column[n] \in Nat
             /\ Sum(column)' = Sum(column) - column[o] + column[n]
  <2>1. orders \in [OrderKeys -> SaneOrders] /\ orders' = [orders EXCEPT ![k] = n]
    BY <1>4, <1>7, OrdersInColumns
  <2> QED
    BY <2>1, ColumnMoves
<1>10. LockedAgree'
  <2>1. ASSUME NEW m \in MerchantIds PROVE merchantLocked'[m] = Sum(LockedColumn(m))'
    <3>1. /\ LockedColumn(m)[o] = IF m = o.merchant THEN MerchantHeld(o) ELSE 0
          /\ LockedColumn(m)[n] = IF m = o.merchant THEN MerchantHeld(o) - dm ELSE 0
      BY <1>1, <1>3, <1>7, <1>8 DEF LockedColumn
    <3>2. /\ Sum(LockedColumn(m)) \in Nat
          /\ Sum(LockedColumn(m))' =
               Sum(LockedColumn(m)) - LockedColumn(m)[o] + LockedColumn(m)[n]
      BY <1>9, ColumnTypes
    <3> HIDE DEF o
    <3> QED
      BY <1>1, <1>2, <1>4, <1>6, <1>8, <3>1, <3>2 DEF LInv, LockedAgree
  <2>2. platformLocked' = Sum(PlatformLockedColumn)'
    <3>1. /\ PlatformLockedColumn[o] = PlatformHeld(o)
          /\ PlatformLockedColumn[n] = PlatformHeld(o) - dp
      BY <1>1, <1>3, <1>7, <1>8 DEF PlatformLockedColumn
    <3>2. /\ Sum(PlatformLockedColumn) \in Nat
          /\ Sum(PlatformLockedColumn)' =
               Sum(PlatformLockedColumn) - PlatformLockedColumn[o] + PlatformLockedColumn[n]
      BY <1>9, ColumnTypes
    <3> HIDE DEF o
    <3> QED
      BY <1>2, <1>4, <1>8, <3>1, <3>2 DEF LInv, LockedAgree
  <2> QED
    BY <2>1, <2>2 DEF LockedAgree
<1>11. TotalsAgree'
  <2>1. /\ Total(merchantLocked) \in Nat
        /\ Total(merchantLocked') =
             Total(merchantLocked) - merchantLocked[o.merchant] + merchantLocked'[o.merchant]
    <3>1. \A x \in MerchantIds : x # o.merchant => merchantLocked'[x] = merchantLocked[x]
      BY <1>1, <1>4, <1>6
    <3> QED
      BY <1>1, <1>6, <3>1, BucketMoves
  <2>2. merchantLocked'[o.merchant] = merchantLocked[o.merchant] - dm
    BY <1>1, <1>4, <1>6
  <2>3. merchantLocked[o.merchant] \in Nat /\ platformLocked \in Nat
    BY <1>1, <1>5, <1>6 DEF TypeOK
  <2>4. Total(merchantLocked') = Total(merchantLocked) - dm
    BY <1>2, <2>1, <2>2, <2>3
  <2>5. /\ totalLockedLiability' = totalLockedLiability - (dm + dp)
        /\ platformLocked' = platformLocked - dp
    BY <1>2, <1>4
  <2> HIDE DEF o
  <2> QED
    BY <1>2, <1>4, <2>1, <2>3, <2>4, <2>5 DEF LInv, TotalsAgree
<1>12. ReceiptsAgree'
  <2>1. ASSUME NEW m \in MerchantIds
        PROVE  Sum(NetColumn(m))' =
                 merchantLocked'[m] + merchantCredit'[m] + merchantWithdrawn'[m]
                 + Sum(NetBackColumn(m))'
    <3>1. /\ NetColumn(m)[n] = NetColumn(m)[o]
          /\ NetBackColumn(m)[n] =
               NetBackColumn(m)[o] + IF m = o.merchant THEN dm ELSE 0
      BY <1>1, <1>2, <1>3, <1>7 DEF NetColumn, NetBackColumn
    <3>2. /\ Sum(NetColumn(m)) \in Nat /\ NetColumn(m)[o] \in Nat
          /\ Sum(NetColumn(m))' = Sum(NetColumn(m)) - NetColumn(m)[o] + NetColumn(m)[n]
      BY <1>9, ColumnTypes
    <3>3. /\ Sum(NetBackColumn(m)) \in Nat /\ NetBackColumn(m)[o] \in Nat
          /\ Sum(NetBackColumn(m))' =
               Sum(NetBackColumn(m)) - NetBackColumn(m)[o] + NetBackColumn(m)[n]
      BY <1>9, ColumnTypes
    <3> HIDE DEF o
    <3> QED
      BY <1>1, <1>2, <1>4, <1>5, <1>6, <3>1, <3>2, <3>3 DEF LInv, ReceiptsAgree, TypeOK
  <2>2. Sum(FeeColumn)' = platformLocked' + platformCredit' + platformWithdrawn'
                          + Sum(FeeBackColumn)'
    <3>1. FeeColumn[n] = FeeColumn[o] /\ FeeBackColumn[n] = FeeBackColumn[o] + dp
      BY <1>1, <1>3, <1>7 DEF FeeColumn, FeeBackColumn
    <3>2. /\ Sum(FeeColumn) \in Nat /\ FeeColumn[o] \in Nat
          /\ Sum(FeeColumn)' = Sum(FeeColumn) - FeeColumn[o] + FeeColumn[n]
      BY <1>9, ColumnTypes
    <3>3. /\ Sum(FeeBackColumn) \in Nat /\ FeeBackColumn[o] \in Nat
          /\ Sum(FeeBackColumn)' = Sum(FeeBackColumn) - FeeBackColumn[o] + FeeBackColumn[n]
      BY <1>9, ColumnTypes
    <3> HIDE DEF o
    <3> QED
      BY <1>2, <1>4, <1>5, <3>1, <3>2, <3>3 DEF LInv, ReceiptsAgree, TypeOK
  <2> QED
    BY <2>1, <2>2 DEF ReceiptsAgree
<1>13. HoldingsAgree'
  <2>1. ASSUME NEW p \in ProductIds, NEW b \in Accounts
        PROVE  passBalance'[p][b] = Sum(PassColumn(p, b))'
    <3>1. /\ PassColumn(p, b)[o] =
               IF p = o.product /\ b = o.recipient THEN o.quantity ELSE 0
          /\ PassColumn(p, b)[n] =
               IF p = o.product /\ b = o.recipient /\ o.refunded + amount # o.gross
                 THEN o.quantity ELSE 0
      BY <1>1, <1>3, <1>7 DEF PassColumn
    <3>2. /\ Sum(PassColumn(p, b)) \in Nat
          /\ Sum(PassColumn(p, b))' =
               Sum(PassColumn(p, b)) - PassColumn(p, b)[o] + PassColumn(p, b)[n]
      BY <1>9, ColumnTypes
    <3>3. passBalance \in [ProductIds -> [Accounts -> Nat]]
          /\ passBalance[p][b] = Sum(PassColumn(p, b))
      BY <1>5 DEF TypeOK, LInv, HoldingsAgree
    <3> HIDE DEF o
    <3> QED
      BY <1>1, <1>4, <3>1, <3>2, <3>3
  <2>2. ASSUME NEW m \in MerchantIds, NEW b \in Accounts
        PROVE  loyaltyPoints'[m][b] = Sum(PointColumn(m, b))'
    <3>1. /\ PointColumn(m, b)[o] = IF m = o.merchant /\ b = o.recipient
                                      THEN o.loyaltyAwarded - o.loyaltyRefunded ELSE 0
          /\ PointColumn(m, b)[n] = IF m = o.merchant /\ b = o.recipient
                                      THEN o.loyaltyAwarded - (o.loyaltyRefunded + dl) ELSE 0
      BY <1>1, <1>3, <1>7 DEF PointColumn
    <3>2. /\ Sum(PointColumn(m, b)) \in Nat
          /\ Sum(PointColumn(m, b))' =
               Sum(PointColumn(m, b)) - PointColumn(m, b)[o] + PointColumn(m, b)[n]
      BY <1>9, ColumnTypes
    <3>3. loyaltyPoints \in [MerchantIds -> [Accounts -> Nat]]
          /\ loyaltyPoints[m][b] = Sum(PointColumn(m, b))
      BY <1>5 DEF TypeOK, LInv, HoldingsAgree
    <3> HIDE DEF o
    <3> QED
      BY <1>1, <1>2, <1>4, <3>1, <3>2, <3>3
  <2> QED
    BY <2>1, <2>2 DEF HoldingsAgree
<1>14. SalesAgree' /\ LimitsAgree' /\ FreshIds'
  BY <1>3, <1>4, <1>7, SalesKept
<1> QED
  BY <1>10, <1>11, <1>12, <1>13, <1>14 DEF LInv

-----------------------------------------------------------------------------
(* finalizeOrder *)

\* Maturation moves to the credits what the order's entries in the locked
\* columns lose; no other column changes.
LEMMA FinalizeLedger ==
  ASSUME IInv, LInv, NEW k \in OrderKeys, FinalizeOrder(k)
  PROVE  LInv'
<1> DEFINE o == orders[k]
           r == [o EXCEPT !.finalized = TRUE]
           hm == MerchantHeld(o)
           hp == PlatformHeld(o)
<1>1. o \in Order /\ PaidSane(o) /\ o \in SaneOrders /\ ~o.finalized
      /\ o.merchant \in MerchantIds
  BY ExistingPaid DEF FinalizeOrder, SaneOrders, OrderSane, PaidSane
<1>2. /\ r \in SaneOrders
      /\ r.merchant = o.merchant /\ r.product = o.product /\ r.recipient = o.recipient
      /\ r.gross = o.gross /\ r.platformFee = o.platformFee /\ r.refunded = o.refunded
      /\ r.merchantRefunded = o.merchantRefunded /\ r.platformRefunded = o.platformRefunded
      /\ r.loyaltyAwarded = o.loyaltyAwarded /\ r.loyaltyRefunded = o.loyaltyRefunded
      /\ r.quantity = o.quantity /\ r.finalized
  BY <1>1 DEF Order, PaidSane, SaneOrders, OrderSane
<1>3. hm \in Nat /\ hp \in Nat
  BY <1>1, SaneFields
<1>4. /\ orders' = [orders EXCEPT ![k] = r]
      /\ merchantLocked' = [merchantLocked EXCEPT ![o.merchant] = @ - hm]
      /\ platformLocked' = platformLocked - hp
      /\ totalLockedLiability' = totalLockedLiability - (hm + hp)
      /\ merchantCredit' = [merchantCredit EXCEPT ![o.merchant] = @ + hm]
      /\ totalMerchantCredit' = totalMerchantCredit + hm
      /\ platformCredit' = platformCredit + hp
      /\ UNCHANGED <<products, nextProductId, purchasedByWallet, loyaltyPoints, passBalance,
                     merchantWithdrawn, platformWithdrawn>>
  BY DEF FinalizeOrder, catalogVars, Held
<1>5. TypeOK /\ IInv'
  BY FinalizeStep DEF IInv
<1>6. /\ merchantLocked \in [MerchantIds -> Nat] /\ merchantLocked' \in [MerchantIds -> Nat]
      /\ merchantCredit \in [MerchantIds -> Nat] /\ merchantCredit' \in [MerchantIds -> Nat]
  BY <1>5 DEF IInv, TypeOK
<1>7. PICK n \in SaneOrders : n = r
  BY <1>2
<1> HIDE DEF r, hm, hp
<1>8. ASSUME NEW column \in [SaneOrders -> Nat]
      PROVE  /\ Sum(column) \in Nat /\ column[o] \in Nat
             /\ Sum(column)' = Sum(column) - column[o] + column[n]
  <2>1. orders \in [OrderKeys -> SaneOrders] /\ orders' = [orders EXCEPT ![k] = n]
    BY <1>4, <1>7, OrdersInColumns
  <2> QED
    BY <2>1, ColumnMoves
<1>9. ASSUME NEW column \in [SaneOrders -> Nat], column[n] = column[o]
      PROVE  Sum(column)' = Sum(column)
  BY <1>8, <1>9
<1>10. LockedAgree'
  <2>1. ASSUME NEW m \in MerchantIds PROVE merchantLocked'[m] = Sum(LockedColumn(m))'
    <3>1. /\ LockedColumn(m)[o] = IF m = o.merchant THEN hm ELSE 0
          /\ LockedColumn(m)[n] = 0
      BY <1>1, <1>2, <1>7 DEF LockedColumn, hm
    <3>2. /\ Sum(LockedColumn(m)) \in Nat
          /\ Sum(LockedColumn(m))' =
               Sum(LockedColumn(m)) - LockedColumn(m)[o] + LockedColumn(m)[n]
      BY <1>8, ColumnTypes
    <3> HIDE DEF o
    <3> QED
      BY <1>1, <1>3, <1>4, <1>6, <3>1, <3>2 DEF LInv, LockedAgree
  <2>2. platformLocked' = Sum(PlatformLockedColumn)'
    <3>1. PlatformLockedColumn[o] = hp /\ PlatformLockedColumn[n] = 0
      BY <1>1, <1>2, <1>7 DEF PlatformLockedColumn, hp
    <3>2. /\ Sum(PlatformLockedColumn) \in Nat
          /\ Sum(PlatformLockedColumn)' =
               Sum(PlatformLockedColumn) - PlatformLockedColumn[o] + PlatformLockedColumn[n]
      BY <1>8, ColumnTypes
    <3> HIDE DEF o
    <3> QED
      BY <1>3, <1>4, <3>1, <3>2 DEF LInv, LockedAgree
  <2> QED
    BY <2>1, <2>2 DEF LockedAgree
<1>11. TotalsAgree'
  <2>1. /\ Total(merchantLocked) \in Nat /\ Total(merchantCredit) \in Nat
        /\ Total(merchantLocked') =
             Total(merchantLocked) - merchantLocked[o.merchant] + merchantLocked'[o.merchant]
        /\ Total(merchantCredit') =
             Total(merchantCredit) - merchantCredit[o.merchant] + merchantCredit'[o.merchant]
    <3>1. \A x \in MerchantIds : x # o.merchant =>
            merchantLocked'[x] = merchantLocked[x] /\ merchantCredit'[x] = merchantCredit[x]
      BY <1>1, <1>4, <1>6
    <3> QED
      BY <1>1, <1>6, <3>1, BucketMoves
  <2>2. /\ merchantLocked'[o.merchant] = merchantLocked[o.merchant] - hm
        /\ merchantCredit'[o.merchant] = merchantCredit[o.merchant] + hm
    BY <1>1, <1>4, <1>6
  <2> HIDE DEF o
  <2> QED
    BY <1>1, <1>3, <1>4, <1>5, <1>6, <2>1, <2>2 DEF LInv, TotalsAgree, TypeOK
<1>12. ReceiptsAgree'
  <2>1. ASSUME NEW m \in MerchantIds
        PROVE  Sum(NetColumn(m))' =
                 merchantLocked'[m] + merchantCredit'[m] + merchantWithdrawn'[m]
                 + Sum(NetBackColumn(m))'
    <3>1. NetColumn(m)[n] = NetColumn(m)[o] /\ NetBackColumn(m)[n] = NetBackColumn(m)[o]
      BY <1>1, <1>2, <1>7 DEF NetColumn, NetBackColumn
    <3>2. /\ Sum(NetColumn(m))' = Sum(NetColumn(m))
          /\ Sum(NetBackColumn(m))' = Sum(NetBackColumn(m))
          /\ Sum(NetBackColumn(m)) \in Nat
      BY <1>8, <1>9, <3>1, ColumnTypes
    <3> HIDE DEF o
    <3> QED
      BY <1>1, <1>3, <1>4, <1>5, <1>6, <3>2 DEF LInv, ReceiptsAgree, TypeOK
  <2>2. Sum(FeeColumn)' = platformLocked' + platformCredit' + platformWithdrawn'
                          + Sum(FeeBackColumn)'
    <3>1. FeeColumn[n] = FeeColumn[o] /\ FeeBackColumn[n] = FeeBackColumn[o]
      BY <1>1, <1>2, <1>7 DEF FeeColumn, FeeBackColumn
    <3>2. /\ Sum(FeeColumn)' = Sum(FeeColumn) /\ Sum(FeeBackColumn)' = Sum(FeeBackColumn)
          /\ Sum(FeeBackColumn) \in Nat
      BY <1>8, <1>9, <3>1, ColumnTypes
    <3> HIDE DEF o
    <3> QED
      BY <1>3, <1>4, <1>5, <3>2 DEF LInv, ReceiptsAgree, TypeOK
  <2> QED
    BY <2>1, <2>2 DEF ReceiptsAgree
<1>13. HoldingsAgree'
  <2>1. ASSUME NEW x, NEW b
        PROVE  /\ PassColumn(x, b)[n] = PassColumn(x, b)[o]
               /\ PointColumn(x, b)[n] = PointColumn(x, b)[o]
    BY <1>1, <1>2, <1>7 DEF PassColumn, PointColumn
  <2>2. ASSUME NEW x, NEW b
        PROVE  /\ Sum(PassColumn(x, b))' = Sum(PassColumn(x, b))
               /\ Sum(PointColumn(x, b))' = Sum(PointColumn(x, b))
    BY <1>9, <2>1, ColumnTypes
  <2> QED
    BY <1>4, <2>2 DEF LInv, HoldingsAgree
<1>14. SalesAgree' /\ LimitsAgree' /\ FreshIds'
  BY <1>2, <1>4, <1>7, SalesKept
<1> QED
  BY <1>10, <1>11, <1>12, <1>13, <1>14 DEF LInv

-----------------------------------------------------------------------------
(* Functions that write no order *)

\* Nothing that is counted changes.
LEMMA LedgerUnchanged ==
  ASSUME LInv,
         UNCHANGED <<products, nextProductId, purchasedByWallet, orders, loyaltyPoints,
                     passBalance, merchantLocked, merchantCredit, merchantWithdrawn,
                     platformLocked, platformCredit, platformWithdrawn,
                     totalLockedLiability, totalMerchantCredit>>
  PROVE  LInv'
<1>1. LockedAgree' /\ TotalsAgree' /\ ReceiptsAgree'
  BY SumUnchanged DEF LInv, LockedAgree, TotalsAgree, ReceiptsAgree
<1>2. HoldingsAgree' /\ SalesAgree' /\ LimitsAgree' /\ FreshIds'
  BY SumUnchanged DEF LInv, HoldingsAgree, SalesAgree, LimitsAgree, WithinTerms, FreshIds
<1> QED
  BY <1>1, <1>2 DEF LInv

\* withdrawMerchant moves a merchant's credit to what it withdrew.
LEMMA WithdrawMerchantLedger ==
  ASSUME IInv, LInv, NEW a \in Accounts, NEW m \in MerchantIds, NEW payout \in Accounts,
         NEW amount \in 1..merchantCredit[m], WithdrawMerchant(a, m, amount, payout)
  PROVE  LInv'
<1>1. /\ merchantCredit' = [merchantCredit EXCEPT ![m] = @ - amount]
      /\ totalMerchantCredit' = totalMerchantCredit - amount
      /\ merchantWithdrawn' = [merchantWithdrawn EXCEPT ![m] = @ + amount]
      /\ UNCHANGED <<products, nextProductId, purchasedByWallet, orders, loyaltyPoints,
                     passBalance, merchantLocked, platformLocked, platformCredit,
                     platformWithdrawn, totalLockedLiability>>
  BY DEF WithdrawMerchant, catalogVars, salesVars
<1>2. TypeOK /\ IInv' /\ amount \in Nat
  BY WithdrawMerchantStep DEF IInv, TypeOK
<1>3. merchantCredit \in [MerchantIds -> Nat] /\ merchantCredit' \in [MerchantIds -> Nat]
  BY <1>2 DEF IInv, TypeOK
<1>4. TotalsAgree'
  <2>1. \A x \in MerchantIds : x # m => merchantCredit'[x] = merchantCredit[x]
    BY <1>1, <1>3
  <2>2. /\ Total(merchantCredit) \in Nat
        /\ Total(merchantCredit') =
             Total(merchantCredit) - merchantCredit[m] + merchantCredit'[m]
    BY <1>3, <2>1, BucketMoves
  <2>3. merchantCredit'[m] = merchantCredit[m] - amount /\ merchantCredit[m] \in Nat
    BY <1>1, <1>3
  <2>4. Total(merchantCredit') = Total(merchantCredit) - amount
    BY <1>2, <2>2, <2>3
  <2> QED
    BY <1>1, <2>4 DEF LInv, TotalsAgree
<1>5. ReceiptsAgree'
  <2>1. ASSUME NEW x \in MerchantIds
        PROVE  merchantCredit'[x] + merchantWithdrawn'[x]
                 = merchantCredit[x] + merchantWithdrawn[x]
    BY <1>1, <1>2 DEF TypeOK
  <2>2. ASSUME NEW x \in MerchantIds
        PROVE  Sum(NetColumn(x))' =
                 merchantLocked'[x] + merchantCredit'[x] + merchantWithdrawn'[x]
                 + Sum(NetBackColumn(x))'
    <3>1. /\ Sum(NetColumn(x))' = Sum(NetColumn(x))
          /\ Sum(NetBackColumn(x))' = Sum(NetBackColumn(x))
      BY <1>1, SumUnchanged
    <3>2. Sum(NetBackColumn(x)) \in Nat
      BY OrdersInColumns, ColumnTypes, SumType
    <3>3. /\ merchantLocked[x] \in Nat /\ merchantCredit[x] \in Nat
          /\ merchantWithdrawn[x] \in Nat /\ merchantCredit'[x] \in Nat
          /\ merchantWithdrawn'[x] \in Nat /\ merchantLocked'[x] = merchantLocked[x]
      BY <1>1, <1>2 DEF IInv, TypeOK
    <3>4. Sum(NetColumn(x)) = merchantLocked[x] + merchantCredit[x] + merchantWithdrawn[x]
                              + Sum(NetBackColumn(x))
      BY DEF LInv, ReceiptsAgree
    <3> QED
      BY <2>1, <3>1, <3>2, <3>3, <3>4
  <2> QED
    BY <1>1, <2>2, SumUnchanged DEF LInv, ReceiptsAgree
<1>6. LockedAgree' /\ HoldingsAgree'
  BY <1>1, SumUnchanged DEF LInv, LockedAgree, HoldingsAgree
<1>7. SalesAgree' /\ LimitsAgree' /\ FreshIds'
  BY <1>1, SumUnchanged DEF LInv, SalesAgree, LimitsAgree, WithinTerms, FreshIds
<1> QED
  BY <1>4, <1>5, <1>6, <1>7 DEF LInv

\* withdrawPlatform moves the platform's credit to what it withdrew.
LEMMA WithdrawPlatformLedger ==
  ASSUME IInv, LInv, NEW a \in Accounts, NEW amount \in 1..platformCredit,
         WithdrawPlatform(a, amount)
  PROVE  LInv'
<1>1. /\ platformCredit' = platformCredit - amount
      /\ platformWithdrawn' = platformWithdrawn + amount
      /\ UNCHANGED <<products, nextProductId, purchasedByWallet, orders, loyaltyPoints,
                     passBalance, merchantLocked, merchantCredit, merchantWithdrawn,
                     platformLocked, totalLockedLiability, totalMerchantCredit>>
  BY DEF WithdrawPlatform, catalogVars, salesVars
<1>2. platformCredit' + platformWithdrawn' = platformCredit + platformWithdrawn
  BY <1>1 DEF IInv, TypeOK
<1>3. ReceiptsAgree'
  <2>1. Sum(FeeColumn)' = platformLocked' + platformCredit' + platformWithdrawn'
                          + Sum(FeeBackColumn)'
    <3>1. Sum(FeeColumn)' = Sum(FeeColumn) /\ Sum(FeeBackColumn)' = Sum(FeeBackColumn)
      BY <1>1, SumUnchanged
    <3>2. Sum(FeeBackColumn) \in Nat
      BY OrdersInColumns, ColumnTypes, SumType
    <3> QED
      BY <1>1, <1>2, <3>1, <3>2 DEF LInv, ReceiptsAgree, IInv, TypeOK
  <2> QED
    BY <1>1, <2>1, SumUnchanged DEF LInv, ReceiptsAgree
<1>4. LockedAgree' /\ TotalsAgree' /\ HoldingsAgree'
  BY <1>1, SumUnchanged DEF LInv, LockedAgree, TotalsAgree, HoldingsAgree
<1>5. SalesAgree' /\ LimitsAgree' /\ FreshIds'
  BY <1>1, SumUnchanged DEF LInv, SalesAgree, LimitsAgree, WithinTerms, FreshIds
<1> QED
  BY <1>3, <1>4, <1>5 DEF LInv

\* What has not been sold, nobody bought.
LEMMA UnsoldIsUnbought ==
  ASSUME IInv, LInv, NEW p \in ProductIds, products[p].sold = 0, NEW a \in Accounts
  PROVE  purchasedByWallet[p][a] = 0
<1>1. \A k \in OrderKeys : orders[k] \in SaneOrders
  BY OrdersInColumns
<1>2. ASSUME NEW k \in OrderKeys PROVE BoughtColumn(p, a)[orders[k]] = 0
  <2>1. /\ SoldColumn(p)[orders[k]] <= Sum(SoldColumn(p))
        /\ SoldColumn(p)[orders[k]] \in Nat /\ Sum(SoldColumn(p)) = 0
    BY <1>1, OrdersInColumns, ColumnTypes, SumType DEF LInv, SalesAgree
  <2>2. SoldColumn(p)[orders[k]] = 0
    BY <2>1
  <2> QED
    BY <1>1, <2>2 DEF SoldColumn, BoughtColumn
<1>3. [k \in OrderKeys |-> BoughtColumn(p, a)[orders[k]]] = [k \in OrderKeys |-> 0]
  BY <1>2
<1>4. Sum(BoughtColumn(p, a)) = 0
  BY <1>3, TotalZero DEF Sum
<1> QED
  BY <1>4 DEF LInv, SalesAgree

\* The catalog changes for products that sold nothing, or not in their terms.
LEMMA CatalogLedger ==
  ASSUME IInv, LInv, IInv', nextProductId' >= nextProductId,
         \A p \in ProductIds :
           /\ products'[p].sold = products[p].sold
           /\ products'[p].terms = products[p].terms \/ products[p].sold = 0
           /\ p >= nextProductId' => products'[p] = products[p],
         UNCHANGED <<salesVars, ledgerVars>>
  PROVE  LInv'
<1> USE DEF salesVars, ledgerVars
<1>1. LockedAgree' /\ TotalsAgree' /\ ReceiptsAgree' /\ HoldingsAgree'
  BY SumUnchanged DEF LInv, LockedAgree, TotalsAgree, ReceiptsAgree, HoldingsAgree
<1>2. SalesAgree'
  BY SumUnchanged DEF LInv, SalesAgree
<1>3. LimitsAgree'
  <2> SUFFICES ASSUME NEW p \in ProductIds PROVE WithinTerms(p)'
    BY DEF LimitsAgree
  <2>1. CASE products'[p].terms = products[p].terms
    BY <2>1 DEF LInv, LimitsAgree, WithinTerms
  <2>2. CASE products[p].sold = 0
    <3>1. \A a \in Accounts : purchasedByWallet'[p][a] = 0
      BY <2>2, UnsoldIsUnbought
    <3>2. products'[p].sold = 0
      BY <2>2
    <3>3. products'[p].terms.maxSupply \in Nat /\ products'[p].terms.maxPerWallet \in Nat
      BY DEF IInv, TypeOK, Product, Terms
    <3> QED
      BY <3>1, <3>2, <3>3 DEF WithinTerms
  <2> QED
    BY <2>1, <2>2
<1>4. FreshIds'
  <2>1. nextProductId \in Nat /\ nextProductId' \in Nat
    BY DEF IInv, TypeOK
  <2> QED
    BY <2>1 DEF LInv, FreshIds, ProductIds
<1> QED
  BY <1>1, <1>2, <1>3, <1>4 DEF LInv

\* Functions of merchants and products.
LEMMA MerchantLedger == ASSUME IInv, LInv, MerchantNext PROVE LInv'
<1> USE DEF catalogVars, salesVars, ledgerVars
<1>1. IInv'
  BY MerchantStep
<1>2. nextProductId \in Nat /\ products \in [ProductIds -> Product]
  BY DEF IInv, TypeOK
<1>3. ASSUME UNCHANGED <<products, nextProductId, salesVars, ledgerVars>> PROVE LInv'
  BY <1>3, LedgerUnchanged
<1>4. ASSUME NEW a \in Accounts, NEW m \in MerchantIds, NEW t \in ProductTerms,
             CreateProduct(a, m, t)
      PROVE  LInv'
  <2>1. /\ nextProductId \in ProductIds /\ nextProductId' = nextProductId + 1
        /\ \A p \in ProductIds : p # nextProductId => products'[p] = products[p]
        /\ products'[nextProductId].sold = 0
        /\ UNCHANGED <<salesVars, ledgerVars>>
    BY <1>2, <1>4 DEF CreateProduct
  <2>2. products[nextProductId].sold = 0
    BY <1>2, <2>1 DEF LInv, FreshIds, NoProduct
  <2>3. ASSUME NEW p \in ProductIds
        PROVE  /\ products'[p].sold = products[p].sold
               /\ products'[p].terms = products[p].terms \/ products[p].sold = 0
               /\ p >= nextProductId' => products'[p] = products[p]
    <3>1. p \in Int
      BY DEF ProductIds
    <3> QED
      BY <1>2, <2>1, <2>2, <3>1
  <2> QED
    BY <1>1, <1>2, <2>1, <2>3, CatalogLedger
<1>5. ASSUME NEW a \in Accounts, NEW p \in ProductIds, NEW t \in ProductTerms,
             UpdateProduct(a, p, t)
      PROVE  LInv'
  <2>1. /\ nextProductId' = nextProductId /\ products[p].sold = 0
        /\ products[p] # NoProduct
        /\ \A q \in ProductIds : /\ q # p => products'[q] = products[q]
                                 /\ products'[q].sold = products[q].sold
        /\ UNCHANGED <<salesVars, ledgerVars>>
    BY <1>2, <1>5 DEF UpdateProduct, Unsold, ProductExists, NoProduct, Product
  <2>2. p < nextProductId
    BY <1>2, <2>1 DEF LInv, FreshIds, ProductIds
  <2>3. ASSUME NEW q \in ProductIds
        PROVE  /\ products'[q].sold = products[q].sold
               /\ products'[q].terms = products[q].terms \/ products[q].sold = 0
               /\ q >= nextProductId' => products'[q] = products[q]
    BY <1>2, <2>1, <2>2 DEF ProductIds
  <2> QED
    BY <1>1, <1>2, <2>1, <2>3, CatalogLedger
<1>6. ASSUME NEW a \in Accounts, NEW p \in ProductIds, NEW active \in BOOLEAN,
             SetProductActive(a, p, active)
      PROVE  LInv'
  <2>1. /\ nextProductId' = nextProductId /\ products[p] # NoProduct
        /\ \A q \in ProductIds : /\ q # p => products'[q] = products[q]
                                 /\ products'[q].sold = products[q].sold
                                 /\ products'[q].terms = products[q].terms
        /\ UNCHANGED <<salesVars, ledgerVars>>
    BY <1>2, <1>6 DEF SetProductActive, ProductExists, NoProduct, Product
  <2>2. p < nextProductId
    BY <1>2, <2>1 DEF LInv, FreshIds, ProductIds
  <2>3. ASSUME NEW q \in ProductIds
        PROVE  /\ products'[q].sold = products[q].sold
               /\ products'[q].terms = products[q].terms \/ products[q].sold = 0
               /\ q >= nextProductId' => products'[q] = products[q]
    BY <1>2, <2>1, <2>2 DEF ProductIds
  <2> QED
    BY <1>1, <1>2, <2>1, <2>3, CatalogLedger
<1> QED
  BY <1>3, <1>4, <1>5, <1>6
  DEF MerchantNext, CreateMerchant, UpdateMerchantPayout, UpdateMerchantMetadata,
      SetMerchantActive

-----------------------------------------------------------------------------
(* Theorems *)

\* Every step keeps the books in agreement with the orders.
LEMMA StepLedger == IInv /\ LInv /\ [Next]_vars => LInv'
<1> SUFFICES ASSUME IInv, LInv, [Next]_vars PROVE LInv'
  OBVIOUS
<1> USE DEF catalogVars, salesVars, ledgerVars
<1>1. CASE MerchantNext
  BY <1>1, MerchantLedger
<1>2. CASE AdminNext
  BY <1>2, LedgerUnchanged
  DEF AdminNext, SetMerchantSuspended, SetPlatformFeeBps, SetFeeRecipient, SetPaused
<1>3. CASE EnvironmentNext
  BY <1>3, LedgerUnchanged DEF EnvironmentNext, Donate, Tick
<1>4. CASE OrderNext
  <2>1. ASSUME NEW k \in OrderKeys, NEW payer \in Accounts, NEW recipient \in Accounts,
               NEW p \in ProductIds, NEW q \in Quantities, NEW bps \in FeeRates,
               NEW v \in Validities, SignIntent(k, payer, recipient, p, q, bps, v)
        PROVE  LInv'
    BY <2>1, LedgerUnchanged DEF SignIntent
  <2> QED
    BY <1>4, <2>1, PayLedger, RefundLedger, FinalizeLedger, WithdrawMerchantLedger,
       WithdrawPlatformLedger DEF OrderNext
<1>5. CASE UNCHANGED vars
  BY <1>5, LedgerUnchanged DEF vars
<1> QED
  BY <1>1, <1>2, <1>3, <1>4, <1>5 DEF Next

\* The invariant in columns holds.
THEOREM LedgerInvariant == Spec => [](IInv /\ LInv)
<1>1. Init => IInv /\ LInv
  BY InitInv, InitLedger
<1>2. IInv /\ LInv /\ [Next]_vars => (IInv /\ LInv)'
  BY StepInv, StepLedger
<1> QED
  BY <1>1, <1>2, PTL DEF Spec

\* Whatever orders are paid, refunded in parts, matured and withdrawn, in any
\* order: the locked buckets are what the open orders hold, and what merchants
\* and the platform were ever paid is locked, credited, withdrawn or refunded.
THEOREM MoneyConserved == Spec => []Conservation
<1>1. IInv /\ LInv => Conservation
  BY ColumnsAreSums DEF LInv, LockedAgree, TotalsAgree, ReceiptsAgree,
     Conservation, LockedBuckets
<1> QED
  BY <1>1, LedgerInvariant, PTL

\* A recipient holds exactly the passes of the orders not refunded in full and
\* the points not taken back, so a full refund can always burn its passes.
THEOREM HoldingsExact == Spec => []PassesAndPoints
<1>1. IInv /\ LInv => PassesAndPoints
  BY CountsAreSums DEF LInv, HoldingsAgree, PassesAndPoints
<1> QED
  BY <1>1, LedgerInvariant, PTL

\* No number of signed intents, refunds and changes of terms lets the sales of a
\* product or of a wallet pass the limits of the terms it has.
THEOREM LimitsHold == Spec => []LimitsKept
<1>1. IInv /\ LInv => LimitsKept
  BY CountsAreSums DEF LInv, SalesAgree, LimitsAgree, WithinTerms, LimitsKept
<1> QED
  BY <1>1, LedgerInvariant, PTL

-----------------------------------------------------------------------------
(* No checked subtraction fails *)

\* The subtractions of refund, finalizeOrder and the withdrawals.
RefundCovered(o, amount) ==
  /\ CanTake(merchantLocked[o.merchant], MerchantDelta(o, amount))
  /\ CanTake(platformLocked, PlatformDelta(o, amount))
  /\ CanTake(totalLockedLiability, amount)
  /\ CanTake(loyaltyPoints[o.merchant][o.recipient], LoyaltyDelta(o, amount))
  /\ CanTake(usdc[Vault], amount)
  /\ NewRefunded(o, amount) = o.gross =>
       CanTake(passBalance[o.product][o.recipient], o.quantity)
FinalizeCovered(o) ==
  /\ CanTake(merchantLocked[o.merchant], MerchantHeld(o))
  /\ CanTake(platformLocked, PlatformHeld(o))
  /\ CanTake(totalLockedLiability, Held(o))

\* Solidity's checked arithmetic never reverts one of them, and the burn of the
\* passes neither: what is owed to an order or a party is always on the books
\* and in the vault.
NothingUnderflows ==
  /\ \A k \in OrderKeys : LET o == orders[k] IN
       OrderExists(k) /\ ~o.finalized =>
         /\ \A amount \in 1..(o.gross - o.refunded) : RefundCovered(o, amount)
         /\ FinalizeCovered(o)
  /\ \A m \in MerchantIds : /\ CanTake(totalMerchantCredit, merchantCredit[m])
                            /\ CanTake(usdc[Vault], merchantCredit[m])
  /\ CanTake(usdc[Vault], platformCredit)

\* An open order's share of every bucket is within the bucket.
LEMMA OpenOrderCovered ==
  ASSUME IInv, LInv, NEW k \in OrderKeys, OrderExists(k), ~orders[k].finalized
  PROVE  LET o == orders[k] IN
         /\ o \in SaneOrders /\ PaidSane(o)
         /\ MerchantHeld(o) <= merchantLocked[o.merchant]
         /\ PlatformHeld(o) <= platformLocked
         /\ Held(o) <= totalLockedLiability
         /\ o.loyaltyAwarded - o.loyaltyRefunded <= loyaltyPoints[o.merchant][o.recipient]
         /\ o.refunded < o.gross => o.quantity <= passBalance[o.product][o.recipient]
<1> DEFINE o == orders[k]
<1>1. /\ o \in SaneOrders /\ PaidSane(o) /\ o.merchant \in MerchantIds
      /\ o.product \in ProductIds /\ o.recipient \in Accounts
      /\ orders \in [OrderKeys -> SaneOrders]
  BY ExistingPaid, OrdersInColumns DEF PaidSane, SaneOrders, OrderSane
<1>2. ASSUME NEW column \in [SaneOrders -> Nat] PROVE column[o] <= Sum(column)
  BY <1>1, SumType
<1>3. MerchantHeld(o) <= merchantLocked[o.merchant]
  <2>1. LockedColumn(o.merchant)[o] = MerchantHeld(o)
    BY <1>1 DEF LockedColumn
  <2>2. LockedColumn(o.merchant)[o] <= Sum(LockedColumn(o.merchant))
    BY <1>1, ColumnTypes, SumType
  <2> QED
    BY <1>1, <2>1, <2>2 DEF LInv, LockedAgree
<1>4. PlatformHeld(o) <= platformLocked
  <2>1. PlatformLockedColumn[o] = PlatformHeld(o)
    BY <1>1 DEF PlatformLockedColumn
  <2> QED
    BY <1>2, <2>1, ColumnTypes DEF LInv, LockedAgree
<1>5. Held(o) <= totalLockedLiability
  <2>1. merchantLocked \in [MerchantIds -> Nat] /\ platformLocked \in Nat
    BY DEF IInv, TypeOK
  <2>2. merchantLocked[o.merchant] <= Total(merchantLocked) /\ Total(merchantLocked) \in Nat
    BY <1>1, <2>1, BucketMoves
  <2>3. MerchantHeld(o) \in Nat /\ PlatformHeld(o) \in Nat
    BY <1>1, SaneFields
  <2> HIDE DEF o
  <2> QED
    BY <1>1, <1>3, <1>4, <2>1, <2>2, <2>3 DEF Held, LInv, TotalsAgree
<1>6. o.loyaltyAwarded - o.loyaltyRefunded <= loyaltyPoints[o.merchant][o.recipient]
  <2>1. PointColumn(o.merchant, o.recipient)[o] = o.loyaltyAwarded - o.loyaltyRefunded
    BY <1>1 DEF PointColumn
  <2>2. PointColumn(o.merchant, o.recipient)[o] <= Sum(PointColumn(o.merchant, o.recipient))
    BY <1>1, ColumnTypes, SumType
  <2> QED
    BY <1>1, <2>1, <2>2 DEF LInv, HoldingsAgree
<1>7. o.refunded < o.gross => o.quantity <= passBalance[o.product][o.recipient]
  <2>1. o.refunded < o.gross => PassColumn(o.product, o.recipient)[o] = o.quantity
    BY <1>1 DEF PassColumn
  <2>2. PassColumn(o.product, o.recipient)[o] <= Sum(PassColumn(o.product, o.recipient))
    BY <1>1, ColumnTypes, SumType
  <2> QED
    BY <1>1, <2>1, <2>2 DEF LInv, HoldingsAgree
<1> QED
  BY <1>1, <1>3, <1>4, <1>5, <1>6, <1>7

\* What a refund takes back is within what the order still holds.
LEMMA RefundWithinHeld ==
  ASSUME NEW o \in Order, PaidSane(o), NEW amount \in 1..(o.gross - o.refunded)
  PROVE  /\ MerchantDelta(o, amount) \in Nat /\ PlatformDelta(o, amount) \in Nat
         /\ LoyaltyDelta(o, amount) \in Nat /\ amount \in Nat
         /\ MerchantDelta(o, amount) <= MerchantHeld(o)
         /\ PlatformDelta(o, amount) <= PlatformHeld(o)
         /\ LoyaltyDelta(o, amount) <= o.loyaltyAwarded - o.loyaltyRefunded
         /\ amount <= Held(o) /\ o.refunded < o.gross
<1> DEFINE n == RefundedOrder(o, amount)
<1>1. /\ o.gross \in Nat /\ o.refunded \in Nat /\ o.loyaltyAwarded \in Nat
      /\ o.loyaltyRefunded \in Nat /\ o.merchantRefunded \in Nat
      /\ o.platformRefunded \in Nat /\ o.platformFee \in Nat
      /\ amount \in Nat \ {0} /\ amount <= o.gross - o.refunded
  BY DEF Order
<1>2. /\ MerchantDelta(o, amount) \in Nat /\ PlatformDelta(o, amount) \in Nat
      /\ LoyaltyDelta(o, amount) \in Nat /\ n \in Order /\ PaidSane(n)
  BY <1>1, RefundParts
<1>3. n \in SaneOrders
  BY <1>2 DEF SaneOrders, OrderSane
<1>4. /\ MerchantHeld(n) = MerchantHeld(o) - MerchantDelta(o, amount)
      /\ PlatformHeld(n) = PlatformHeld(o) - PlatformDelta(o, amount)
      /\ n.loyaltyAwarded - n.loyaltyRefunded
           = o.loyaltyAwarded - o.loyaltyRefunded - LoyaltyDelta(o, amount)
  BY <1>1, <1>2 DEF RefundedOrder, Order, MerchantHeld, PlatformHeld
<1>5. /\ MerchantHeld(n) \in Nat /\ PlatformHeld(n) \in Nat
      /\ n.loyaltyAwarded - n.loyaltyRefunded \in Nat
  BY <1>3, SaneFields
<1>6. MerchantHeld(o) \in Nat /\ PlatformHeld(o) \in Nat /\ Held(o) = o.gross - o.refunded
  BY HeldNat
<1> HIDE DEF n
<1> QED
  BY <1>1, <1>2, <1>4, <1>5, <1>6

\* A refund, a maturation or a withdrawal that its caller is entitled to is never
\* refused because a bucket, the points, the passes or the vault run short.
THEOREM NeverShort == Spec => []NothingUnderflows
<1>1. ASSUME IInv, LInv PROVE NothingUnderflows
  <2>1. /\ usdc[Vault] = totalLockedLiability + totalMerchantCredit + platformCredit + donated
        /\ totalLockedLiability \in Nat /\ totalMerchantCredit \in Nat
        /\ platformCredit \in Nat /\ donated \in Nat
    BY <1>1 DEF IInv, Solvent, totalLiability, TypeOK
  <2>2. ASSUME NEW k \in OrderKeys, OrderExists(k), ~orders[k].finalized
        PROVE  /\ \A amount \in 1..(orders[k].gross - orders[k].refunded) :
                    RefundCovered(orders[k], amount)
               /\ FinalizeCovered(orders[k])
    <3> DEFINE o == orders[k]
    <3>1. /\ o \in SaneOrders /\ PaidSane(o)
          /\ MerchantHeld(o) <= merchantLocked[o.merchant]
          /\ PlatformHeld(o) <= platformLocked
          /\ Held(o) <= totalLockedLiability
          /\ o.loyaltyAwarded - o.loyaltyRefunded <= loyaltyPoints[o.merchant][o.recipient]
          /\ o.refunded < o.gross => o.quantity <= passBalance[o.product][o.recipient]
      BY <1>1, <2>2, OpenOrderCovered
    <3>2. /\ MerchantHeld(o) \in Nat /\ PlatformHeld(o) \in Nat
          /\ o.loyaltyAwarded - o.loyaltyRefunded \in Nat
          /\ Held(o) = MerchantHeld(o) + PlatformHeld(o)
      BY <3>1, SaneFields DEF Held
    <3>3. o \in Order
      BY <3>1 DEF SaneOrders
    <3>4. /\ merchantLocked[o.merchant] \in Nat /\ platformLocked \in Nat
          /\ loyaltyPoints[o.merchant][o.recipient] \in Nat
      BY <1>1, <3>1 DEF IInv, TypeOK, PaidSane
    <3> HIDE DEF o
    <3>5. ASSUME NEW amount \in 1..(o.gross - o.refunded) PROVE RefundCovered(o, amount)
      <4>1. /\ MerchantDelta(o, amount) \in Nat /\ PlatformDelta(o, amount) \in Nat
            /\ LoyaltyDelta(o, amount) \in Nat /\ amount \in Nat
            /\ MerchantDelta(o, amount) <= MerchantHeld(o)
            /\ PlatformDelta(o, amount) <= PlatformHeld(o)
            /\ LoyaltyDelta(o, amount) <= o.loyaltyAwarded - o.loyaltyRefunded
            /\ amount <= Held(o) /\ o.refunded < o.gross
        BY <3>1, <3>3, RefundWithinHeld
      <4> QED
        BY <2>1, <3>1, <3>2, <3>4, <4>1 DEF RefundCovered, CanTake
    <3>6. FinalizeCovered(o)
      BY <3>1 DEF FinalizeCovered, CanTake
    <3> QED
      BY <3>5, <3>6 DEF o
  <2>3. ASSUME NEW m \in MerchantIds
        PROVE  merchantCredit[m] <= totalMerchantCredit /\ merchantCredit[m] \in Nat
    <3>1. merchantCredit \in [MerchantIds -> Nat]
      BY <1>1 DEF IInv, TypeOK
    <3> QED
      BY <1>1, <3>1, BucketMoves DEF LInv, TotalsAgree
  <2>4. \A m \in MerchantIds : /\ CanTake(totalMerchantCredit, merchantCredit[m])
                               /\ CanTake(usdc[Vault], merchantCredit[m])
    BY <2>1, <2>3 DEF CanTake
  <2>5. CanTake(usdc[Vault], platformCredit)
    BY <2>1 DEF CanTake
  <2> QED
    BY <2>2, <2>4, <2>5 DEF NothingUnderflows
<1> QED
  BY <1>1, LedgerInvariant, PTL

-----------------------------------------------------------------------------
(* The contract implements Escrow *)

\* The empty deployment is the empty escrow.
LEMMA EscrowInit == Init => Books!Init
<1> SUFFICES ASSUME Init PROVE Books!Init
  OBVIOUS
<1>1. /\ \A k \in OrderKeys : orders[k] = NoOrder /\ ~OrderExists(k)
      /\ platformCredit = 0 /\ \A m \in MerchantIds : merchantCredit[m] = 0
      /\ donated = 0 /\ usdc[Vault] = 0
  BY DEF Init, OrderExists, NoOrder, Holders
<1> QED
  BY <1>1 DEF Books!Init, Books!NoTerms, Books!Parties, Platform, NoOrder,
     BookTerms, BookHeld, BookOpen, BookCredit, BookVault

\* Without a change of orders, credits or of the vault less donations, the escrow
\* does not move.
LEMMA EscrowStutters ==
  ASSUME UNCHANGED <<orders, merchantCredit, platformCredit>>, BookVault' = BookVault
  PROVE  UNCHANGED Books!vars
  BY DEF Books!vars, OrderExists, BookTerms, BookHeld, BookOpen, BookCredit

\* The escrow's view of a step that writes one order.
LEMMA OneOrderWritten ==
  ASSUME IInv, NEW k \in OrderKeys, NEW n \in Order, orders' = [orders EXCEPT ![k] = n]
  PROVE  /\ BookTerms'[k] = [payee |-> n.merchant, gross |-> n.gross, fee |-> n.platformFee]
         /\ BookTerms' = [BookTerms EXCEPT ![k] = BookTerms'[k]]
         /\ BookHeld'[k] = IF n.finalized THEN 0 ELSE n.gross - n.refunded
         /\ BookHeld' = [BookHeld EXCEPT ![k] = BookHeld'[k]]
         /\ n.payer # Nobody /\ ~n.finalized => BookOpen' = BookOpen \cup {k}
         /\ n.finalized => BookOpen' = BookOpen \ {k}
<1>1. orders'[k] = n /\ \A j \in OrderKeys : j # k => orders'[j] = orders[j]
  BY DEF IInv, TypeOK
<1>2. /\ BookTerms'[k] = [payee |-> n.merchant, gross |-> n.gross, fee |-> n.platformFee]
      /\ BookTerms' = [BookTerms EXCEPT ![k] = BookTerms'[k]]
  BY <1>1 DEF BookTerms
<1>3. BookHeld'[k] = IF n.finalized THEN 0 ELSE n.gross - n.refunded
  BY <1>1 DEF BookHeld
<1>4. BookHeld' = [BookHeld EXCEPT ![k] = BookHeld'[k]]
  <2>1. \A j \in OrderKeys : j # k => BookHeld'[j] = BookHeld[j]
    BY <1>1 DEF BookHeld
  <2>2. /\ BookHeld = [j \in OrderKeys |-> BookHeld[j]]
        /\ BookHeld' = [j \in OrderKeys |-> BookHeld'[j]]
    BY DEF BookHeld
  <2> QED
    BY <2>1, <2>2
<1>5. /\ n.payer # Nobody /\ ~n.finalized => BookOpen' = BookOpen \cup {k}
      /\ n.finalized => BookOpen' = BookOpen \ {k}
  BY <1>1 DEF BookOpen, OrderExists
<1> QED
  BY <1>2, <1>3, <1>4, <1>5

\* The terms of the order stay.
LEMMA TermsKept ==
  ASSUME IInv, NEW k \in OrderKeys, NEW n \in Order, orders' = [orders EXCEPT ![k] = n],
         n.merchant = orders[k].merchant, n.gross = orders[k].gross,
         n.platformFee = orders[k].platformFee
  PROVE  BookTerms' = BookTerms
<1>1. orders'[k] = n /\ \A j \in OrderKeys : j # k => orders'[j] = orders[j]
  BY DEF IInv, TypeOK
<1>2. \A j \in OrderKeys :
        /\ orders'[j].merchant = orders[j].merchant /\ orders'[j].gross = orders[j].gross
        /\ orders'[j].platformFee = orders[j].platformFee
  BY <1>1
<1> QED
  BY <1>2 DEF BookTerms

\* pay funds the order in the escrow.
LEMMA PayFunds ==
  ASSUME IInv, NEW a \in Accounts, NEW i \in signed, Pay(a, i)
  PROVE  \E k \in OrderKeys : Books!Fund(k)
<1>1. /\ i \in OrderIntent /\ i.platformFee <= i.amount /\ i.amount # 0
      /\ PaidOrder(i) \in Order /\ PaidSane(PaidOrder(i))
  BY PaidOrderSane DEF Pay, ValidOrderIntent
<1>2. PICK k \in OrderKeys, n \in Order : k = i.orderKey /\ n = PaidOrder(i)
  BY <1>1 DEF OrderIntent
<1>3. orders[k] = NoOrder
  <2>1. ~PaidSane(orders[k])
    BY <1>2, AddressAssumption DEF Pay, ValidOrderIntent, OrderExists, PaidSane
  <2> QED
    BY <2>1 DEF IInv, OrdersSane, OrderSane
<1>4. /\ i.amount \in Nat \ {0} /\ i.platformFee \in 0..i.amount /\ i.merchant \in MerchantIds
      /\ n.merchant = i.merchant /\ n.gross = i.amount /\ n.platformFee = i.platformFee
      /\ n.refunded = 0 /\ n.finalized = FALSE /\ n.payer # Nobody
  BY <1>1, <1>2, AddressAssumption DEF PaidOrder, PaidSane, OrderIntent
<1>5. /\ orders' = [orders EXCEPT ![k] = n]
      /\ UNCHANGED <<merchantCredit, platformCredit, donated>>
  BY <1>2 DEF Pay
<1>6. BookVault' = BookVault + i.amount
  <2>1. usdc'[Vault] = usdc[Vault] + i.amount /\ usdc[Vault] \in Nat /\ donated \in Nat
    BY <1>4, VaultApart, TransferMoves DEF IInv, TypeOK, Pay
  <2> QED
    BY <1>4, <1>5, <2>1 DEF BookVault
<1>7. /\ BookTerms'[k].payee = i.merchant /\ BookTerms'[k].gross = i.amount
      /\ BookTerms'[k].fee = i.platformFee
      /\ BookTerms' = [BookTerms EXCEPT ![k] = BookTerms'[k]]
      /\ BookHeld'[k] = i.amount /\ BookHeld' = [BookHeld EXCEPT ![k] = BookHeld'[k]]
      /\ BookOpen' = BookOpen \cup {k}
  <2>1. /\ BookTerms'[k] = [payee |-> n.merchant, gross |-> n.gross, fee |-> n.platformFee]
        /\ BookTerms' = [BookTerms EXCEPT ![k] = BookTerms'[k]]
        /\ BookHeld'[k] = IF n.finalized THEN 0 ELSE n.gross - n.refunded
        /\ BookHeld' = [BookHeld EXCEPT ![k] = BookHeld'[k]]
        /\ BookOpen' = BookOpen \cup {k}
    BY <1>4, <1>5, OneOrderWritten
  <2> QED
    BY <1>4, <2>1
<1>8. BookCredit' = BookCredit
  BY <1>5 DEF BookCredit
<1>9. BookTerms[k] = Books!NoTerms
  BY <1>3 DEF BookTerms, Books!NoTerms, NoOrder, Platform
<1>10. Books!Fund(k)
  BY <1>4, <1>6, <1>7, <1>8, <1>9 DEF Books!Fund
<1> QED
  BY <1>10

\* refund returns a part of what the order holds.
LEMMA RefundReturns ==
  ASSUME IInv, NEW a \in Accounts, NEW k \in OrderKeys,
         NEW amount \in 1..orders[k].gross, Refund(a, k, amount)
  PROVE  Books!Return(k)
<1> DEFINE o == orders[k]
<1>1. /\ o \in Order /\ PaidSane(o) /\ ~o.finalized /\ OrderExists(k)
      /\ o.gross \in Nat /\ o.refunded \in Nat
      /\ amount \in Nat \ {0} /\ amount <= o.gross - o.refunded
  <2>1. o \in Order /\ PaidSane(o)
    BY ExistingPaid DEF Refund
  <2> QED
    BY <2>1 DEF Refund, Order
<1>2. PICK n \in Order : n = RefundedOrder(o, amount) /\ PaidSane(n)
  BY <1>1, RefundParts
<1>3. /\ n.merchant = o.merchant /\ n.gross = o.gross /\ n.platformFee = o.platformFee
      /\ n.refunded = o.refunded + amount /\ n.finalized = FALSE /\ n.payer # Nobody
  BY <1>1, <1>2, AddressAssumption DEF RefundedOrder, NewRefunded, Order, PaidSane
<1>4. /\ orders' = [orders EXCEPT ![k] = n]
      /\ UNCHANGED <<merchantCredit, platformCredit, donated>>
  BY <1>2 DEF Refund
<1>5. BookVault' = BookVault - amount
  <2>1. o.payer \in Accounts
    BY <1>1 DEF PaidSane
  <2>2. usdc'[Vault] = usdc[Vault] - amount /\ usdc[Vault] \in Nat /\ donated \in Nat
    BY <1>1, <2>1, VaultApart, TransferMoves DEF IInv, TypeOK, Refund
  <2> QED
    BY <1>1, <1>4, <2>2 DEF BookVault
<1>6. BookTerms' = BookTerms
  BY <1>3, <1>4, TermsKept
<1>7. k \in BookOpen /\ BookHeld[k] = o.gross - o.refunded
  BY <1>1 DEF BookOpen, BookHeld
<1>8. /\ BookHeld'[k] = n.gross - n.refunded
      /\ BookHeld' = [BookHeld EXCEPT ![k] = BookHeld'[k]]
      /\ BookOpen' = BookOpen \cup {k}
  BY <1>3, <1>4, OneOrderWritten
<1>9. BookCredit' = BookCredit
  BY <1>4 DEF BookCredit
<1>10. BookHeld'[k] \in 0..(BookHeld[k] - 1) /\ BookHeld[k] - BookHeld'[k] = amount
  BY <1>1, <1>3, <1>7, <1>8
<1> QED
  BY <1>5, <1>6, <1>7, <1>8, <1>9, <1>10 DEF Books!Return

\* finalizeOrder releases to the merchant and to the platform no more than the
\* part of each.
LEMMA FinalizeReleases ==
  ASSUME IInv, NEW k \in OrderKeys, FinalizeOrder(k)
  PROVE  Books!Release(k)
<1> DEFINE o == orders[k]
           hm == MerchantHeld(o)
           hp == PlatformHeld(o)
<1>1. /\ o \in Order /\ PaidSane(o) /\ ~o.finalized /\ OrderExists(k)
      /\ o.gross \in Nat /\ o.refunded \in Nat /\ o.platformFee \in Nat
      /\ o.merchant \in MerchantIds
  <2>1. o \in Order /\ PaidSane(o)
    BY ExistingPaid DEF FinalizeOrder
  <2> QED
    BY <2>1 DEF FinalizeOrder, Order, PaidSane
<1>2. /\ hm \in 0..(o.gross - o.platformFee) /\ hp \in 0..o.platformFee
      /\ hm + hp = o.gross - o.refunded
  BY <1>1, HeldNat DEF Order, MerchantHeld, PlatformHeld, Held
<1>3. PICK n \in Order : n = [o EXCEPT !.finalized = TRUE]
  BY <1>1 DEF Order
<1>4. /\ n.merchant = o.merchant /\ n.gross = o.gross /\ n.platformFee = o.platformFee
      /\ n.finalized
  BY <1>1, <1>3 DEF Order
<1>5. /\ orders' = [orders EXCEPT ![k] = n]
      /\ merchantCredit' = [merchantCredit EXCEPT ![o.merchant] = @ + hm]
      /\ platformCredit' = platformCredit + hp
      /\ UNCHANGED <<usdc, donated>>
  BY <1>3 DEF FinalizeOrder
<1>6. PICK m \in MerchantIds, dm \in Nat, dp \in Nat : m = o.merchant /\ dm = hm /\ dp = hp
  BY <1>1, <1>2
<1>7. /\ k \in BookOpen /\ BookHeld[k] = dm + dp
      /\ BookTerms[k].payee = m /\ BookTerms[k].gross = o.gross
      /\ BookTerms[k].fee = o.platformFee
  BY <1>1, <1>2, <1>6 DEF BookOpen, BookHeld, BookTerms
<1>8. BookTerms' = BookTerms /\ BookVault' = BookVault
  BY <1>4, <1>5, TermsKept DEF BookVault
<1>9. BookHeld' = [BookHeld EXCEPT ![k] = 0] /\ BookOpen' = BookOpen \ {k}
  BY <1>4, <1>5, OneOrderWritten
<1>10. /\ merchantCredit \in [MerchantIds -> Nat] /\ platformCredit \in Nat
       /\ merchantCredit' = [merchantCredit EXCEPT ![m] = merchantCredit[m] + dm]
       /\ platformCredit' = platformCredit + dp
  BY <1>5, <1>6 DEF IInv, TypeOK
<1> HIDE DEF o, hm, hp
<1>11. /\ BookCredit \in [MerchantIds \cup {Platform} -> Nat] /\ m # Platform
       /\ BookCredit'[m] = BookCredit[m] + dm
       /\ BookCredit'[Platform] = BookCredit[Platform] + dp
       /\ \A p \in MerchantIds : p # m => BookCredit'[p] = BookCredit[p]
  BY <1>10 DEF BookCredit, Platform, MerchantIds
<1>12. BookCredit' = [BookCredit EXCEPT ![m] = @ + dm, ![Platform] = @ + dp]
  <2>1. BookCredit' = [p \in MerchantIds \cup {Platform} |-> BookCredit'[p]]
    BY DEF BookCredit
  <2> QED
    BY <1>11, <2>1
<1>13. /\ BookCredit'[m] - BookCredit[m] = dm
       /\ BookCredit'[Platform] - BookCredit[Platform] = dp
  BY <1>11
<1> QED
  BY <1>2, <1>6, <1>7, <1>8, <1>9, <1>12, <1>13 DEF Books!Release

\* withdrawMerchant pays out the merchant.
LEMMA MerchantPaidOut ==
  ASSUME IInv, NEW a \in Accounts, NEW m \in MerchantIds, NEW payout \in Accounts,
         NEW amount \in 1..merchantCredit[m], WithdrawMerchant(a, m, amount, payout)
  PROVE  Books!PayOut(m)
<1>1. /\ amount \in Nat \ {0} /\ amount <= merchantCredit[m]
      /\ merchants[m].payout \in Accounts
      /\ merchantCredit \in [MerchantIds -> Nat]
      /\ merchantCredit' = [merchantCredit EXCEPT ![m] = @ - amount]
      /\ UNCHANGED <<orders, platformCredit, donated>>
  BY DEF IInv, TypeOK, WithdrawMerchant, salesVars
<1>2. BookVault' = BookVault - amount
  <2>1. usdc'[Vault] = usdc[Vault] - amount /\ usdc[Vault] \in Nat /\ donated \in Nat
    BY <1>1, VaultApart, TransferMoves DEF IInv, TypeOK, WithdrawMerchant
  <2> QED
    BY <1>1, <2>1 DEF BookVault
<1>3. BookTerms' = BookTerms /\ BookHeld' = BookHeld /\ BookOpen' = BookOpen
  BY <1>1 DEF BookTerms, BookHeld, BookOpen, OrderExists
<1>4. m # Platform
  BY DEF Platform, MerchantIds
<1>5. /\ BookCredit[m] = merchantCredit[m] /\ BookCredit'[m] = merchantCredit[m] - amount
      /\ \A p \in MerchantIds \cup {Platform} : p # m => BookCredit'[p] = BookCredit[p]
  BY <1>1, <1>4 DEF BookCredit
<1>6. BookCredit' = [BookCredit EXCEPT ![m] = BookCredit'[m]]
  <2>1. /\ BookCredit' = [p \in MerchantIds \cup {Platform} |-> BookCredit'[p]]
        /\ BookCredit = [p \in MerchantIds \cup {Platform} |-> BookCredit[p]]
    BY DEF BookCredit
  <2> QED
    BY <1>5, <2>1
<1>7. /\ BookCredit'[m] \in 0..(BookCredit[m] - 1)
      /\ BookCredit[m] - BookCredit'[m] = amount
  BY <1>1, <1>5
<1> QED
  BY <1>2, <1>3, <1>6, <1>7 DEF Books!PayOut

\* withdrawPlatform pays out the platform.
LEMMA PlatformPaidOut ==
  ASSUME IInv, NEW a \in Accounts, NEW amount \in 1..platformCredit,
         WithdrawPlatform(a, amount)
  PROVE  Books!PayOut(Platform)
<1>1. /\ amount \in Nat \ {0} /\ amount <= platformCredit
      /\ platformCredit \in Nat /\ platformCredit' = platformCredit - amount
      /\ UNCHANGED <<orders, merchantCredit, donated>>
  BY DEF IInv, TypeOK, WithdrawPlatform, salesVars
<1>2. BookVault' = BookVault - amount
  <2>1. usdc'[Vault] = usdc[Vault] - amount /\ usdc[Vault] \in Nat /\ donated \in Nat
    BY <1>1, VaultApart, TransferMoves DEF IInv, TypeOK, WithdrawPlatform
  <2> QED
    BY <1>1, <2>1 DEF BookVault
<1>3. BookTerms' = BookTerms /\ BookHeld' = BookHeld /\ BookOpen' = BookOpen
  BY <1>1 DEF BookTerms, BookHeld, BookOpen, OrderExists
<1>4. /\ BookCredit[Platform] = platformCredit
      /\ BookCredit'[Platform] = platformCredit - amount
      /\ \A p \in MerchantIds \cup {Platform} : p # Platform => BookCredit'[p] = BookCredit[p]
  BY <1>1 DEF BookCredit
<1>5. BookCredit' = [BookCredit EXCEPT ![Platform] = BookCredit'[Platform]]
  <2>1. /\ BookCredit' = [p \in MerchantIds \cup {Platform} |-> BookCredit'[p]]
        /\ BookCredit = [p \in MerchantIds \cup {Platform} |-> BookCredit[p]]
    BY DEF BookCredit
  <2> QED
    BY <1>4, <2>1
<1>6. /\ BookCredit'[Platform] \in 0..(BookCredit[Platform] - 1)
      /\ BookCredit[Platform] - BookCredit'[Platform] = amount
  BY <1>1, <1>4
<1> QED
  BY <1>2, <1>3, <1>5, <1>6 DEF Books!PayOut

\* A donation is not money of orders.
LEMMA DonationApart ==
  ASSUME IInv, NEW a \in Accounts, NEW amount \in 1..MaxDonation, Donate(a, amount)
  PROVE  UNCHANGED Books!vars
<1>1. /\ amount \in Nat /\ donated' = donated + amount
      /\ UNCHANGED <<orders, merchantCredit, platformCredit>>
  BY DEF Donate, salesVars
<1>2. usdc'[Vault] = usdc[Vault] + amount /\ usdc[Vault] \in Nat /\ donated \in Nat
  BY <1>1, VaultApart, TransferMoves DEF IInv, TypeOK, Donate
<1>3. BookVault' = BookVault
  BY <1>1, <1>2 DEF BookVault
<1> QED
  BY <1>1, <1>3, EscrowStutters

\* Every step of the contract is a step of the escrow or leaves it alone.
LEMMA EscrowStep == IInv /\ [Next]_vars => [Books!Next]_Books!vars
<1> SUFFICES ASSUME IInv, [Next]_vars PROVE Books!Next \/ UNCHANGED Books!vars
  OBVIOUS
<1> USE DEF catalogVars, salesVars, ledgerVars
<1>1. ASSUME UNCHANGED <<orders, ledgerVars>> PROVE UNCHANGED Books!vars
  <2>1. BookVault' = BookVault
    BY <1>1 DEF BookVault
  <2> QED
    BY <1>1, <2>1, EscrowStutters
<1>2. CASE MerchantNext
  <2> SUFFICES UNCHANGED <<orders, ledgerVars>>
    BY <1>1
  <2>1. ASSUME NEW a \in Accounts, NEW payout \in Accounts, NEW h \in Metadata,
               CreateMerchant(a, payout, h)
        PROVE  UNCHANGED <<orders, ledgerVars>>
    BY <2>1 DEF CreateMerchant
  <2>2. ASSUME NEW a \in Accounts, NEW m \in MerchantIds, NEW payout \in Accounts,
               UpdateMerchantPayout(a, m, payout)
        PROVE  UNCHANGED <<orders, ledgerVars>>
    BY <2>2 DEF UpdateMerchantPayout
  <2>3. ASSUME NEW a \in Accounts, NEW m \in MerchantIds, NEW h \in Metadata,
               UpdateMerchantMetadata(a, m, h)
        PROVE  UNCHANGED <<orders, ledgerVars>>
    BY <2>3 DEF UpdateMerchantMetadata
  <2>4. ASSUME NEW a \in Accounts, NEW m \in MerchantIds, NEW active \in BOOLEAN,
               SetMerchantActive(a, m, active)
        PROVE  UNCHANGED <<orders, ledgerVars>>
    BY <2>4 DEF SetMerchantActive
  <2>5. ASSUME NEW a \in Accounts, NEW m \in MerchantIds, NEW t \in ProductTerms,
               CreateProduct(a, m, t)
        PROVE  UNCHANGED <<orders, ledgerVars>>
    BY <2>5 DEF CreateProduct
  <2>6. ASSUME NEW a \in Accounts, NEW p \in ProductIds, NEW t \in ProductTerms,
               UpdateProduct(a, p, t)
        PROVE  UNCHANGED <<orders, ledgerVars>>
    BY <2>6 DEF UpdateProduct
  <2>7. ASSUME NEW a \in Accounts, NEW p \in ProductIds, NEW active \in BOOLEAN,
               SetProductActive(a, p, active)
        PROVE  UNCHANGED <<orders, ledgerVars>>
    BY <2>7 DEF SetProductActive
  <2> QED
    BY <1>2, <2>1, <2>2, <2>3, <2>4, <2>5, <2>6, <2>7 DEF MerchantNext
<1>3. CASE AdminNext
  BY <1>1, <1>3
  DEF AdminNext, SetMerchantSuspended, SetPlatformFeeBps, SetFeeRecipient, SetPaused
<1>4. CASE EnvironmentNext
  BY <1>1, <1>4, DonationApart DEF EnvironmentNext, Tick
<1>5. CASE OrderNext
  <2>1. ASSUME NEW k \in OrderKeys, NEW payer \in Accounts, NEW recipient \in Accounts,
               NEW p \in ProductIds, NEW q \in Quantities, NEW bps \in FeeRates,
               NEW v \in Validities, SignIntent(k, payer, recipient, p, q, bps, v)
        PROVE  UNCHANGED Books!vars
    BY <1>1, <2>1 DEF SignIntent
  <2>2. ASSUME NEW a \in Accounts, NEW i \in signed, Pay(a, i) PROVE Books!Next
    BY <2>2, PayFunds DEF Books!Next
  <2>3. ASSUME NEW a \in Accounts, NEW k \in OrderKeys, NEW amount \in 1..orders[k].gross,
               Refund(a, k, amount)
        PROVE  Books!Next
    BY <2>3, RefundReturns DEF Books!Next
  <2>4. ASSUME NEW k \in OrderKeys, FinalizeOrder(k) PROVE Books!Next
    BY <2>4, FinalizeReleases DEF Books!Next
  <2>5. ASSUME NEW a \in Accounts, NEW m \in MerchantIds, NEW payout \in Accounts,
               NEW amount \in 1..merchantCredit[m], WithdrawMerchant(a, m, amount, payout)
        PROVE  Books!Next
    BY <2>5, MerchantPaidOut DEF Books!Next, Books!Parties
  <2>6. ASSUME NEW a \in Accounts, NEW amount \in 1..platformCredit,
               WithdrawPlatform(a, amount)
        PROVE  Books!Next
    BY <2>6, PlatformPaidOut DEF Books!Next, Books!Parties
  <2> QED
    BY <1>5, <2>1, <2>2, <2>3, <2>4, <2>5, <2>6 DEF OrderNext
<1>6. CASE UNCHANGED vars
  BY <1>1, <1>6 DEF vars
<1> QED
  BY <1>2, <1>3, <1>4, <1>5, <1>6 DEF Next

\* The contract implements the escrow: an order is funded once, what it holds
\* goes back in parts or is released once within the parts of merchant and
\* platform, and a party is paid out only what was released to it.
THEOREM EscrowImplemented == Spec => ImplementsEscrow
<1>1. Init => Books!Init
  BY EscrowInit
<1>2. IInv /\ [Next]_vars => [Books!Next]_Books!vars
  BY EscrowStep
<1> QED
  BY <1>1, <1>2, Invariant, PTL DEF Spec, ImplementsEscrow, Books!Spec
=============================================================================
