----------------------------- MODULE Projection -----------------------------
(***************************************************************************)
(* What the database says of settled orders, as the indexer builds it from *)
(* the events of OpenTabCheckout and rebuilds it after a reorganisation,   *)
(* and the refund and withdrawal requests of a merchant that it confirms.  *)
(*                                                                         *)
(* The chain is a sequence of transactions, each one call of the contract. *)
(* Its events follow from the calls before it, as the contract computes    *)
(* them (module Checkout), so they are not stored: the event of the n-th   *)
(* transaction is read off the prefix of length n.  The projector commits  *)
(* the events of a transaction together, in one database transaction, and  *)
(* a rewind is one database transaction too: each is one action.           *)
(*                                                                         *)
(* Identities (addresses, digests, token ids) are those of an intent that  *)
(* the application signed and therefore match; the checks modelled are     *)
(* those on amounts, statuses and on what was projected before.  All       *)
(* orders are of one merchant, each buys one unit.                         *)
(***************************************************************************)
EXTENDS Amounts, Sequences

CONSTANTS
  Orders,
  Price, Fee,        \* of each order: its signed amount and platform fee
  Points,            \* of each order: the loyalty points of its product
  FinalSale,         \* orders without a refund window (refundDeadline 0)
  Refunds,           \* refund calls, numbered in the order they are requested
  Withdrawals,       \* withdrawal calls, numbered likewise
  OrderOf,           \* of each refund: its order
  Amount,            \* of each refund and each withdrawal
  Direct,            \* the calls sent to the contract outside the application
  NoTx,              \* no transaction hash
  CandidateLimit,    \* operations #findBoundFinancialOperation reads (500)
  CreditLimit,       \* credits #merchantWithdrawal reads (1_000)
  MaxReorgs,         \* bound: reorganisations
  MaxLag             \* bound: transactions the chain is ahead of the indexer

Requests == (Refunds \cup Withdrawals) \ Direct

ASSUME NumberedAssumption ==
  Refunds \subseteq Nat /\ Withdrawals \subseteq Nat /\ Refunds \cap Withdrawals = {}
ASSUME FiniteAssumption ==
  IsFiniteSet(Orders) /\ IsFiniteSet(Refunds) /\ IsFiniteSet(Withdrawals)
ASSUME AmountAssumption ==
  /\ Price \in [Orders -> Nat \ {0}] /\ Points \in [Orders -> Nat]
  /\ Fee \in [Orders -> Nat] /\ \A o \in Orders : Fee[o] <= Price[o]
  /\ OrderOf \in [Refunds -> Orders] /\ FinalSale \subseteq Orders
  /\ Amount \in [Refunds \cup Withdrawals -> Nat \ {0}]
ASSUME OtherAssumption ==
  /\ Direct \subseteq Refunds \cup Withdrawals /\ NoTx \notin Refunds \cup Withdrawals
  /\ CandidateLimit \in Nat /\ CreditLimit \in Nat /\ MaxReorgs \in Nat
  /\ MaxLag \in Nat

VARIABLES
  chain,             \* the transactions of the canonical chain
  closed,            \* orders whose refund window has passed
  reorgs,
  agreed,            \* of what is projected, the length still in the chain
  applied,           \* canonical_logs: the transactions projected, canonical
  refused,           \* quarantined_logs: <<transaction, event name>>
  orders,            \* orders, with the status of the payment attempt
  credits,           \* settlement_credits
  creditOrder,       \* settlement_credits.createdAt: orders, oldest credit first
  awards,            \* loyalty_awards: points and canonical
  receipts,          \* receipts: the status
  rows               \* refunds, withdrawals, each with its contract operation

chainVars == <<chain, closed, reorgs>>
storeVars == <<agreed, applied, refused, orders, credits, creditOrder, awards, receipts>>
vars == <<chainVars, storeVars, rows>>

Tx == ({"pay", "finalize"} \X Orders) \cup ({"refund"} \X Refunds)
        \cup ({"withdraw"} \X Withdrawals)

NoCredit == [amount |-> 0, withdrawn |-> 0, status |-> "none"]

Init ==
  /\ chain = <<>> /\ closed = FinalSale /\ reorgs = 0
  /\ agreed = 0 /\ applied = <<>> /\ refused = {}
  /\ orders = [o \in Orders |->
       [status |-> "awaiting_payment", paid |-> 0, refunded |-> 0, attempt |-> "confirming"]]
  /\ credits = [o \in Orders |-> NoCredit] /\ creditOrder = <<>>
  /\ awards = [o \in Orders |-> [points |-> 0, canonical |-> FALSE]]
  /\ receipts = [o \in Orders |-> "none"]
  /\ rows = [r \in Requests |-> [status |-> "none", hash |-> NoTx]]

-----------------------------------------------------------------------------
(* What the contract has done after the calls of a sequence s.             *)

Has(s, kind, id) == \E n \in DOMAIN s : s[n] = <<kind, id>>

RefundsOf(o) == {r \in Refunds : OrderOf[r] = o}
RefundedBy(s, o) ==
  Total([r \in {q \in RefundsOf(o) : Has(s, "refund", q)} |-> Amount[r]])
WithdrawnBy(s) == Total([w \in {v \in Withdrawals : Has(s, "withdraw", v)} |-> Amount[w]])

\* expectedFinalizationCredits: what is left to the merchant and to the platform.
PlatformPart(o, refunded) == Fee[o] - Share(Fee[o], refunded, Price[o])
MerchantPart(o, refunded) == Price[o] - refunded - PlatformPart(o, refunded)

MaturedBy(s) ==
  Total([o \in {p \in Orders : Has(s, "finalize", p)} |-> MerchantPart(o, RefundedBy(s, o))])

\* The points of an order once part of it is refunded.
PointsLeft(o, refunded) == Points[o] - Share(Points[o], refunded, Price[o])

-----------------------------------------------------------------------------
(* The chain.                                                              *)

Sent(r) == r \in Direct \cup {q \in Requests : rows[q].status \notin {"none", "prepared"}}

Mine(kind, id) ==
  /\ ~Has(chain, kind, id) /\ Len(chain) < agreed + MaxLag
  /\ chain' = Append(chain, <<kind, id>>)
  /\ UNCHANGED <<closed, reorgs, storeVars, rows>>

Pay(o) == Mine("pay", o)

Refund(r) ==
  LET o == OrderOf[r] IN
  /\ Sent(r) /\ Has(chain, "pay", o) /\ ~Has(chain, "finalize", o) /\ o \notin closed
  /\ RefundedBy(chain, o) + Amount[r] <= Price[o]
  /\ Mine("refund", r)

FinalizeOrder(o) ==
  /\ Has(chain, "pay", o) /\ o \in closed
  /\ Mine("finalize", o)

WithdrawMerchant(w) ==
  /\ Sent(w)
  /\ WithdrawnBy(chain) + Amount[w] <= MaturedBy(chain)
  /\ Mine("withdraw", w)

WindowCloses(o) ==
  /\ o \notin closed /\ closed' = closed \cup {o}
  /\ UNCHANGED <<chain, reorgs, storeVars, rows>>

\* The last calls leave the chain; each may be included again, or never.
Reorganise ==
  /\ reorgs < MaxReorgs
  /\ \E n \in 0..(Len(chain) - 1) :
       /\ chain' = SubSeq(chain, 1, n)
       /\ agreed' = IF n < agreed THEN n ELSE agreed
  /\ reorgs' = reorgs + 1
  /\ UNCHANGED <<closed, applied, refused, orders, credits, creditOrder, awards, receipts, rows>>

-----------------------------------------------------------------------------
(* Requests of a merchant.  A row stands for the request and for its       *)
(* contract operation, whose statuses the code keeps in step.              *)

Pending == {"prepared", "submission_started", "submitted", "submitted_unknown", "orphaned"}
Reserved == Pending \cup {"confirmed"}
Live(r) == rows[r].status \in Pending

Requested(S, statuses) == Total([r \in {q \in S \cap Requests : rows[q].status \in statuses} |-> Amount[r]])

InTurn(r, S) == \A q \in S \cap Requests : q < r => rows[q].status # "none"

SetRow(r, row) == rows' = [rows EXCEPT ![r] = row]

RefundReserved(o) == Requested(RefundsOf(o), Reserved)

\* createRefund, and prepareContractOperation for its call.
CreateRefund(r) ==
  LET o == OrderOf[r] IN
  /\ rows[r].status = "none" /\ InTurn(r, Refunds)
  /\ orders[o].status \in {"paid", "partially_refunded"} /\ o \notin closed
  /\ Amount[r] <= orders[o].paid - RefundReserved(o)
  /\ SetRow(r, [status |-> "prepared", hash |-> NoTx])
  /\ UNCHANGED <<chainVars, storeVars>>

Matured == {o \in Orders : credits[o].status \in {"matured", "withdrawn"}}
Free(o) == credits[o].amount - credits[o].withdrawn
Spendable == Total([o \in Matured |-> Free(o)])

Promised_OrphanedForgotten == Requested(Withdrawals, Pending \ {"orphaned"})
Promised == Requested(Withdrawals, Pending)

CreateWithdrawal(w) ==
  /\ rows[w].status = "none" /\ InTurn(w, Withdrawals)
  /\ Promised + Amount[w] <= Spendable
  /\ SetRow(w, [status |-> "prepared", hash |-> NoTx])
  /\ UNCHANGED <<chainVars, storeVars>>

StartSubmission(r) ==
  /\ rows[r].status = "prepared"
  /\ SetRow(r, [rows[r] EXCEPT !.status = "submission_started"])
  /\ UNCHANGED <<chainVars, storeVars>>

MayBecome(status) ==
  IF status = "submitted" THEN {"submission_started", "submitted_unknown"}
                          ELSE {"submission_started"}

\* registerContractOperationSubmission: the hash may be known or not, may be
\* added later, and never changes.
RegisterSubmission(r, status, hash) ==
  /\ \/ rows[r].status \in MayBecome(status)
     \/ rows[r].status = status /\ rows[r].hash = NoTx /\ hash # NoTx
  /\ hash = NoTx \/ rows[r].hash \in {NoTx, hash}
  /\ SetRow(r, [status |-> status, hash |-> IF hash = NoTx THEN rows[r].hash ELSE hash])
  /\ UNCHANGED <<chainVars, storeVars>>

-----------------------------------------------------------------------------
(* The projector.                                                          *)

\* Only the oldest operations of a kind are looked at.
Looked(S) == {r \in S \cap Requests : Live(r) /\
                Cardinality({q \in S \cap Requests : Live(q) /\ q < r}) < CandidateLimit}

Selected_ExactOnly(candidates, hash) == {r \in candidates : rows[r].hash = hash}
\* selectOperationForCanonicalTransaction
Selected(candidates, hash) ==
  LET exact == {r \in candidates : rows[r].hash = hash} IN
  IF Cardinality(exact) = 1 THEN exact
  ELSE IF exact = {} /\ Cardinality(candidates) = 1
       THEN {r \in candidates : rows[r].hash = NoTx \/ rows[r].status = "orphaned"}
       ELSE {}

Bound_OrphansForgotten(S, hash) ==
  Selected({r \in Looked(S) : Amount[r] = Amount[hash] /\ rows[r].status # "orphaned"}, hash)
\* The request, if any, that the call hash of the amount is taken to execute.
Bound(S, hash) ==
  LET same     == {r \in S \cap Requests : Amount[r] = Amount[hash]}
      selected == Selected(same \cap Looked(S), hash)
      orphans  == {r \in same : rows[r].status = "orphaned"}
  IN  IF selected # {} THEN selected
      ELSE IF Cardinality(orphans) = 1 THEN orphans ELSE {}

Confirm(S, hash) ==
  rows' = [r \in Requests |->
    IF r \in Bound(S, hash) THEN [status |-> "confirmed", hash |-> hash] ELSE rows[r]]

\* The next transaction, when what is projected is a prefix of the chain.
NextIs(kind, id) ==
  /\ agreed = Len(applied) /\ agreed < Len(chain)
  /\ chain[agreed + 1] = <<kind, id>>
  /\ applied' = Append(applied, <<kind, id>>) /\ agreed' = agreed + 1

Refuse(events) == refused' = refused \cup {<<chain[agreed + 1], e>> : e \in events}

\* What pay emits, in this order.  #passTransfer looks for an OrderPaid of its
\* transaction among the rows inserted so far.
PayEvents == <<"LoyaltyAwarded", "TransferSingle", "OrderPaid">>
PassFound == \E i, j \in DOMAIN PayEvents :
  i < j /\ PayEvents[i] = "OrderPaid" /\ PayEvents[j] = "TransferSingle"

OrderPaid(o) ==
  /\ NextIs("pay", o)
  /\ Refuse({e \in {"TransferSingle"} : ~PassFound})
  /\ awards' = [awards EXCEPT ![o] =
       IF Points[o] = 0 THEN @ ELSE [points |-> Points[o], canonical |-> TRUE]]
  /\ IF orders[o].status \in {"paid", "partially_refunded", "refunded"}
     THEN UNCHANGED <<orders, credits, creditOrder, receipts>>
     ELSE /\ orders' = [orders EXCEPT ![o] =
               [@ EXCEPT !.status = "paid", !.paid = Price[o], !.attempt = "paid"]]
          /\ credits' = [credits EXCEPT ![o] =
               [amount |-> Price[o] - Fee[o], withdrawn |-> 0, status |-> "refundable"]]
          /\ creditOrder' = IF credits[o].status = "none" THEN Append(creditOrder, o)
                                                           ELSE creditOrder
          /\ receipts' = [receipts EXCEPT ![o] = IF PassFound THEN "issued" ELSE "expected"]
  /\ UNCHANGED <<chainVars, rows>>

\* evaluateRefundProjection, on the event of the next transaction.
RefundAgrees(r) ==
  LET o == OrderOf[r]
      before     == orders[o].refunded
      cumulative == RefundedBy(applied, o) + Amount[r]
      feeBefore  == Share(Fee[o], RefundedBy(applied, o), Price[o])
      feeDelta   == Share(Fee[o], cumulative, Price[o]) - feeBefore
  IN  /\ orders[o].paid > 0
      /\ cumulative = before + Amount[r] /\ cumulative <= orders[o].paid
      /\ feeDelta = Share(Fee[o], cumulative, orders[o].paid)
                    - Share(Fee[o], before, orders[o].paid)
      /\ Amount[r] - feeDelta \in 0..credits[o].amount

\* refund emits LoyaltyAdjusted when points are taken back, PassRevoked on the
\* last refund, then OrderRefunded.
OrderRefunded(r) ==
  LET o          == OrderOf[r]
      cumulative == RefundedBy(applied, o) + Amount[r]
      left       == PointsLeft(o, cumulative)
      removed    == PointsLeft(o, RefundedBy(applied, o)) - left
      adjusts    == left + removed = awards[o].points
      merchant   == MerchantPart(o, RefundedBy(applied, o)) - MerchantPart(o, cumulative)
      revokes    == cumulative = Price[o]
  IN
  /\ NextIs("refund", r)
  /\ Refuse({e \in {"LoyaltyAdjusted"} : removed > 0 /\ ~adjusts} \cup
            {e \in {"OrderRefunded"} : ~RefundAgrees(r)})
  /\ awards' = [awards EXCEPT ![o].points = IF removed > 0 /\ adjusts THEN left ELSE @]
  /\ receipts' = [receipts EXCEPT ![o] = IF revokes THEN "revoked" ELSE @]
  /\ IF RefundAgrees(r)
     THEN /\ orders' = [orders EXCEPT ![o] =
               [@ EXCEPT !.refunded = cumulative,
                         !.status = IF cumulative = orders[o].paid THEN "refunded"
                                                            ELSE "partially_refunded"]]
          /\ credits' = [credits EXCEPT ![o].amount = @ - merchant]
          /\ Confirm(RefundsOf(o), r)
     ELSE UNCHANGED <<orders, credits, rows>>
  /\ UNCHANGED <<chainVars, creditOrder>>

OrderFinalized(o) ==
  LET merchant == MerchantPart(o, RefundedBy(applied, o))
      agrees   == /\ orders[o].status \in {"paid", "partially_refunded", "refunded"}
                  /\ merchant = MerchantPart(o, orders[o].refunded)
                  /\ merchant = credits[o].amount
  IN
  /\ NextIs("finalize", o)
  /\ Refuse({e \in {"OrderFinalized"} : ~agrees})
  /\ credits' = [credits EXCEPT ![o].status = IF agrees THEN "matured" ELSE @]
  /\ UNCHANGED <<chainVars, orders, creditOrder, awards, receipts, rows>>

\* planWithdrawalDebits: the oldest credits first.
Position(o) == CHOOSE n \in DOMAIN creditOrder : creditOrder[n] = o
Older(o, S) == {p \in S : Position(p) < Position(o)}
Debit_Unclamped(free, o, x) == x - Total([p \in Older(o, DOMAIN free) |-> free[p]])
Debit(free, o, x) ==
  LET rest == x - Total([p \in Older(o, DOMAIN free) |-> free[p]])
  IN  IF rest <= 0 THEN 0 ELSE IF rest < free[o] THEN rest ELSE free[o]

Withdrawn(credit, amount) ==
  [credit EXCEPT !.withdrawn = amount,
                 !.status = IF amount = credit.amount THEN "withdrawn" ELSE "matured"]

MerchantWithdrawal(w) ==
  LET looked == {o \in Matured : Cardinality(Older(o, Matured)) < CreditLimit}
      free   == [o \in looked |-> Free(o)]
      before == Total([o \in looked |-> credits[o].withdrawn])
      agrees == /\ WithdrawnBy(applied) + Amount[w] = before + Amount[w]
                /\ Amount[w] <= Total(free)
  IN
  /\ NextIs("withdraw", w)
  /\ Refuse({e \in {"MerchantWithdrawal"} : ~agrees})
  /\ IF agrees
     THEN /\ credits' = [o \in Orders |->
               IF o \in looked /\ Debit(free, o, Amount[w]) > 0
               THEN Withdrawn(credits[o], credits[o].withdrawn + Debit(free, o, Amount[w]))
               ELSE credits[o]]
          /\ Confirm(Withdrawals, w)
     ELSE UNCHANGED <<credits, rows>>
  /\ UNCHANGED <<chainVars, orders, creditOrder, awards, receipts>>

-----------------------------------------------------------------------------
(* The rewind: rows of blocks that left the chain are orphaned, and what   *)
(* they had changed is rebuilt from the rows that stay.                    *)

EventOf == [pay |-> "OrderPaid", refund |-> "OrderRefunded",
            finalize |-> "OrderFinalized", withdraw |-> "MerchantWithdrawal"]

\* Below, kept is the part of applied that stays and gone is the set that goes.
Projected(kept, kind, id) == Has(kept, kind, id) /\ <<<<kind, id>>, EventOf[kind]>> \notin refused

RefundLost(gone, o) == \E r \in RefundsOf(o) : <<"refund", r>> \in gone
Touched_RefundForgotten(gone, o) == <<"pay", o>> \in gone \/ <<"finalize", o>> \in gone
Touched(gone, o) == <<"pay", o>> \in gone \/ <<"finalize", o>> \in gone \/ RefundLost(gone, o)

\* The refunds of an order up to the last one whose event was projected.
RefundedUpTo(kept, o, event) ==
  LET at == {n \in DOMAIN kept : /\ \E r \in RefundsOf(o) : kept[n] = <<"refund", r>>
                                /\ <<kept[n], event>> \notin refused}
  IN  IF at = {} THEN 0
      ELSE RefundedBy(SubSeq(kept, 1, CHOOSE n \in at : \A i \in at : i <= n), o)

RebuiltOrder_StatusKept(kept, o) ==
  IF Projected(kept, "pay", o)
  THEN [orders[o] EXCEPT !.refunded = RefundedUpTo(kept, o, "OrderRefunded")]
  ELSE [status |-> "orphaned", paid |-> 0, refunded |-> 0, attempt |-> "confirming"]
RebuiltOrder(kept, o) ==
  LET x == RefundedUpTo(kept, o, "OrderRefunded") IN
  IF ~Projected(kept, "pay", o)
  THEN [status |-> "orphaned", paid |-> 0, refunded |-> 0,
        attempt |-> IF orders[o].attempt = "paid" THEN "confirming" ELSE orders[o].attempt]
  ELSE [orders[o] EXCEPT !.refunded = x,
          !.status = IF x = 0 THEN "paid"
                     ELSE IF x = orders[o].paid THEN "refunded" ELSE "partially_refunded"]

RebuiltCredit(kept, o) ==
  IF ~Projected(kept, "pay", o) THEN [amount |-> 0, withdrawn |-> 0, status |-> "orphaned"]
  ELSE [amount |-> MerchantPart(o, RefundedUpTo(kept, o, "OrderRefunded")), withdrawn |-> 0,
        status |-> IF Projected(kept, "finalize", o) THEN "matured" ELSE "refundable"]

RebuiltCredits(kept, gone) ==
  [o \in Orders |-> IF Touched(gone, o) THEN RebuiltCredit(kept, o) ELSE credits[o]]

\* #rebuildMerchantWithdrawals plans all that is still withdrawn again over the
\* matured ones of the credits c; it throws, and the rewind is rolled back, when
\* they do not suffice.
StillWithdrawn_OrphanedToo(kept) == WithdrawnBy(applied)
StillWithdrawn(kept) ==
  Total([w \in {v \in Withdrawals : Projected(kept, "withdraw", v)} |-> Amount[w]])
MaturedOf(c) == [o \in {p \in Orders : c[p].status \in {"matured", "withdrawn"}} |-> c[o].amount]
PlanExists(kept, c) == StillWithdrawn(kept) <= Total(MaturedOf(c))
Replanned(kept, c) ==
  LET free == MaturedOf(c) IN
  [o \in Orders |->
    IF o \notin DOMAIN free THEN c[o]
    ELSE IF Debit(free, o, StillWithdrawn(kept)) = 0
         THEN [c[o] EXCEPT !.withdrawn = 0, !.status = "matured"]
         ELSE Withdrawn(c[o], Debit(free, o, StillWithdrawn(kept)))]

RebuiltReceipt(kept, o) ==
  IF receipts[o] = "none" THEN "none"
  ELSE IF ~Projected(kept, "pay", o) THEN "orphaned"
  ELSE IF RefundedBy(kept, o) = Price[o] THEN "revoked"
  ELSE IF PassFound THEN "issued" ELSE "expected"

Unconfirmed_RefundsOnly(gone, r) ==
  rows[r].status = "confirmed" /\ <<"refund", rows[r].hash>> \in gone
Unconfirmed(gone, r) ==
  /\ rows[r].status = "confirmed"
  /\ <<IF r \in Refunds THEN "refund" ELSE "withdraw", rows[r].hash>> \in gone

Kept == SubSeq(applied, 1, agreed)
Gone == {applied[n] : n \in (agreed + 1)..Len(applied)}
WithdrawalLost_Ignored(gone) == FALSE
WithdrawalLost(gone) == \E w \in Withdrawals : <<"withdraw", w>> \in gone

RewindTo(kept, gone, c) ==
  /\ WithdrawalLost(gone) => PlanExists(kept, c)
  /\ applied' = kept
  /\ refused' = {q \in refused : q[1] \notin gone}
  /\ orders' = [o \in Orders |-> IF Touched(gone, o) THEN RebuiltOrder(kept, o) ELSE orders[o]]
  /\ credits' = IF WithdrawalLost(gone) THEN Replanned(kept, c) ELSE c
  /\ receipts' = [o \in Orders |->
       IF <<"pay", o>> \in gone \/ RefundLost(gone, o) THEN RebuiltReceipt(kept, o) ELSE receipts[o]]
  /\ awards' = [o \in Orders |->
       IF Has(kept, "pay", o) /\ Points[o] > 0
       THEN [points |-> PointsLeft(o, RefundedUpTo(kept, o, "LoyaltyAdjusted")), canonical |-> TRUE]
       ELSE [points |-> 0, canonical |-> FALSE]]
  /\ rows' = [r \in Requests |->
       IF Unconfirmed(gone, r) THEN [rows[r] EXCEPT !.status = "orphaned"] ELSE rows[r]]
  /\ UNCHANGED <<chainVars, agreed, creditOrder>>

Rewind ==
  /\ agreed < Len(applied)
  /\ RewindTo(Kept, Gone, RebuiltCredits(Kept, Gone))

-----------------------------------------------------------------------------
ChainNext ==
  \/ \E o \in Orders : Pay(o) \/ FinalizeOrder(o) \/ WindowCloses(o)
  \/ \E r \in Refunds : Refund(r)
  \/ \E w \in Withdrawals : WithdrawMerchant(w)
  \/ Reorganise

RequestNext == \E r \in Requests :
  \/ r \in Refunds /\ CreateRefund(r)
  \/ r \in Withdrawals /\ CreateWithdrawal(r)
  \/ StartSubmission(r)
  \/ \E hash \in {NoTx, r} : \/ RegisterSubmission(r, "submitted", hash)
                            \/ RegisterSubmission(r, "submitted_unknown", hash)

IndexerNext ==
  \/ \E o \in Orders : OrderPaid(o) \/ OrderFinalized(o)
  \/ \E r \in Refunds : OrderRefunded(r)
  \/ \E w \in Withdrawals : MerchantWithdrawal(w)
  \/ Rewind

Next == ChainNext \/ RequestNext \/ IndexerNext

Spec == Init /\ [][Next]_vars

-----------------------------------------------------------------------------
TypeOK ==
  /\ chain \in Seq(Tx) /\ applied \in Seq(Tx)
  /\ agreed \in 0..Len(applied) /\ agreed <= Len(chain)
  /\ SubSeq(applied, 1, agreed) = SubSeq(chain, 1, agreed)
  /\ closed \subseteq Orders /\ reorgs \in 0..MaxReorgs
  /\ orders \in [Orders -> [status: {"awaiting_payment", "paid", "partially_refunded",
                                    "refunded", "orphaned"},
                           paid: Nat, refunded: Nat, attempt: {"confirming", "paid"}]]
  /\ credits \in [Orders -> [amount: Nat, withdrawn: Nat, status:
                   {"none", "refundable", "matured", "withdrawn", "orphaned"}]]
  /\ awards \in [Orders -> [points: Nat, canonical: BOOLEAN]]
  /\ receipts \in [Orders -> {"none", "expected", "issued", "revoked", "orphaned"}]
  /\ rows \in [Requests -> [status: {"none"} \cup Reserved,
                           hash: Refunds \cup Withdrawals \cup {NoTx}]]

\* However the events were applied, rewound and applied again, every row says
\* what the contract did in the transactions that are projected now.
ProjectionIsHistory == \A o \in Orders :
  LET paid == Has(applied, "pay", o)
      x    == RefundedBy(applied, o)
  IN
  /\ orders[o].paid = (IF paid THEN Price[o] ELSE 0) /\ orders[o].refunded = x
  /\ orders[o].status \in (IF ~paid THEN {"awaiting_payment", "orphaned"}
                           ELSE IF x = 0 THEN {"paid"}
                           ELSE IF x = Price[o] THEN {"refunded"} ELSE {"partially_refunded"})
  /\ orders[o].attempt = "paid" <=> paid
  /\ credits[o].amount = (IF paid THEN MerchantPart(o, x) ELSE 0)
  /\ o \in Matured <=> Has(applied, "finalize", o)
  /\ awards[o].points = (IF paid THEN PointsLeft(o, x) ELSE 0)
  /\ receipts[o] = "revoked" <=> paid /\ x = Price[o]

\* The credits say withdrawn what the contract paid out, no more, no less, as long
\* as the chain reorganises once: a second rewind may forget what the first one
\* planned on an order.
WithdrawnIsHistory ==
  /\ Total([o \in Orders |-> credits[o].withdrawn]) = WithdrawnBy(applied)
  /\ \A o \in Orders : credits[o].withdrawn <= credits[o].amount

\* No event of the contract is refused, but for the pass that is minted before
\* its OrderPaid is known; under the same condition, and while all the credits of
\* the merchant can be read.
NothingRefused == \A q \in refused : q[2] = "TransferSingle"

\* A request is confirmed by one call of its own kind and amount, which is part
\* of the chain as projected; no call confirms two requests.
ConfirmedByTheChain == \A r \in Requests : rows[r].status = "confirmed" =>
  /\ rows[r].hash # NoTx /\ Amount[rows[r].hash] = Amount[r]
  /\ Has(applied, IF r \in Refunds THEN "refund" ELSE "withdraw", rows[r].hash)
  /\ \A q \in Requests \ {r} : rows[q].status = "confirmed" => rows[q].hash # rows[r].hash

\* The other requests that an event of r could be of.
Twins(r) ==
  {q \in (IF r \in Refunds THEN RefundsOf(OrderOf[r]) ELSE Withdrawals) \cap Requests :
     q # r /\ Amount[q] = Amount[r]}

\* A request without a twin is confirmed once its call is projected, whatever is
\* known of its transaction: no reservation is held for money that has moved.  As
\* long as the chain reorganises once: after that a withdrawal that finds too few
\* credits is refused, and its request stays open.
ExecutedIsConfirmed == \A r \in Requests :
  Twins(r) = {} /\ Has(applied, IF r \in Refunds THEN "refund" ELSE "withdraw", r)
    => rows[r].status = "confirmed"

\* What is promised to withdrawals under way is in the credits, when they can be
\* told apart and none is sent past the application.  Only a reorganisation can
\* take it away, and when every order has matured again the credits cover it
\* again: a withdrawal that was orphaned stays promised.  As long as the chain
\* reorganises once.
PromisesCovered ==
  /\ Direct \cap Withdrawals = {} /\ \A w \in Withdrawals : Twins(w) = {}
  /\ reorgs = 0 \/ Matured = Orders
  => Promised <= Spendable

\* The rewind never throws: what is still withdrawn always fits the credits that
\* are left, so the indexer gets through every reorganisation.
RewindPossible ==
  agreed < Len(applied) /\ WithdrawalLost(Gone) => PlanExists(Kept, RebuiltCredits(Kept, Gone))
=============================================================================
