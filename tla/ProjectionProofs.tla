-------------------------- MODULE ProjectionProofs --------------------------
(***************************************************************************)
(* Theorems about Projection, for any orders, amounts, requests and        *)
(* reorganisations.                                                        *)
(*                                                                         *)
(* The argument rests on the chain: every prefix of it is a history that   *)
(* the contract allows (Lawful), so what is projected is one as well,      *)
(* before and after a rewind.  From it follows what the contract's amounts *)
(* are bounded by (Solid), hence that the projector agrees with each event *)
(* (Tells), hence that a rebuild finds every event it needs.               *)
(*                                                                         *)
(* What is withdrawn, confirmed and promised needs more, each part on top  *)
(* of the one before: credits in the order of their payments and a plan    *)
(* that adds up (WInv), requests confirmed no later than their own call is *)
(* projected (EInv), and promises below what orders past their refund      *)
(* window are worth (PInv).  These hold until a second reorganisation.     *)
(***************************************************************************)
EXTENDS Projection, AmountsProofs, SequenceTheorems

-----------------------------------------------------------------------------
(* Inductive invariants                                                    *)

\* The contract accepts the call c after the calls of p.
Callable(p, c) ==
  /\ ~Has(p, c[1], c[2])
  /\ c[1] = "refund" =>
       /\ Has(p, "pay", OrderOf[c[2]]) /\ ~Has(p, "finalize", OrderOf[c[2]])
       /\ RefundedBy(p, OrderOf[c[2]]) + Amount[c[2]] <= Price[OrderOf[c[2]]]
  /\ c[1] = "finalize" => Has(p, "pay", c[2])
  /\ c[1] = "withdraw" => WithdrawnBy(p) + Amount[c[2]] <= MaturedBy(p)

First(s, n) == SubSeq(s, 1, n)

Lawful(s) == \A n \in 0..(Len(s) - 1) : Callable(First(s, n), s[n + 1])

\* What the calls of p come to.
Solid(p) ==
  /\ \A o \in Orders : RefundedBy(p, o) <= Price[o]
  /\ \A r \in Refunds : Has(p, "refund", r) => Has(p, "pay", OrderOf[r])
  /\ \A o \in Orders : Has(p, "finalize", o) => Has(p, "pay", o)
  /\ WithdrawnBy(p) <= MaturedBy(p)

Legal(s) == Lawful(s) /\ \A n \in 0..Len(s) : Solid(First(s, n))

ChainSound ==
  /\ chain \in Seq(Tx) /\ applied \in Seq(Tx)
  /\ agreed \in 0..Len(applied) /\ agreed <= Len(chain)
  /\ First(applied, agreed) = First(chain, agreed)
  /\ closed \subseteq Orders /\ reorgs \in 0..MaxReorgs
  /\ Legal(chain) /\ Legal(applied)
  /\ agreed < Len(applied) => reorgs > 0

OrderRow == [status: {"awaiting_payment", "paid", "partially_refunded", "refunded", "orphaned"},
             paid: Nat, refunded: Nat, attempt: {"confirming", "paid"}]
CreditRow == [amount: Nat, withdrawn: Nat,
              status: {"none", "refundable", "matured", "withdrawn", "orphaned"}]
AwardRow == [points: Nat, canonical: BOOLEAN]
ReceiptStatus == {"none", "expected", "issued", "revoked", "orphaned"}

StoreTypes ==
  /\ orders \in [Orders -> OrderRow] /\ credits \in [Orders -> CreditRow]
  /\ awards \in [Orders -> AwardRow] /\ receipts \in [Orders -> ReceiptStatus]

\* What the projections of one order say together.
CreditSane(o) ==
  /\ credits[o].withdrawn <= credits[o].amount
  /\ o \notin Matured => credits[o].withdrawn = 0
  /\ Has(applied, "pay", o) => receipts[o] # "none"

BooksSound ==
  /\ StoreTypes /\ ProjectionIsHistory
  /\ \A q \in refused : q[2] \in {"TransferSingle", "MerchantWithdrawal"}
  /\ \A o \in Orders : CreditSane(o)

Kind(r) == IF r \in Refunds THEN "refund" ELSE "withdraw"

RowsSound ==
  /\ rows \in [Requests -> [status: {"none"} \cup Reserved,
                           hash: Refunds \cup Withdrawals \cup {NoTx}]]
  /\ ConfirmedByTheChain

IInv == ChainSound /\ BooksSound /\ RowsSound

-----------------------------------------------------------------------------
(* Calls of a sequence                                                     *)

LEMMA TxShape ==
  ASSUME NEW c \in Tx
  PROVE  /\ c = <<c[1], c[2]>>
         /\ \/ c[1] \in {"pay", "finalize"} /\ c[2] \in Orders
            \/ c[1] = "refund" /\ c[2] \in Refunds
            \/ c[1] = "withdraw" /\ c[2] \in Withdrawals
BY DEF Tx

LEMMA TxMade ==
  /\ \A o \in Orders : <<"pay", o>> \in Tx /\ <<"finalize", o>> \in Tx
  /\ \A r \in Refunds : <<"refund", r>> \in Tx
  /\ \A w \in Withdrawals : <<"withdraw", w>> \in Tx
BY DEF Tx

\* The first calls of a sequence.
LEMMA Cut ==
  ASSUME NEW s \in Seq(Tx), NEW n \in 0..Len(s)
  PROVE  /\ First(s, n) \in Seq(Tx) /\ Len(First(s, n)) = n
         /\ DOMAIN First(s, n) = 1..n /\ DOMAIN s = 1..Len(s) /\ Len(s) \in Nat
         /\ \A i \in 1..n : First(s, n)[i] = s[i] /\ i \in 1..Len(s) /\ s[i] \in Tx
<1>1. n \in Int /\ \A i \in 1..n : i \in 1..Len(s) /\ s[i] \in Tx
  BY LenProperties, ElementOfSeq
<1>2. /\ First(s, n) \in Seq(Tx) /\ Len(First(s, n)) = n
      /\ \A i \in 1..n : First(s, n)[i] = s[i]
  BY <1>1, SubSeqProperties DEF First
<1>3. DOMAIN First(s, n) = 1..n /\ DOMAIN s = 1..Len(s) /\ Len(s) \in Nat
  BY <1>2, LenProperties
<1> QED
  BY <1>1, <1>2, <1>3

LEMMA CutTwice ==
  ASSUME NEW s \in Seq(Tx), NEW n \in 0..Len(s), NEW m \in 0..n
  PROVE  First(First(s, n), m) = First(s, m)
<1>1. PICK p \in Seq(Tx) : p = First(s, n) /\ Len(p) = n /\ \A i \in 1..n : p[i] = s[i]
  BY Cut
<1>2. Len(s) \in Nat /\ m \in 0..Len(p) /\ m \in 0..Len(s)
  BY <1>1, LenProperties
<1>3. PICK u \in Seq(Tx) : u = First(p, m) /\ Len(u) = m /\ \A i \in 1..m : u[i] = p[i]
  BY <1>2, Cut
<1>4. PICK v \in Seq(Tx) : v = First(s, m) /\ Len(v) = m /\ \A i \in 1..m : v[i] = s[i]
  BY <1>2, Cut
<1>5. \A i \in 1..Len(u) : u[i] = v[i]
  BY <1>1, <1>2, <1>3, <1>4
<1>6. u = v
  BY <1>3, <1>4, <1>5, SeqEqual
<1> QED
  BY <1>1, <1>3, <1>4, <1>6

LEMMA CutWhole ==
  ASSUME NEW s \in Seq(Tx)
  PROVE  First(s, Len(s)) = s /\ Len(s) \in Nat
BY SubSeqFull, LenProperties DEF First

LEMMA Longer ==
  ASSUME NEW s \in Seq(Tx), NEW c \in Tx
  PROVE  /\ Append(s, c) \in Seq(Tx) /\ Len(Append(s, c)) = Len(s) + 1
         /\ \A n \in 0..Len(s) : First(Append(s, c), n) = First(s, n)
         /\ \A n \in 1..Len(s) : Append(s, c)[n] = s[n]
         /\ Append(s, c)[Len(s) + 1] = c
         /\ First(Append(s, c), Len(s) + 1) = Append(s, c)
<1>1. PICK t \in Seq(Tx) : t = Append(s, c) /\ Len(t) = Len(s) + 1
                           /\ (\A n \in 1..Len(s) : t[n] = s[n]) /\ t[Len(s) + 1] = c
  BY AppendProperties
<1>2. Len(s) \in Nat
  BY LenProperties
<1>3. ASSUME NEW n \in 0..Len(s) PROVE First(t, n) = First(s, n)
  <2>1. n \in 0..Len(t)
    BY <1>1, <1>2
  <2>2. PICK u \in Seq(Tx) : u = First(t, n) /\ Len(u) = n /\ \A i \in 1..n : u[i] = t[i]
    BY <2>1, Cut
  <2>3. PICK v \in Seq(Tx) : v = First(s, n) /\ Len(v) = n
                             /\ \A i \in 1..n : v[i] = s[i] /\ i \in 1..Len(s)
    BY Cut
  <2>4. \A i \in 1..Len(u) : u[i] = v[i]
    BY <1>1, <2>2, <2>3
  <2> QED
    BY <2>2, <2>3, <2>4, SeqEqual
<1>4. First(t, Len(s) + 1) = t
  BY <1>1, CutWhole
<1> QED
  BY <1>1, <1>3, <1>4

\* The first call after n others.
LEMMA CutNext ==
  ASSUME NEW s \in Seq(Tx), NEW n \in Nat, n < Len(s)
  PROVE  /\ s[n + 1] \in Tx /\ First(s, n) \in Seq(Tx) /\ n \in 0..Len(s) /\ n + 1 \in 0..Len(s)
         /\ First(s, n + 1) = Append(First(s, n), s[n + 1])
<1>1. Len(s) \in Nat /\ n \in 0..Len(s) /\ n + 1 \in 0..Len(s) /\ n + 1 \in 1..Len(s)
  BY LenProperties
<1>2. PICK m \in 1..Len(s) : m = n + 1
  BY <1>1
<1>3. PICK c \in Tx : c = s[m]
  BY <1>2, ElementOfSeq
<1>4. PICK p \in Seq(Tx) : p = First(s, n) /\ Len(p) = n /\ \A i \in 1..n : p[i] = s[i]
  BY <1>1, Cut
<1>5. PICK q \in Seq(Tx) : q = First(s, m) /\ Len(q) = m /\ \A i \in 1..m : q[i] = s[i]
  BY <1>1, <1>2, Cut
<1>6. PICK t \in Seq(Tx) : t = Append(p, c) /\ Len(t) = n + 1
                           /\ (\A i \in 1..n : t[i] = p[i]) /\ t[n + 1] = c
  <2>1. PICK t \in Seq(Tx) : t = Append(p, c) /\ Len(t) = Len(p) + 1
                            /\ (\A i \in 1..Len(p) : t[i] = p[i]) /\ t[Len(p) + 1] = c
    BY AppendProperties
  <2> QED
    BY <1>4, <2>1
<1>7. \A i \in 1..Len(q) : q[i] = t[i]
  <2>1. ASSUME NEW i \in 1..m PROVE q[i] = t[i]
    <3>1. CASE i \in 1..n
      BY <1>4, <1>5, <1>6, <3>1
    <3>2. i \in 1..n \/ i = m
      BY <1>2
    <3> QED
      BY <1>2, <1>3, <1>5, <1>6, <3>1, <3>2
  <2> QED
    BY <1>5, <2>1
<1>8. q = t
  BY <1>2, <1>5, <1>6, <1>7, SeqEqual
<1> QED
  BY <1>1, <1>2, <1>3, <1>4, <1>5, <1>6, <1>8

LEMMA HasMore ==
  ASSUME NEW s \in Seq(Tx), NEW c \in Tx, NEW kind, NEW id
  PROVE  Has(Append(s, c), kind, id) <=> Has(s, kind, id) \/ c = <<kind, id>>
<1>1. PICK t \in Seq(Tx) : t = Append(s, c) /\ Len(t) = Len(s) + 1
                           /\ (\A n \in 1..Len(s) : t[n] = s[n]) /\ t[Len(s) + 1] = c
  BY AppendProperties
<1>2. DOMAIN s = 1..Len(s) /\ DOMAIN t = 1..Len(t) /\ Len(s) \in Nat
  BY LenProperties
<1>3. ASSUME Has(t, kind, id) PROVE Has(s, kind, id) \/ c = <<kind, id>>
  <2>1. PICK n \in 1..(Len(s) + 1) : t[n] = <<kind, id>>
    BY <1>1, <1>2, <1>3 DEF Has
  <2>2. n \in 1..Len(s) \/ n = Len(s) + 1
    BY <1>2
  <2> QED
    BY <1>1, <1>2, <2>1, <2>2 DEF Has
<1>4. ASSUME Has(s, kind, id) \/ c = <<kind, id>> PROVE Has(t, kind, id)
  <2>1. CASE Has(s, kind, id)
    BY <1>1, <1>2, <2>1 DEF Has
  <2>2. Len(s) + 1 \in 1..(Len(s) + 1)
    BY <1>2
  <2>3. CASE c = <<kind, id>>
    BY <1>1, <1>2, <2>2, <2>3 DEF Has
  <2> QED
    BY <1>4, <2>1, <2>3
<1> QED
  BY <1>1, <1>3, <1>4

LEMMA HasFirst ==
  ASSUME NEW s \in Seq(Tx), NEW n \in 0..Len(s), NEW kind, NEW id, Has(First(s, n), kind, id)
  PROVE  Has(s, kind, id)
<1>1. PICK i \in DOMAIN First(s, n) : First(s, n)[i] = <<kind, id>>
  BY DEF Has
<1>2. i \in 1..n
  BY <1>1, Cut
<1>3. i \in DOMAIN s /\ s[i] = <<kind, id>>
  BY <1>1, <1>2, Cut
<1> QED
  BY <1>3 DEF Has

\* Of what a sequence has, a prefix has what is not in the rest.
LEMMA HasRest ==
  ASSUME NEW s \in Seq(Tx), NEW n \in 0..Len(s), NEW kind, NEW id, Has(s, kind, id),
         <<kind, id>> \notin {s[i] : i \in (n + 1)..Len(s)}
  PROVE  Has(First(s, n), kind, id)
<1>1. PICK i \in 1..Len(s) : s[i] = <<kind, id>>
  BY Cut DEF Has
<1>2. i \in 1..n
  <2>1. Len(s) \in Nat
    BY LenProperties
  <2>2. i \in 1..n \/ i \in (n + 1)..Len(s)
    BY <2>1
  <2> QED
    BY <1>1, <2>2
<1> QED
  BY <1>1, <1>2, Cut DEF Has

-----------------------------------------------------------------------------
(* Sums over calls                                                         *)

LEMMA SumType ==
  ASSUME NEW S \in SUBSET (Refunds \cup Withdrawals)
  PROVE  Total([r \in S |-> Amount[r]]) \in Nat
<1>1. IsFiniteSet(Refunds \cup Withdrawals)
  BY FiniteAssumption, FS_Union
<1>2. PICK f \in [Refunds \cup Withdrawals -> Nat] : f = Amount
  BY AmountAssumption
<1>3. Total([r \in S |-> f[r]]) \in 0..Total(f) /\ Total(f) \in Nat
  BY <1>1, TotalOfPart, TotalType
<1> QED
  BY <1>2, <1>3

LEMMA SumMore ==
  ASSUME NEW S \in SUBSET (Refunds \cup Withdrawals), NEW d \in (Refunds \cup Withdrawals) \ S
  PROVE  Total([r \in S \cup {d} |-> Amount[r]]) = Total([r \in S |-> Amount[r]]) + Amount[d]
<1>1. PICK D : D = Refunds \cup Withdrawals /\ IsFiniteSet(D)
  BY FiniteAssumption, FS_Union
<1>2. Amount \in [D -> Nat] /\ S \in SUBSET D /\ d \in D \ S
  BY <1>1, AmountAssumption
<1>3. PICK T : T = S \cup {d}
  OBVIOUS
<1>4. PICK f \in [D -> Nat] : f = Amount
  BY <1>2
<1>5. IsFiniteSet(D) /\ S \in SUBSET D /\ d \in D \ S
  BY <1>1, <1>2
<1>6. Total([r \in T |-> f[r]]) = Total([r \in S |-> f[r]]) + f[d]
  BY <1>3, <1>5, TotalWith
<1> QED
  BY <1>3, <1>4, <1>6

LEMMA SumPart ==
  ASSUME NEW T \in SUBSET (Refunds \cup Withdrawals), NEW S \in SUBSET T
  PROVE  Total([r \in S |-> Amount[r]]) <= Total([r \in T |-> Amount[r]])
<1>1. IsFiniteSet(T)
  BY FiniteAssumption, FS_Union, FS_Subset
<1>2. PICK f \in [T -> Nat] : f = [r \in T |-> Amount[r]]
  BY AmountAssumption
<1>3. Total([r \in S |-> f[r]]) \in 0..Total(f) /\ Total(f) \in Nat
  BY <1>1, TotalOfPart, TotalType
<1>4. [r \in S |-> f[r]] = [r \in S |-> Amount[r]]
  BY <1>2
<1> QED
  BY <1>2, <1>3, <1>4

LEMMA RefundedType ==
  ASSUME NEW s, NEW o
  PROVE  RefundedBy(s, o) \in Nat
<1>1. PICK S \in SUBSET (Refunds \cup Withdrawals) : S = {q \in RefundsOf(o) : Has(s, "refund", q)}
  BY DEF RefundsOf
<1>2. Total([r \in S |-> Amount[r]]) \in Nat
  BY SumType
<1> QED
  BY <1>1, <1>2 DEF RefundedBy

LEMMA RefundedSame ==
  ASSUME NEW s, NEW t, NEW o,
         \A r \in RefundsOf(o) : Has(s, "refund", r) <=> Has(t, "refund", r)
  PROVE  RefundedBy(s, o) = RefundedBy(t, o)
<1>1. {q \in RefundsOf(o) : Has(s, "refund", q)} = {q \in RefundsOf(o) : Has(t, "refund", q)}
  OBVIOUS
<1> QED
  BY <1>1 DEF RefundedBy

LEMMA RefundedNone ==
  ASSUME NEW s, NEW o, \A r \in RefundsOf(o) : ~Has(s, "refund", r)
  PROVE  RefundedBy(s, o) = 0
<1>1. {q \in RefundsOf(o) : Has(s, "refund", q)} = {}
  OBVIOUS
<1>2. Total([r \in {} |-> Amount[r]]) = 0
  <2>1. [r \in {} |-> Amount[r]] = [r \in {} |-> 0]
    OBVIOUS
  <2> QED
    BY <2>1, TotalZero
<1> QED
  BY <1>1, <1>2 DEF RefundedBy

LEMMA RefundedMore ==
  ASSUME NEW s \in Seq(Tx), NEW c \in Tx, NEW o
  PROVE  /\ ~(c[1] = "refund" /\ OrderOf[c[2]] = o) => RefundedBy(Append(s, c), o) = RefundedBy(s, o)
         /\ c[1] = "refund" /\ OrderOf[c[2]] = o /\ ~Has(s, "refund", c[2])
              => RefundedBy(Append(s, c), o) = RefundedBy(s, o) + Amount[c[2]]
<1>1. PICK t : t = Append(s, c)
  OBVIOUS
<1>2. \A r : Has(t, "refund", r) <=> Has(s, "refund", r) \/ c = <<"refund", r>>
  BY <1>1, HasMore
<1>3. ASSUME ~(c[1] = "refund" /\ OrderOf[c[2]] = o) PROVE RefundedBy(t, o) = RefundedBy(s, o)
  <2>1. \A r \in RefundsOf(o) : c # <<"refund", r>>
    BY <1>3 DEF RefundsOf
  <2> QED
    BY <1>2, <2>1, RefundedSame
<1>4. ASSUME c[1] = "refund", OrderOf[c[2]] = o, ~Has(s, "refund", c[2])
      PROVE  RefundedBy(t, o) = RefundedBy(s, o) + Amount[c[2]]
  <2>1. PICK d \in Refunds : c = <<"refund", d>> /\ d = c[2] /\ d \in RefundsOf(o)
    BY <1>4, TxShape DEF RefundsOf
  <2>2. PICK S \in SUBSET (Refunds \cup Withdrawals) :
          S = {q \in RefundsOf(o) : Has(s, "refund", q)}
    BY DEF RefundsOf
  <2>3. d \in (Refunds \cup Withdrawals) \ S
    BY <1>4, <2>1, <2>2
  <2>4. {q \in RefundsOf(o) : Has(t, "refund", q)} = S \cup {d}
    BY <1>2, <2>1, <2>2
  <2>5. Total([r \in S \cup {d} |-> Amount[r]]) = Total([r \in S |-> Amount[r]]) + Amount[d]
    BY <2>3, SumMore
  <2> QED
    BY <2>1, <2>2, <2>4, <2>5 DEF RefundedBy
<1> QED
  BY <1>1, <1>3, <1>4

LEMMA WithdrawnType ==
  ASSUME NEW s
  PROVE  WithdrawnBy(s) \in Nat
<1>1. PICK S \in SUBSET (Refunds \cup Withdrawals) : S = {v \in Withdrawals : Has(s, "withdraw", v)}
  OBVIOUS
<1>2. Total([r \in S |-> Amount[r]]) \in Nat
  BY SumType
<1> QED
  BY <1>1, <1>2 DEF WithdrawnBy

LEMMA WithdrawnMore ==
  ASSUME NEW s \in Seq(Tx), NEW c \in Tx
  PROVE  /\ c[1] # "withdraw" => WithdrawnBy(Append(s, c)) = WithdrawnBy(s)
         /\ c[1] = "withdraw" /\ ~Has(s, "withdraw", c[2])
              => WithdrawnBy(Append(s, c)) = WithdrawnBy(s) + Amount[c[2]]
<1>1. PICK t : t = Append(s, c)
  OBVIOUS
<1>2. \A r : Has(t, "withdraw", r) <=> Has(s, "withdraw", r) \/ c = <<"withdraw", r>>
  BY <1>1, HasMore
<1>3. ASSUME c[1] # "withdraw" PROVE WithdrawnBy(t) = WithdrawnBy(s)
  <2>1. {v \in Withdrawals : Has(t, "withdraw", v)} = {v \in Withdrawals : Has(s, "withdraw", v)}
    BY <1>2, <1>3
  <2> QED
    BY <2>1 DEF WithdrawnBy
<1>4. ASSUME c[1] = "withdraw", ~Has(s, "withdraw", c[2])
      PROVE  WithdrawnBy(t) = WithdrawnBy(s) + Amount[c[2]]
  <2>1. PICK d \in Withdrawals : c = <<"withdraw", d>> /\ d = c[2]
    BY <1>4, TxShape
  <2>2. PICK S \in SUBSET (Refunds \cup Withdrawals) :
          S = {v \in Withdrawals : Has(s, "withdraw", v)}
    OBVIOUS
  <2>3. d \in (Refunds \cup Withdrawals) \ S
    BY <1>4, <2>1, <2>2
  <2>4. {v \in Withdrawals : Has(t, "withdraw", v)} = S \cup {d}
    BY <1>2, <2>1, <2>2
  <2>5. Total([r \in S \cup {d} |-> Amount[r]]) = Total([r \in S |-> Amount[r]]) + Amount[d]
    BY <2>3, SumMore
  <2> QED
    BY <2>1, <2>2, <2>4, <2>5 DEF WithdrawnBy
<1> QED
  BY <1>1, <1>3, <1>4

\* What a refund of the next units takes from the merchant's part of an order.
LEMMA Parts ==
  ASSUME NEW o \in Orders, NEW x \in Nat, NEW y \in Nat, x <= y, y <= Price[o]
  PROVE  /\ Share(Fee[o], x, Price[o]) \in 0..Fee[o] /\ PlatformPart(o, x) \in Nat
         /\ MerchantPart(o, x) \in Nat /\ MerchantPart(o, y) \in Nat
         /\ MerchantPart(o, x) - MerchantPart(o, y)
              = (y - x) - (Share(Fee[o], y, Price[o]) - Share(Fee[o], x, Price[o]))
         /\ MerchantPart(o, y) <= MerchantPart(o, x)
<1>1. PICK p \in Nat \ {0} : p = Price[o]
  BY AmountAssumption
<1>2. PICK f \in Nat : f = Fee[o] /\ f <= p
  BY <1>1, AmountAssumption
<1>3. PICK u \in Nat : u = Share(f, x, p) /\ u <= f
  <2>1. x <= p
    BY <1>1
  <2> QED
    BY <2>1, ShareType, ShareAtMost
<1>4. PICK v \in Nat : v = Share(f, y, p) /\ v <= f
  BY <1>1, ShareType, ShareAtMost
<1>5. v - u <= y - x
  BY <1>2, <1>3, <1>4, ShareGrowth
<1>6. f - v <= p - y /\ f - u <= p - x
  <2>1. Share(f, p, p) = f
    BY ShareEnds
  <2>2. Share(f, p, p) - Share(f, y, p) <= p - y
    BY <1>1, <1>2, ShareGrowth
  <2>3. Share(f, p, p) - Share(f, x, p) <= p - x
    BY <1>1, <1>2, ShareGrowth
  <2> QED
    BY <1>3, <1>4, <2>1, <2>2, <2>3
<1>7. /\ PlatformPart(o, x) = f - u /\ MerchantPart(o, x) = p - x - (f - u)
      /\ MerchantPart(o, y) = p - y - (f - v)
  BY <1>1, <1>2, <1>3, <1>4 DEF PlatformPart, MerchantPart
<1> QED
  BY <1>1, <1>2, <1>3, <1>4, <1>5, <1>6, <1>7

Credited(s) == [o \in Orders |-> MerchantPart(o, RefundedBy(s, o))]

LEMMA CreditedType ==
  ASSUME NEW s, \A o \in Orders : RefundedBy(s, o) <= Price[o]
  PROVE  Credited(s) \in [Orders -> Nat]
<1>1. ASSUME NEW o \in Orders PROVE MerchantPart(o, RefundedBy(s, o)) \in Nat
  <2>1. PICK x \in Nat : x = RefundedBy(s, o)
    BY RefundedType
  <2> QED
    BY <2>1, Parts
<1> QED
  BY <1>1 DEF Credited

LEMMA MaturedType ==
  ASSUME NEW s, \A o \in Orders : RefundedBy(s, o) <= Price[o]
  PROVE  /\ MaturedBy(s) \in Nat
         /\ MaturedBy(s) = Total([o \in {p \in Orders : Has(s, "finalize", p)} |-> Credited(s)[o]])
<1>1. PICK S \in SUBSET Orders : S = {p \in Orders : Has(s, "finalize", p)}
  OBVIOUS
<1>2. PICK f \in [Orders -> Nat] : f = Credited(s)
  BY CreditedType
<1>3. Total([o \in S |-> f[o]]) \in 0..Total(f) /\ Total(f) \in Nat
  BY FiniteAssumption, TotalOfPart, TotalType
<1>4. [o \in S |-> f[o]] = [o \in S |-> MerchantPart(o, RefundedBy(s, o))]
  BY <1>2 DEF Credited
<1> QED
  BY <1>1, <1>2, <1>3, <1>4 DEF MaturedBy

LEMMA MaturedSame ==
  ASSUME NEW s, NEW t, \A o \in Orders : Has(s, "finalize", o) <=> Has(t, "finalize", o),
         \A o \in Orders : Has(s, "finalize", o) => RefundedBy(s, o) = RefundedBy(t, o)
  PROVE  MaturedBy(s) = MaturedBy(t)
<1>1. PICK S \in SUBSET Orders : S = {p \in Orders : Has(s, "finalize", p)}
                                 /\ S = {p \in Orders : Has(t, "finalize", p)}
  OBVIOUS
<1>2. [o \in S |-> MerchantPart(o, RefundedBy(s, o))] = [o \in S |-> MerchantPart(o, RefundedBy(t, o))]
  BY <1>1
<1> QED
  BY <1>1, <1>2 DEF MaturedBy

LEMMA MaturedMore ==
  ASSUME NEW s \in Seq(Tx), NEW o \in Orders, ~Has(s, "finalize", o),
         \A p \in Orders : RefundedBy(s, p) <= Price[p]
  PROVE  MaturedBy(Append(s, <<"finalize", o>>)) = MaturedBy(s) + MerchantPart(o, RefundedBy(s, o))
<1>1. PICK c \in Tx : c = <<"finalize", o>>
  BY TxMade
<1>2. PICK t : t = Append(s, c)
  OBVIOUS
<1>3. \A p : Has(t, "finalize", p) <=> Has(s, "finalize", p) \/ c = <<"finalize", p>>
  BY <1>2, HasMore
<1>4. \A p \in Orders : RefundedBy(t, p) = RefundedBy(s, p)
  BY <1>1, <1>2, RefundedMore
<1>5. PICK f \in [Orders -> Nat] : f = Credited(s)
  BY CreditedType
<1>6. PICK S \in SUBSET Orders : S = {p \in Orders : Has(s, "finalize", p)}
  OBVIOUS
<1>7. o \in Orders \ S /\ {p \in Orders : Has(t, "finalize", p)} = S \cup {o}
  BY <1>1, <1>3, <1>6
<1>8. Total([p \in S \cup {o} |-> f[p]]) = Total([p \in S |-> f[p]]) + f[o]
  <2>1. IsFiniteSet(Orders) /\ o \in Orders \ S
    BY <1>7, FiniteAssumption
  <2>2. PICK T : T = S \cup {o}
    OBVIOUS
  <2>3. Total([p \in T |-> f[p]]) = Total([p \in S |-> f[p]]) + f[o]
    BY <2>1, <2>2, TotalWith
  <2> QED
    BY <2>2, <2>3
<1>9. [p \in S \cup {o} |-> f[p]] = [p \in S \cup {o} |-> MerchantPart(p, RefundedBy(t, p))]
  BY <1>4, <1>5 DEF Credited
<1>10. [p \in S |-> f[p]] = [p \in S |-> MerchantPart(p, RefundedBy(s, p))]
  BY <1>5 DEF Credited
<1>11. f[o] = MerchantPart(o, RefundedBy(s, o))
  BY <1>5 DEF Credited
<1> QED
  BY <1>1, <1>2, <1>6, <1>7, <1>8, <1>9, <1>10, <1>11 DEF MaturedBy

-----------------------------------------------------------------------------
(* Legal sequences of calls                                                *)

LEMMA SolidMore ==
  ASSUME NEW p \in Seq(Tx), NEW c \in Tx, Solid(p), Callable(p, c)
  PROVE  Solid(Append(p, c))
<1>1. PICK t : t = Append(p, c)
  OBVIOUS
<1>2. \A kind, id : Has(t, kind, id) <=> Has(p, kind, id) \/ c = <<kind, id>>
  BY <1>1, HasMore
<1>3. ASSUME NEW o \in Orders PROVE RefundedBy(t, o) <= Price[o]
  <2>1. CASE ~(c[1] = "refund" /\ OrderOf[c[2]] = o)
    BY <1>1, <2>1, RefundedMore DEF Solid
  <2>2. CASE c[1] = "refund" /\ OrderOf[c[2]] = o
    <3>1. ~Has(p, "refund", c[2]) /\ RefundedBy(p, o) + Amount[c[2]] <= Price[o]
      BY <2>2 DEF Callable
    <3> QED
      BY <1>1, <2>2, <3>1, RefundedMore
  <2> QED
    BY <2>1, <2>2
<1>4. ASSUME NEW r \in Refunds, Has(t, "refund", r) PROVE Has(t, "pay", OrderOf[r])
  <2>1. CASE Has(p, "refund", r)
    BY <1>2, <2>1 DEF Solid
  <2>2. CASE c = <<"refund", r>>
    <3>1. c[1] = "refund" /\ c[2] = r
      BY <2>2
    <3> QED
      BY <1>2, <3>1 DEF Callable
  <2> QED
    BY <1>2, <1>4, <2>1, <2>2
<1>5. ASSUME NEW o \in Orders, Has(t, "finalize", o) PROVE Has(t, "pay", o)
  <2>1. CASE Has(p, "finalize", o)
    BY <1>2, <2>1 DEF Solid
  <2>2. CASE c = <<"finalize", o>>
    <3>1. c[1] = "finalize" /\ c[2] = o
      BY <2>2
    <3> QED
      BY <1>2, <3>1 DEF Callable
  <2> QED
    BY <1>2, <1>5, <2>1, <2>2
<1>6. WithdrawnBy(t) <= MaturedBy(t)
  <2>1. PICK x \in Nat : x = WithdrawnBy(p)
    BY WithdrawnType
  <2>2. PICK y \in Nat : y = MaturedBy(p) /\ x <= y
    BY <2>1, MaturedType DEF Solid
  <2>3. CASE c[1] = "finalize"
    <3>1. PICK o \in Orders : c = <<"finalize", o>> /\ ~Has(p, "finalize", o)
      BY <2>3, TxShape DEF Callable
    <3>2. MaturedBy(t) = y + MerchantPart(o, RefundedBy(p, o))
      BY <1>1, <2>2, <3>1, MaturedMore DEF Solid
    <3>3. PICK z \in Nat : z = RefundedBy(p, o) /\ z <= Price[o]
      BY RefundedType DEF Solid
    <3>4. MerchantPart(o, z) \in Nat
      BY <3>3, Parts
    <3>5. WithdrawnBy(t) = x
      BY <1>1, <2>1, <2>3, WithdrawnMore
    <3> QED
      BY <2>2, <3>2, <3>3, <3>4, <3>5
  <2>4. CASE c[1] # "finalize"
    <3>1. \A o \in Orders : Has(p, "finalize", o) <=> Has(t, "finalize", o)
      BY <1>2, <2>4
    <3>2. ASSUME NEW o \in Orders, Has(p, "finalize", o) PROVE RefundedBy(p, o) = RefundedBy(t, o)
      <4>1. ~(c[1] = "refund" /\ OrderOf[c[2]] = o)
        BY <3>2 DEF Callable
      <4> QED
        BY <1>1, <4>1, RefundedMore
    <3>3. MaturedBy(t) = y
      BY <2>2, <3>1, <3>2, MaturedSame
    <3>4. CASE c[1] # "withdraw"
      BY <1>1, <2>1, <2>2, <3>3, <3>4, WithdrawnMore
    <3>5. CASE c[1] = "withdraw"
      <4>1. ~Has(p, "withdraw", c[2]) /\ x + Amount[c[2]] <= y
        BY <2>1, <2>2, <3>5 DEF Callable
      <4>2. WithdrawnBy(t) = x + Amount[c[2]]
        BY <1>1, <2>1, <3>5, <4>1, WithdrawnMore
      <4> QED
        BY <3>3, <4>1, <4>2
    <3> QED
      BY <3>4, <3>5
  <2> QED
    BY <2>3, <2>4
<1> QED
  BY <1>1, <1>3, <1>4, <1>5, <1>6 DEF Solid

LEMMA LegalNow ==
  ASSUME NEW s \in Seq(Tx), Legal(s)
  PROVE  Solid(s)
<1>1. Len(s) \in 0..Len(s) /\ First(s, Len(s)) = s
  BY CutWhole
<1> QED
  BY <1>1 DEF Legal

LEMMA LegalMore ==
  ASSUME NEW s \in Seq(Tx), NEW c \in Tx, Legal(s), Callable(s, c)
  PROVE  Legal(Append(s, c))
<1>1. PICK t \in Seq(Tx) : /\ t = Append(s, c) /\ Len(t) = Len(s) + 1
                           /\ \A n \in 0..Len(s) : First(t, n) = First(s, n)
                           /\ \A n \in 1..Len(s) : t[n] = s[n]
                           /\ t[Len(s) + 1] = c /\ First(t, Len(s) + 1) = t
  BY Longer
<1>2. First(s, Len(s)) = s /\ Len(s) \in Nat
  BY CutWhole
<1>3. Solid(t)
  BY <1>1, LegalNow, SolidMore
<1>4. ASSUME NEW n \in 0..Len(t) PROVE Solid(First(t, n))
  <2>1. n \in 0..Len(s) \/ n = Len(s) + 1
    BY <1>1, <1>2
  <2> QED
    BY <1>1, <1>3, <2>1 DEF Legal
<1>5. ASSUME NEW n \in 0..(Len(t) - 1) PROVE Callable(First(t, n), t[n + 1])
  <2>1. n \in 0..Len(s) /\ (n = Len(s) \/ (n \in 0..(Len(s) - 1) /\ n + 1 \in 1..Len(s)))
    BY <1>1, <1>2
  <2>2. First(t, n) = First(s, n)
    BY <1>1, <2>1
  <2>3. CASE n = Len(s)
    BY <1>1, <1>2, <2>2, <2>3
  <2>4. CASE n \in 0..(Len(s) - 1) /\ n + 1 \in 1..Len(s)
    <3>1. t[n + 1] = s[n + 1]
      BY <1>1, <2>4
    <3> QED
      BY <2>2, <2>4, <3>1 DEF Legal, Lawful
  <2> QED
    BY <2>1, <2>3, <2>4
<1> QED
  BY <1>1, <1>4, <1>5 DEF Legal, Lawful

LEMMA LegalFirst ==
  ASSUME NEW s \in Seq(Tx), NEW k \in 0..Len(s), Legal(s)
  PROVE  Legal(First(s, k))
<1>1. PICK p \in Seq(Tx) : p = First(s, k) /\ Len(p) = k /\ \A i \in 1..k : p[i] = s[i]
  BY Cut
<1>2. Len(s) \in Nat /\ k \in Nat
  BY LenProperties
<1>3. \A n \in 0..k : First(p, n) = First(s, n) /\ n \in 0..Len(s)
  BY <1>1, <1>2, CutTwice
<1>4. \A n \in 0..Len(p) : Solid(First(p, n))
  BY <1>1, <1>3 DEF Legal
<1>5. ASSUME NEW n \in 0..(Len(p) - 1) PROVE Callable(First(p, n), p[n + 1])
  <2>1. n \in 0..k /\ n \in 0..(Len(s) - 1) /\ n + 1 \in 1..k
    BY <1>1, <1>2
  <2>2. First(p, n) = First(s, n) /\ p[n + 1] = s[n + 1]
    BY <1>1, <1>3, <2>1
  <2> QED
    BY <2>1, <2>2 DEF Legal, Lawful
<1> QED
  BY <1>1, <1>4, <1>5 DEF Legal, Lawful

LEMMA LegalNext ==
  ASSUME NEW s \in Seq(Tx), Legal(s), NEW n \in Nat, n < Len(s)
  PROVE  Callable(First(s, n), s[n + 1]) /\ Solid(First(s, n)) /\ Legal(First(s, n + 1))
<1>1. Len(s) \in Nat
  BY LenProperties
<1>2. n \in 0..(Len(s) - 1) /\ n \in 0..Len(s) /\ n + 1 \in 0..Len(s)
  BY <1>1
<1>3. Legal(First(s, n + 1))
  <2>1. PICK m \in 0..Len(s) : m = n + 1
    BY <1>2
  <2> QED
    BY <2>1, LegalFirst
<1> QED
  BY <1>2, <1>3 DEF Legal, Lawful

LEMMA LegalEmpty ==
  <<>> \in Seq(Tx) /\ Len(<<>>) = 0 /\ Legal(<<>>)
<1>1. PICK s \in Seq(Tx) : s = <<>> /\ Len(s) = 0
  BY EmptySeq
<1>2. \A kind, id : ~Has(s, kind, id)
  <2>1. DOMAIN s = {}
    BY <1>1, LenProperties
  <2> QED
    BY <2>1 DEF Has
<1>3. \A o : RefundedBy(s, o) = 0
  BY <1>2, RefundedNone
<1>4. \A o \in Orders : RefundedBy(s, o) <= Price[o]
  BY <1>3, AmountAssumption
<1>5. WithdrawnBy(s) = 0
  <2>1. {v \in Withdrawals : Has(s, "withdraw", v)} = {}
    BY <1>2
  <2>2. [r \in {} |-> Amount[r]] = [r \in {} |-> 0]
    OBVIOUS
  <2>3. Total([r \in {} |-> Amount[r]]) = 0
    BY <2>2, TotalZero
  <2> QED
    BY <2>1, <2>3 DEF WithdrawnBy
<1>6. MaturedBy(s) \in Nat
  BY <1>4, MaturedType
<1>7. Solid(s)
  BY <1>2, <1>4, <1>5, <1>6 DEF Solid
<1>8. ASSUME NEW n \in 0..Len(s) PROVE Solid(First(s, n))
  <2>1. n = Len(s)
    BY <1>1
  <2> QED
    BY <1>7, <2>1, CutWhole
<1>9. Lawful(s)
  <2>1. 0..(Len(s) - 1) = {}
    BY <1>1
  <2> QED
    BY <2>1 DEF Lawful
<1> QED
  BY <1>1, <1>8, <1>9 DEF Legal

-----------------------------------------------------------------------------
(* The chain and what is projected of it                                   *)

LEMMA ChainLengths ==
  ASSUME ChainSound
  PROVE  /\ Len(chain) \in Nat /\ Len(applied) \in Nat /\ agreed \in Nat
         /\ agreed \in 0..Len(chain) /\ agreed \in 0..Len(applied)
BY LenProperties DEF ChainSound

LEMMA MineSound ==
  ASSUME ChainSound, NEW kind, NEW id, <<kind, id>> \in Tx, Mine(kind, id),
         Callable(chain, <<kind, id>>)
  PROVE  ChainSound'
<1>1. PICK c \in Tx : c = <<kind, id>>
  OBVIOUS
<1>2. PICK s \in Seq(Tx) : s = chain /\ Legal(s) /\ agreed \in 0..Len(s) /\ Callable(s, c)
  BY <1>1, ChainLengths DEF ChainSound
<1>3. PICK t \in Seq(Tx) : t = Append(s, c) /\ Len(t) = Len(s) + 1 /\ Legal(t)
                           /\ \A n \in 0..Len(s) : First(t, n) = First(s, n)
  BY <1>2, Longer, LegalMore
<1>4. /\ chain' = t
      /\ closed' = closed /\ reorgs' = reorgs /\ agreed' = agreed /\ applied' = applied
  BY <1>1, <1>2, <1>3 DEF Mine, storeVars
<1>5. agreed <= Len(t) /\ First(t, agreed) = First(s, agreed)
  BY <1>2, <1>3, ChainLengths
<1> QED
  BY <1>2, <1>3, <1>4, <1>5 DEF ChainSound

LEMMA CallsSound ==
  ASSUME ChainSound,
         \/ \E o \in Orders : Pay(o) \/ FinalizeOrder(o)
         \/ \E r \in Refunds : Refund(r)
         \/ \E w \in Withdrawals : WithdrawMerchant(w)
  PROVE  ChainSound'
<1>1. ASSUME NEW o \in Orders, Pay(o) PROVE ChainSound'
  <2>1. Mine("pay", o) /\ ~Has(chain, "pay", o) /\ <<"pay", o>> \in Tx
    BY <1>1, TxMade DEF Pay, Mine
  <2>2. Callable(chain, <<"pay", o>>)
    BY <2>1 DEF Callable
  <2> QED
    BY <2>1, <2>2, MineSound
<1>2. ASSUME NEW o \in Orders, FinalizeOrder(o) PROVE ChainSound'
  <2>1. /\ Mine("finalize", o) /\ ~Has(chain, "finalize", o) /\ <<"finalize", o>> \in Tx
        /\ Has(chain, "pay", o)
    BY <1>2, TxMade DEF FinalizeOrder, Mine
  <2>2. Callable(chain, <<"finalize", o>>)
    BY <2>1 DEF Callable
  <2> QED
    BY <2>1, <2>2, MineSound
<1>3. ASSUME NEW r \in Refunds, Refund(r) PROVE ChainSound'
  <2>1. /\ Mine("refund", r) /\ ~Has(chain, "refund", r) /\ <<"refund", r>> \in Tx
        /\ Has(chain, "pay", OrderOf[r]) /\ ~Has(chain, "finalize", OrderOf[r])
        /\ RefundedBy(chain, OrderOf[r]) + Amount[r] <= Price[OrderOf[r]]
    BY <1>3, TxMade DEF Refund, Mine
  <2>2. Callable(chain, <<"refund", r>>)
    BY <2>1 DEF Callable
  <2> QED
    BY <2>1, <2>2, MineSound
<1>4. ASSUME NEW w \in Withdrawals, WithdrawMerchant(w) PROVE ChainSound'
  <2>1. /\ Mine("withdraw", w) /\ ~Has(chain, "withdraw", w) /\ <<"withdraw", w>> \in Tx
        /\ WithdrawnBy(chain) + Amount[w] <= MaturedBy(chain)
    BY <1>4, TxMade DEF WithdrawMerchant, Mine
  <2>2. Callable(chain, <<"withdraw", w>>)
    BY <2>1 DEF Callable
  <2> QED
    BY <2>1, <2>2, MineSound
<1> QED
  BY <1>1, <1>2, <1>3, <1>4

LEMMA ReorganiseSound ==
  ASSUME ChainSound, Reorganise
  PROVE  ChainSound'
<1>1. PICK s \in Seq(Tx) : s = chain /\ Legal(s) /\ Len(s) \in Nat /\ agreed \in 0..Len(s)
  BY ChainLengths DEF ChainSound
<1>2. PICK n \in 0..Len(s) : /\ chain' = First(s, n)
                             /\ agreed' = IF n < agreed THEN n ELSE agreed
  BY <1>1 DEF Reorganise, First
<1>3. PICK t \in Seq(Tx) : t = First(s, n) /\ Len(t) = n /\ Legal(t)
  BY <1>1, Cut, LegalFirst
<1>4. PICK a \in Seq(Tx) : a = applied /\ Legal(a) /\ Len(a) \in Nat /\ agreed \in 0..Len(a)
                           /\ First(a, agreed) = First(s, agreed)
  BY <1>1, ChainLengths DEF ChainSound
<1>5. PICK k \in Nat : k = agreed' /\ k \in 0..n /\ k \in 0..agreed /\ k \in 0..Len(a)
  BY <1>1, <1>2, <1>4
<1>6. First(t, k) = First(s, k)
  BY <1>3, <1>5, CutTwice
<1>7. First(First(a, agreed), k) = First(a, k) /\ First(First(s, agreed), k) = First(s, k)
  <2>1. PICK m \in Nat : m = agreed /\ m \in 0..Len(a) /\ m \in 0..Len(s) /\ k \in 0..m
    BY <1>1, <1>4, <1>5
  <2>2. First(First(a, m), k) = First(a, k)
    BY <2>1, CutTwice
  <2>3. First(First(s, m), k) = First(s, k)
    BY <2>1, CutTwice
  <2> QED
    BY <2>1, <2>2, <2>3
<1>8. reorgs' \in 1..MaxReorgs /\ closed' = closed /\ applied' = applied
  BY OtherAssumption DEF Reorganise, ChainSound
<1> QED
  BY <1>2, <1>3, <1>4, <1>5, <1>6, <1>7, <1>8 DEF ChainSound

\* What a projected call follows, and what holds of the calls before it.
LEMMA NextCall ==
  ASSUME ChainSound, NEW kind, NEW id, NextIs(kind, id)
  PROVE  /\ <<kind, id>> \in Tx /\ Callable(applied, <<kind, id>>) /\ Solid(applied)
         /\ applied' = Append(applied, <<kind, id>>) /\ applied' = First(chain, agreed + 1)
         /\ chain[agreed + 1] = <<kind, id>>
<1>1. PICK s \in Seq(Tx) : s = chain /\ Legal(s) /\ agreed \in Nat /\ agreed < Len(s)
  BY ChainLengths DEF ChainSound, NextIs
<1>2. applied = First(s, agreed)
  <2>1. First(applied, Len(applied)) = applied
    BY CutWhole DEF ChainSound
  <2> QED
    BY <1>1, <2>1 DEF ChainSound, NextIs
<1>3. PICK n \in Nat : n = agreed
  BY <1>1
<1>4. s[n + 1] \in Tx /\ First(s, n + 1) = Append(First(s, n), s[n + 1])
  BY <1>1, <1>3, CutNext
<1>5. Callable(First(s, n), s[n + 1]) /\ Solid(First(s, n))
  BY <1>1, <1>3, LegalNext
<1> QED
  BY <1>1, <1>2, <1>3, <1>4, <1>5 DEF NextIs

LEMMA NextSound ==
  ASSUME ChainSound, NEW kind, NEW id, NextIs(kind, id), UNCHANGED chainVars
  PROVE  ChainSound'
<1>1. PICK s \in Seq(Tx) : s = chain /\ Legal(s) /\ Len(s) \in Nat
  BY ChainLengths DEF ChainSound
<1>2. PICK k \in 0..Len(s) : k = agreed + 1 /\ k = agreed' /\ k \in Nat
  BY <1>1, ChainLengths DEF NextIs
<1>3. PICK t \in Seq(Tx) : t = First(s, k) /\ Len(t) = k /\ Legal(t)
  BY <1>1, Cut, LegalFirst
<1>4. First(t, k) = t
  BY <1>3, CutWhole
<1>5. applied' = t
  BY <1>1, <1>2, <1>3, NextCall
<1>6. chain' = s /\ closed' = closed /\ reorgs' = reorgs
  BY <1>1 DEF chainVars
<1> QED
  BY <1>1, <1>2, <1>3, <1>4, <1>5, <1>6 DEF ChainSound

LEMMA RewindSound ==
  ASSUME ChainSound, Rewind
  PROVE  ChainSound'
<1>1. PICK s \in Seq(Tx) : s = applied /\ Legal(s) /\ Len(s) \in Nat /\ agreed \in 0..Len(s)
  BY ChainLengths DEF ChainSound
<1>2. PICK k \in Nat : k = agreed /\ k \in 0..Len(s)
  BY <1>1
<1>3. PICK t \in Seq(Tx) : t = First(s, k) /\ Len(t) = k /\ Legal(t)
  BY <1>1, <1>2, Cut, LegalFirst
<1>4. First(t, k) = t
  BY <1>3, CutWhole
<1>5. /\ applied' = t /\ agreed' = k
      /\ chain' = chain /\ closed' = closed /\ reorgs' = reorgs
  BY <1>1, <1>2, <1>3 DEF Rewind, RewindTo, Kept, First, chainVars
<1> QED
  BY <1>1, <1>2, <1>3, <1>4, <1>5 DEF ChainSound

LEMMA ChainKept ==
  ASSUME ChainSound, UNCHANGED <<chain, reorgs, agreed, applied>>, closed' \subseteq Orders
  PROVE  ChainSound'
BY DEF ChainSound

LEMMA ProjectedNext ==
  ASSUME \/ \E o \in Orders : OrderPaid(o) \/ OrderFinalized(o)
         \/ \E r \in Refunds : OrderRefunded(r)
         \/ \E w \in Withdrawals : MerchantWithdrawal(w)
  PROVE  UNCHANGED chainVars /\ \E kind, id : NextIs(kind, id)
BY DEF OrderPaid, OrderFinalized, OrderRefunded, MerchantWithdrawal

LEMMA RequestsChangeRows ==
  ASSUME RequestNext
  PROVE  UNCHANGED <<chainVars, storeVars>>
BY DEF RequestNext, CreateRefund, CreateWithdrawal, StartSubmission, RegisterSubmission

LEMMA ChainStepKeepsBooks ==
  ASSUME ChainNext
  PROVE  UNCHANGED <<applied, refused, orders, credits, creditOrder, awards, receipts, rows>>
BY DEF ChainNext, Pay, Refund, FinalizeOrder, WithdrawMerchant, Mine, WindowCloses, Reorganise,
       storeVars

LEMMA ChainInit ==
  ASSUME Init
  PROVE  ChainSound
<1>1. chain = <<>> /\ applied = <<>> /\ agreed = 0 /\ reorgs = 0 /\ closed \subseteq Orders
  BY AmountAssumption DEF Init
<1> QED
  BY <1>1, LegalEmpty, OtherAssumption DEF ChainSound

LEMMA ChainStepSound ==
  ASSUME ChainSound, [Next]_vars
  PROVE  ChainSound'
<1>1. CASE ChainNext
  <2>1. CASE \E o \in Orders : WindowCloses(o)
    BY <2>1, ChainKept DEF WindowCloses, storeVars, ChainSound
  <2> QED
    BY <1>1, <2>1, CallsSound, ReorganiseSound DEF ChainNext
<1>2. CASE RequestNext
  BY <1>2, RequestsChangeRows, ChainKept DEF chainVars, storeVars, ChainSound
<1>3. CASE IndexerNext
  BY <1>3, ProjectedNext, NextSound, RewindSound DEF IndexerNext
<1>4. CASE UNCHANGED vars
  BY <1>4, ChainKept DEF vars, chainVars, storeVars, ChainSound
<1> QED
  BY <1>1, <1>2, <1>3, <1>4 DEF Next

-----------------------------------------------------------------------------
(* What the projections of an order say                                    *)

MaturedStatus == {"matured", "withdrawn"}

\* ProjectionIsHistory of the order o, for the calls s and given rows.
Tells(s, o, order, credit, award, receipt) ==
  /\ order.paid = (IF Has(s, "pay", o) THEN Price[o] ELSE 0)
  /\ order.refunded = RefundedBy(s, o)
  /\ order.status \in (IF ~Has(s, "pay", o) THEN {"awaiting_payment", "orphaned"}
                       ELSE IF RefundedBy(s, o) = 0 THEN {"paid"}
                       ELSE IF RefundedBy(s, o) = Price[o] THEN {"refunded"}
                       ELSE {"partially_refunded"})
  /\ order.attempt = "paid" <=> Has(s, "pay", o)
  /\ credit.amount = (IF Has(s, "pay", o) THEN MerchantPart(o, RefundedBy(s, o)) ELSE 0)
  /\ credit.status \in MaturedStatus <=> Has(s, "finalize", o)
  /\ award.points = (IF Has(s, "pay", o) THEN PointsLeft(o, RefundedBy(s, o)) ELSE 0)
  /\ receipt = "revoked" <=> Has(s, "pay", o) /\ RefundedBy(s, o) = Price[o]

Sane(s, o, credit, receipt) ==
  /\ credit.withdrawn <= credit.amount
  /\ credit.status \notin MaturedStatus => credit.withdrawn = 0
  /\ Has(s, "pay", o) => receipt # "none"

OrderSound(s, o, order, credit, award, receipt) ==
  Tells(s, o, order, credit, award, receipt) /\ Sane(s, o, credit, receipt)

LEMMA BooksByOrder ==
  BooksSound <=>
    /\ StoreTypes
    /\ \A q \in refused : q[2] \in {"TransferSingle", "MerchantWithdrawal"}
    /\ \A o \in Orders : OrderSound(applied, o, orders[o], credits[o], awards[o], receipts[o])
<1>1. \A o \in Orders : o \in Matured <=> credits[o].status \in MaturedStatus
  BY DEF Matured, MaturedStatus
<1>2. ProjectionIsHistory <=>
        \A o \in Orders : Tells(applied, o, orders[o], credits[o], awards[o], receipts[o])
  BY <1>1 DEF ProjectionIsHistory, Tells
<1>3. \A o \in Orders : CreditSane(o) <=> Sane(applied, o, credits[o], receipts[o])
  BY <1>1 DEF CreditSane, Sane
<1> QED
  BY <1>2, <1>3 DEF BooksSound, OrderSound

LEMMA BooksByOrderNext ==
  BooksSound' <=>
    /\ StoreTypes'
    /\ \A q \in refused' : q[2] \in {"TransferSingle", "MerchantWithdrawal"}
    /\ \A o \in Orders : OrderSound(applied', o, orders'[o], credits'[o], awards'[o], receipts'[o])
<1>1. \A o \in Orders : (o \in Matured)' <=> credits'[o].status \in MaturedStatus
  BY DEF Matured, MaturedStatus
<1>2. ProjectionIsHistory' <=>
        \A o \in Orders : Tells(applied', o, orders'[o], credits'[o], awards'[o], receipts'[o])
  BY <1>1 DEF ProjectionIsHistory, Tells
<1>3. \A o \in Orders : CreditSane(o)' <=> Sane(applied', o, credits'[o], receipts'[o])
  BY <1>1 DEF CreditSane, Sane
<1> QED
  BY <1>2, <1>3 DEF BooksSound, OrderSound

SameHistory(s, t, o) ==
  /\ Has(s, "pay", o) <=> Has(t, "pay", o)
  /\ Has(s, "finalize", o) <=> Has(t, "finalize", o)
  /\ RefundedBy(s, o) = RefundedBy(t, o)

\* An order whose history is as it was, whose credit may have been debited.
LEMMA SoundKept ==
  ASSUME NEW s, NEW t, NEW o, NEW order, NEW credit, NEW award, NEW receipt, NEW after,
         SameHistory(s, t, o), OrderSound(s, o, order, credit, award, receipt),
         after.amount = credit.amount, after.withdrawn <= after.amount,
         after.status \in MaturedStatus <=> credit.status \in MaturedStatus,
         after.status \notin MaturedStatus => after.withdrawn = 0
  PROVE  OrderSound(t, o, order, after, award, receipt)
BY DEF SameHistory, OrderSound, Tells, Sane

LEMMA SoundSame ==
  ASSUME NEW s, NEW t, NEW o, NEW order, NEW credit, NEW award, NEW receipt,
         SameHistory(s, t, o), OrderSound(s, o, order, credit, award, receipt)
  PROVE  OrderSound(t, o, order, credit, award, receipt)
BY DEF SameHistory, OrderSound, Tells, Sane

\* A call leaves the history of the other orders as it is.
LEMMA OthersSame ==
  ASSUME NEW s \in Seq(Tx), NEW c \in Tx, NEW o \in Orders,
         c[1] \in {"pay", "finalize"} => c[2] # o,
         c[1] = "refund" => OrderOf[c[2]] # o
  PROVE  SameHistory(s, Append(s, c), o)
<1>1. \A kind : Has(Append(s, c), kind, o) <=> Has(s, kind, o) \/ c = <<kind, o>>
  BY HasMore
<1>2. c # <<"pay", o>> /\ c # <<"finalize", o>>
  OBVIOUS
<1>3. RefundedBy(Append(s, c), o) = RefundedBy(s, o)
  BY RefundedMore
<1> QED
  BY <1>1, <1>2, <1>3 DEF SameHistory

-----------------------------------------------------------------------------
(* Projected events                                                        *)

LEMMA OrderTypes ==
  ASSUME StoreTypes, NEW o \in Orders
  PROVE  /\ orders[o] \in OrderRow /\ credits[o] \in CreditRow
         /\ awards[o] \in AwardRow /\ receipts[o] \in ReceiptStatus
BY DEF StoreTypes

\* An order that is not paid yet has no other history.
LEMMA UnpaidHistory ==
  ASSUME NEW s, Solid(s), NEW o \in Orders, ~Has(s, "pay", o)
  PROVE  RefundedBy(s, o) = 0 /\ ~Has(s, "finalize", o)
<1>1. \A r \in RefundsOf(o) : ~Has(s, "refund", r)
  BY DEF RefundsOf, Solid
<1> QED
  BY <1>1, RefundedNone DEF Solid

LEMMA NoRefundParts ==
  ASSUME NEW o \in Orders
  PROVE  /\ MerchantPart(o, 0) = Price[o] - Fee[o] /\ Price[o] - Fee[o] \in Nat
         /\ PointsLeft(o, 0) = Points[o] /\ Price[o] \in Nat \ {0} /\ Points[o] \in Nat
<1>1. PICK p \in Nat \ {0} : p = Price[o]
  BY AmountAssumption
<1>2. PICK f \in Nat : f = Fee[o] /\ f <= p
  BY <1>1, AmountAssumption
<1>3. PICK n \in Nat : n = Points[o]
  BY AmountAssumption
<1>4. Share(f, 0, p) = 0 /\ Share(n, 0, p) = 0
  BY ShareEnds
<1> QED
  BY <1>1, <1>2, <1>3, <1>4 DEF MerchantPart, PlatformPart, PointsLeft

LEMMA PaidBooks ==
  ASSUME ChainSound, BooksSound, NEW o \in Orders, OrderPaid(o)
  PROVE  BooksSound'
<1>1. PICK s \in Seq(Tx) : s = applied
  BY DEF ChainSound
<1>2. PICK c \in Tx : c = <<"pay", o>> /\ Callable(s, c) /\ Solid(s) /\ applied' = Append(s, c)
  BY <1>1, NextCall DEF OrderPaid
<1>3. ~Has(s, "pay", o)
  BY <1>2 DEF Callable
<1>4. RefundedBy(s, o) = 0 /\ ~Has(s, "finalize", o)
  BY <1>2, <1>3, UnpaidHistory
<1>5. /\ StoreTypes
      /\ \A q \in refused : q[2] \in {"TransferSingle", "MerchantWithdrawal"}
      /\ \A p \in Orders : OrderSound(s, p, orders[p], credits[p], awards[p], receipts[p])
  BY <1>1, BooksByOrder
<1>6. orders[o].status \in {"awaiting_payment", "orphaned"} /\ awards[o].points = 0
      /\ orders[o].refunded = 0
  BY <1>3, <1>4, <1>5 DEF OrderSound, Tells
<1> DEFINE order == [orders[o] EXCEPT !.status = "paid", !.paid = Price[o], !.attempt = "paid"]
           credit == [amount |-> Price[o] - Fee[o], withdrawn |-> 0, status |-> "refundable"]
           receipt == IF PassFound THEN "issued" ELSE "expected"
           award == IF Points[o] = 0 THEN awards[o] ELSE [points |-> Points[o], canonical |-> TRUE]
<1>7. /\ order \in OrderRow /\ order.status = "paid" /\ order.paid = Price[o]
      /\ order.attempt = "paid" /\ order.refunded = 0
  <2>1. orders[o] \in OrderRow /\ Price[o] \in Nat
    BY <1>5, OrderTypes, NoRefundParts
  <2> QED
    BY <1>6, <2>1 DEF OrderRow
<1>8. /\ credit \in CreditRow /\ credit.amount = Price[o] - Fee[o] /\ credit.withdrawn = 0
      /\ credit.status = "refundable"
  BY NoRefundParts DEF CreditRow
<1>9. receipt \in ReceiptStatus /\ receipt \notin {"revoked", "none"}
  BY DEF ReceiptStatus
<1>10. award \in AwardRow /\ award.points = Points[o]
  <2>1. awards[o] \in AwardRow /\ Points[o] \in Nat
    BY <1>5, OrderTypes, NoRefundParts
  <2> QED
    BY <1>6, <2>1 DEF AwardRow
<1>11. /\ orders' = [orders EXCEPT ![o] = order] /\ credits' = [credits EXCEPT ![o] = credit]
       /\ receipts' = [receipts EXCEPT ![o] = receipt]
  BY <1>6 DEF OrderPaid
<1>12. awards' = [awards EXCEPT ![o] = award]
  BY DEF OrderPaid
<1> HIDE DEF order, credit, receipt, award
<1>13. /\ StoreTypes' /\ orders'[o] = order /\ credits'[o] = credit /\ awards'[o] = award
       /\ receipts'[o] = receipt
       /\ \A p \in Orders \ {o} : /\ orders'[p] = orders[p] /\ credits'[p] = credits[p]
                                  /\ awards'[p] = awards[p] /\ receipts'[p] = receipts[p]
  <2>1. PICK x \in OrderRow : x = order
    BY <1>7
  <2>2. PICK y \in CreditRow : y = credit
    BY <1>8
  <2>3. PICK z \in AwardRow : z = award
    BY <1>10
  <2>4. PICK u \in ReceiptStatus : u = receipt
    BY <1>9
  <2>5. /\ orders' = [orders EXCEPT ![o] = x] /\ credits' = [credits EXCEPT ![o] = y]
        /\ awards' = [awards EXCEPT ![o] = z] /\ receipts' = [receipts EXCEPT ![o] = u]
    BY <1>11, <1>12, <2>1, <2>2, <2>3, <2>4
  <2>6. StoreTypes
    BY <1>5
  <2>7. /\ StoreTypes' /\ orders'[o] = x /\ credits'[o] = y /\ awards'[o] = z
        /\ receipts'[o] = u
        /\ \A p \in Orders \ {o} : /\ orders'[p] = orders[p] /\ credits'[p] = credits[p]
                                   /\ awards'[p] = awards[p] /\ receipts'[p] = receipts[p]
    BY <2>5, <2>6 DEF StoreTypes
  <2> QED
    BY <2>1, <2>2, <2>3, <2>4, <2>7
<1>14. \A q \in refused' : q[2] \in {"TransferSingle", "MerchantWithdrawal"}
  BY <1>5 DEF OrderPaid, Refuse
<1>15. PICK t : t = Append(s, c)
  OBVIOUS
<1>16. Has(t, "pay", o) /\ ~Has(t, "finalize", o) /\ RefundedBy(t, o) = 0
  BY <1>2, <1>4, <1>15, HasMore, RefundedMore
<1>17. OrderSound(t, o, order, credit, award, receipt)
  <2>1. Tells(t, o, order, credit, award, receipt)
    BY <1>7, <1>8, <1>9, <1>10, <1>16, NoRefundParts DEF Tells, MaturedStatus
  <2>2. Sane(t, o, credit, receipt)
    BY <1>8, <1>9, NoRefundParts DEF Sane
  <2> QED
    BY <2>1, <2>2 DEF OrderSound
<1>18. ASSUME NEW p \in Orders, p # o
       PROVE  OrderSound(t, p, orders'[p], credits'[p], awards'[p], receipts'[p])
  <2>1. SameHistory(s, t, p)
    BY <1>2, <1>15, <1>18, OthersSame
  <2> QED
    BY <1>5, <1>13, <1>18, <2>1, SoundSame
<1> QED
  BY <1>2, <1>13, <1>14, <1>15, <1>17, <1>18, BooksByOrderNext

\* A refund as the projector meets it: x is refunded before and y after.
LEMMA RefundMet ==
  ASSUME ChainSound, BooksSound, NEW r \in Refunds, NextIs("refund", r)
  PROVE  /\ RefundAgrees(r)
         /\ OrderOf[r] \in Orders /\ Amount[r] \in Nat \ {0}
         /\ RefundedBy(applied, OrderOf[r]) \in Nat
         /\ RefundedBy(applied, OrderOf[r]) + Amount[r] <= Price[OrderOf[r]]
         /\ Has(applied, "pay", OrderOf[r]) /\ ~Has(applied, "finalize", OrderOf[r])
         /\ ~Has(applied, "refund", r)
<1>1. PICK o \in Orders : o = OrderOf[r]
  BY AmountAssumption
<1>2. PICK a \in Nat \ {0} : a = Amount[r]
  BY AmountAssumption
<1>3. PICK s \in Seq(Tx) : s = applied
  BY DEF ChainSound
<1>4. PICK c \in Tx : c = <<"refund", r>> /\ Callable(s, c)
  BY <1>3, NextCall
<1>5. PICK x \in Nat : x = RefundedBy(s, o)
  BY RefundedType
<1>6. /\ Has(s, "pay", o) /\ ~Has(s, "finalize", o) /\ ~Has(s, "refund", r)
      /\ x + a <= Price[o]
  BY <1>1, <1>2, <1>4, <1>5 DEF Callable
<1>7. OrderSound(s, o, orders[o], credits[o], awards[o], receipts[o])
  BY <1>3, BooksByOrder
<1>8. orders[o].paid = Price[o] /\ orders[o].refunded = x /\ credits[o].amount = MerchantPart(o, x)
  BY <1>5, <1>6, <1>7 DEF OrderSound, Tells
<1>9. PICK y \in Nat : y = x + a /\ x <= y /\ y <= Price[o]
  BY <1>6
<1>10. PICK p \in Nat \ {0} : p = Price[o]
  BY AmountAssumption
<1>11. PICK u \in Int : u = Share(Fee[o], x, p)
  BY <1>9, <1>10, Parts
<1>12. PICK v \in Int : v = Share(Fee[o], y, p)
  <2>1. y <= y
    BY <1>9
  <2> QED
    BY <1>9, <1>10, <2>1, Parts
<1>13. /\ MerchantPart(o, x) \in Nat /\ MerchantPart(o, y) \in Nat
       /\ MerchantPart(o, x) - MerchantPart(o, y) = (y - x) - (v - u)
       /\ MerchantPart(o, y) <= MerchantPart(o, x)
  BY <1>9, <1>10, <1>11, <1>12, Parts
<1>14. a - (v - u) \in 0..MerchantPart(o, x)
  <2>1. PICK k \in Nat : k = MerchantPart(o, x)
    BY <1>13
  <2>2. PICK m \in Nat : m = MerchantPart(o, y)
    BY <1>13
  <2>3. k - m = (y - x) - (v - u) /\ m <= k /\ y - x = a
    BY <1>9, <1>13, <2>1, <2>2
  <2>4. a - (v - u) = k - m /\ k - m \in 0..k
    BY <2>3
  <2> QED
    BY <2>1, <2>4
<1>15. RefundAgrees(r)
  <2>1. /\ orders[o].paid = p /\ p > 0 /\ orders[o].refunded = x /\ y <= p
        /\ credits[o].amount = MerchantPart(o, x)
    BY <1>8, <1>9, <1>10
  <2>2. Share(Fee[o], x, Price[o]) = u /\ Share(Fee[o], y, Price[o]) = v
    BY <1>10, <1>11, <1>12
  <2>3. Amount[r] - (v - u) \in 0..credits[o].amount
    BY <1>2, <1>14, <2>1
  <2>4. RefundedBy(applied, OrderOf[r]) + Amount[r] = y /\ RefundedBy(applied, OrderOf[r]) = x
    BY <1>1, <1>2, <1>3, <1>5, <1>9
  <2>5. y = orders[o].refunded + Amount[r]
    BY <1>2, <1>9, <2>1
  <2>6. RefundAgrees(r) <=>
          /\ orders[o].paid > 0
          /\ y = orders[o].refunded + Amount[r] /\ y <= orders[o].paid
          /\ Share(Fee[o], y, Price[o]) - Share(Fee[o], x, Price[o])
               = Share(Fee[o], y, orders[o].paid) - Share(Fee[o], orders[o].refunded, orders[o].paid)
          /\ Amount[r] - (Share(Fee[o], y, Price[o]) - Share(Fee[o], x, Price[o]))
               \in 0..credits[o].amount
    BY <1>1, <2>4 DEF RefundAgrees
  <2>7. Share(Fee[o], orders[o].refunded, orders[o].paid) = u
        /\ Share(Fee[o], y, orders[o].paid) = v
    BY <1>11, <1>12, <2>1
  <2> QED
    BY <2>1, <2>2, <2>3, <2>5, <2>6, <2>7
<1> QED
  BY <1>1, <1>2, <1>3, <1>5, <1>6, <1>15

LEMMA PointsFall ==
  ASSUME NEW o \in Orders, NEW x \in Nat, NEW y \in Nat, x <= y, y <= Price[o]
  PROVE  /\ PointsLeft(o, x) \in Nat /\ PointsLeft(o, y) \in Nat
         /\ PointsLeft(o, y) <= PointsLeft(o, x)
<1>1. PICK p \in Nat \ {0} : p = Price[o]
  BY AmountAssumption
<1>2. PICK n \in Nat : n = Points[o]
  BY AmountAssumption
<1>3. PICK v \in Nat : v = Share(n, y, p) /\ v <= n
  BY <1>1, ShareType, ShareAtMost
<1>4. PICK u \in Nat : u = Share(n, x, p) /\ u <= v
  BY <1>1, <1>3, ShareType, ShareGrowth
<1> QED
  BY <1>1, <1>2, <1>3, <1>4 DEF PointsLeft

LEMMA RefundBooks ==
  ASSUME ChainSound, BooksSound, NEW r \in Refunds, OrderRefunded(r)
  PROVE  BooksSound'
<1>1. PICK o \in Orders : o = OrderOf[r]
  BY AmountAssumption
<1>2. PICK s \in Seq(Tx) : s = applied
  BY DEF ChainSound
<1>3. PICK c \in Tx : c = <<"refund", r>> /\ applied' = Append(s, c)
  BY <1>2, NextCall DEF OrderRefunded
<1>4. PICK a \in Nat \ {0} : a = Amount[r]
  BY AmountAssumption
<1>5. PICK x \in Nat : x = RefundedBy(s, o)
  BY RefundedType
<1>6. PICK y \in Nat : y = x + a /\ y > 0
  BY <1>5
<1>7. /\ RefundAgrees(r) /\ y <= Price[o] /\ x <= y
      /\ Has(s, "pay", o) /\ ~Has(s, "finalize", o) /\ ~Has(s, "refund", r)
  BY <1>1, <1>2, <1>4, <1>5, <1>6, RefundMet DEF OrderRefunded
<1>8. /\ StoreTypes
      /\ \A q \in refused : q[2] \in {"TransferSingle", "MerchantWithdrawal"}
      /\ \A p \in Orders : OrderSound(s, p, orders[p], credits[p], awards[p], receipts[p])
  BY <1>2, BooksByOrder
<1>9. /\ orders[o].paid = Price[o] /\ orders[o].attempt = "paid"
      /\ credits[o].amount = MerchantPart(o, x) /\ credits[o].status \notin MaturedStatus
      /\ credits[o].withdrawn = 0 /\ awards[o].points = PointsLeft(o, x)
      /\ receipts[o] # "none" /\ receipts[o] # "revoked"
  <2>1. OrderSound(s, o, orders[o], credits[o], awards[o], receipts[o])
    BY <1>8
  <2>2. x # Price[o]
    BY <1>4, <1>6, <1>7, NoRefundParts
  <2> QED
    BY <1>5, <1>7, <2>1, <2>2 DEF OrderSound, Tells, Sane
<1>10. PICK m \in Nat : m = MerchantPart(o, y)
  <2>1. y <= y
    BY <1>6
  <2> QED
    BY <1>7, <2>1, Parts
<1>11. PICK k \in Nat : k = MerchantPart(o, x) /\ k - (k - m) = m
  BY <1>7, <1>10, Parts
<1>12. PICK left \in Nat : left = PointsLeft(o, y)
  BY <1>7, PointsFall
<1>13. PICK held \in Nat : held = PointsLeft(o, x) /\ left <= held
  BY <1>7, <1>12, PointsFall
<1> DEFINE order == [orders[o] EXCEPT !.refunded = y,
             !.status = IF y = orders[o].paid THEN "refunded" ELSE "partially_refunded"]
           credit == [credits[o] EXCEPT !.amount = @ - (k - m)]
           award == [awards[o] EXCEPT !.points = IF held - left > 0 /\ left + (held - left) = @ THEN left ELSE @]
           receipt == IF y = Price[o] THEN "revoked" ELSE receipts[o]
<1>14. /\ order \in OrderRow /\ order.paid = Price[o] /\ order.attempt = "paid" /\ order.refunded = y
       /\ order.status = IF y = Price[o] THEN "refunded" ELSE "partially_refunded"
  <2>1. orders[o] \in OrderRow
    BY <1>8, OrderTypes
  <2> QED
    BY <1>9, <2>1 DEF OrderRow
<1>15. /\ credit \in CreditRow /\ credit.amount = m /\ credit.withdrawn = 0
       /\ credit.status \notin MaturedStatus
  <2>1. credits[o] \in CreditRow
    BY <1>8, OrderTypes
  <2> QED
    BY <1>9, <1>11, <2>1 DEF CreditRow
<1>16. award \in AwardRow /\ award.points = left
  <2>1. awards[o] \in AwardRow
    BY <1>8, OrderTypes
  <2>2. awards[o].points = held
    BY <1>9, <1>13
  <2>3. (IF held - left > 0 /\ left + (held - left) = awards[o].points THEN left
                                                    ELSE awards[o].points) = left
    BY <1>13, <2>2
  <2>4. award = [awards[o] EXCEPT !.points = left]
    BY <2>3
  <2> QED
    BY <2>1, <2>4 DEF AwardRow
<1>17. receipt \in ReceiptStatus /\ receipt # "none" /\ (receipt = "revoked" <=> y = Price[o])
  BY <1>8, <1>9, OrderTypes DEF ReceiptStatus
<1>18. orders' = [orders EXCEPT ![o] = order] /\ credits' = [credits EXCEPT ![o] = credit]
  <2>1. /\ orders' = [orders EXCEPT ![o] = [@ EXCEPT !.refunded = y,
             !.status = IF y = orders[o].paid THEN "refunded" ELSE "partially_refunded"]]
        /\ credits' = [credits EXCEPT ![o].amount = @ - (MerchantPart(o, x) - MerchantPart(o, y))]
    BY <1>1, <1>2, <1>4, <1>5, <1>6, <1>7 DEF OrderRefunded
  <2> QED
    BY <1>8, <1>10, <1>11, <2>1 DEF StoreTypes
<1>19. awards' = [awards EXCEPT ![o] = award] /\ receipts' = [receipts EXCEPT ![o] = receipt]
  <2>1. /\ awards' = [awards EXCEPT ![o].points =
             IF PointsLeft(o, x) - PointsLeft(o, y) > 0
                /\ PointsLeft(o, y) + (PointsLeft(o, x) - PointsLeft(o, y)) = awards[o].points
             THEN PointsLeft(o, y) ELSE @]
        /\ receipts' = [receipts EXCEPT ![o] = IF y = Price[o] THEN "revoked" ELSE @]
    BY <1>1, <1>2, <1>4, <1>5, <1>6 DEF OrderRefunded
  <2> QED
    BY <1>8, <1>12, <1>13, <2>1 DEF StoreTypes
<1>20. \A q \in refused' : q[2] \in {"TransferSingle", "MerchantWithdrawal"}
  <2>1. refused' = refused \cup
          {<<chain[agreed + 1], e>> : e \in
             {e \in {"LoyaltyAdjusted"} : PointsLeft(o, x) - PointsLeft(o, y) > 0
                /\ ~(PointsLeft(o, y) + (PointsLeft(o, x) - PointsLeft(o, y)) = awards[o].points)}
             \cup {e \in {"OrderRefunded"} : ~RefundAgrees(r)}}
    BY <1>1, <1>2, <1>4, <1>5, <1>6 DEF OrderRefunded, Refuse
  <2>2. refused' = refused
    BY <1>7, <1>9, <1>12, <1>13, <2>1
  <2> QED
    BY <1>8, <2>2
<1> HIDE DEF order, credit, award, receipt
<1>21. /\ StoreTypes' /\ orders'[o] = order /\ credits'[o] = credit /\ awards'[o] = award
       /\ receipts'[o] = receipt
       /\ \A p \in Orders \ {o} : /\ orders'[p] = orders[p] /\ credits'[p] = credits[p]
                                  /\ awards'[p] = awards[p] /\ receipts'[p] = receipts[p]
  BY <1>8, <1>14, <1>15, <1>16, <1>17, <1>18, <1>19 DEF StoreTypes
<1>22. PICK t : t = Append(s, c)
  OBVIOUS
<1>23. Has(t, "pay", o) /\ ~Has(t, "finalize", o) /\ RefundedBy(t, o) = y
  <2>1. c[1] = "refund" /\ c[2] = r /\ OrderOf[c[2]] = o /\ c # <<"finalize", o>>
    BY <1>1, <1>3
  <2>2. RefundedBy(t, o) = RefundedBy(s, o) + Amount[c[2]]
    BY <1>7, <1>22, <2>1, RefundedMore
  <2> QED
    BY <1>4, <1>5, <1>6, <1>7, <1>22, <2>1, <2>2, HasMore
<1>24. OrderSound(t, o, order, credit, award, receipt)
  <2>1. y # 0
    BY <1>6
  <2>2. Tells(t, o, order, credit, award, receipt)
    BY <1>10, <1>12, <1>14, <1>15, <1>16, <1>17, <1>23, <2>1 DEF Tells
  <2>3. Sane(t, o, credit, receipt)
    BY <1>15, <1>17 DEF Sane
  <2> QED
    BY <2>2, <2>3 DEF OrderSound
<1>25. ASSUME NEW p \in Orders, p # o
       PROVE  OrderSound(t, p, orders'[p], credits'[p], awards'[p], receipts'[p])
  <2>1. SameHistory(s, t, p)
    BY <1>1, <1>3, <1>22, <1>25, OthersSame
  <2> QED
    BY <1>8, <1>21, <1>25, <2>1, SoundSame
<1> QED
  BY <1>3, <1>20, <1>21, <1>22, <1>24, <1>25, BooksByOrderNext

LEMMA FinalizeBooks ==
  ASSUME ChainSound, BooksSound, NEW o \in Orders, OrderFinalized(o)
  PROVE  BooksSound'
<1>1. PICK s \in Seq(Tx) : s = applied
  BY DEF ChainSound
<1>2. PICK c \in Tx : c = <<"finalize", o>> /\ Callable(s, c) /\ applied' = Append(s, c)
  BY <1>1, NextCall DEF OrderFinalized
<1>3. Has(s, "pay", o)
  BY <1>2 DEF Callable
<1>4. /\ StoreTypes
      /\ \A q \in refused : q[2] \in {"TransferSingle", "MerchantWithdrawal"}
      /\ \A p \in Orders : OrderSound(s, p, orders[p], credits[p], awards[p], receipts[p])
  BY <1>1, BooksByOrder
<1>5. PICK x \in Nat : x = RefundedBy(s, o)
  BY RefundedType
<1>6. OrderSound(s, o, orders[o], credits[o], awards[o], receipts[o])
  BY <1>4
<1>7. /\ orders[o].status \in {"paid", "partially_refunded", "refunded"}
      /\ orders[o].refunded = x /\ credits[o].amount = MerchantPart(o, x)
  BY <1>3, <1>5, <1>6 DEF OrderSound, Tells
<1> DEFINE credit == [credits[o] EXCEPT !.status = "matured"]
<1>8. /\ credit \in CreditRow /\ credit.amount = credits[o].amount
      /\ credit.withdrawn = credits[o].withdrawn /\ credit.status = "matured"
  <2>1. credits[o] \in CreditRow
    BY <1>4, OrderTypes
  <2> QED
    BY <2>1 DEF CreditRow
<1>9. credits' = [credits EXCEPT ![o] = credit] /\ refused' = refused
  <2>1. /\ credits' = [credits EXCEPT ![o].status = "matured"]
        /\ refused' = refused \cup {<<chain[agreed + 1], e>> : e \in {e \in {"OrderFinalized"} : FALSE}}
    BY <1>1, <1>5, <1>7 DEF OrderFinalized, Refuse
  <2>2. refused' = refused
    BY <2>1
  <2> QED
    BY <1>4, <2>1, <2>2 DEF StoreTypes
<1>10. orders' = orders /\ awards' = awards /\ receipts' = receipts
  BY DEF OrderFinalized
<1> HIDE DEF credit
<1>11. /\ StoreTypes' /\ credits'[o] = credit
       /\ \A p \in Orders \ {o} : credits'[p] = credits[p]
  BY <1>4, <1>8, <1>9, <1>10 DEF StoreTypes
<1>12. PICK t : t = Append(s, c)
  OBVIOUS
<1>13. (Has(t, "pay", o) <=> Has(s, "pay", o)) /\ Has(t, "finalize", o) /\ RefundedBy(t, o) = x
  BY <1>2, <1>5, <1>12, HasMore, RefundedMore
<1>14. OrderSound(t, o, orders[o], credit, awards[o], receipts[o])
  <2>1. credit.status \in MaturedStatus
    BY <1>8 DEF MaturedStatus
  <2>2. Tells(t, o, orders[o], credit, awards[o], receipts[o])
    BY <1>5, <1>6, <1>8, <1>13, <2>1 DEF OrderSound, Tells
  <2>3. Sane(t, o, credit, receipts[o])
    BY <1>6, <1>8, <1>13, <2>1 DEF OrderSound, Sane
  <2> QED
    BY <2>2, <2>3 DEF OrderSound
<1>15. ASSUME NEW p \in Orders, p # o
       PROVE  OrderSound(t, p, orders[p], credits'[p], awards[p], receipts[p])
  <2>1. SameHistory(s, t, p)
    BY <1>2, <1>12, <1>15, OthersSame
  <2> QED
    BY <1>4, <1>11, <1>15, <2>1, SoundSame
<1>16. \A p \in Orders :
         OrderSound(t, p, orders[p], credits'[p], awards[p], receipts[p])
  BY <1>11, <1>14, <1>15
<1> QED
  BY <1>2, <1>4, <1>9, <1>10, <1>11, <1>12, <1>16, BooksByOrderNext

LEMMA DebitType ==
  ASSUME NEW D \in SUBSET Orders, NEW free \in [D -> Nat], NEW x \in Nat, NEW o \in D
  PROVE  Debit(free, o, x) \in 0..free[o]
<1>1. PICK S \in SUBSET D : S = Older(o, DOMAIN free)
  BY DEF Older
<1>2. IsFiniteSet(D)
  BY FiniteAssumption, FS_Subset
<1>3. Total([p \in S |-> free[p]]) \in 0..Total(free) /\ Total(free) \in Nat
  BY <1>2, TotalOfPart, TotalType
<1>4. PICK n \in Nat : n = Total([p \in S |-> free[p]])
  BY <1>3
<1>5. Debit(free, o, x) = IF x - n <= 0 THEN 0 ELSE IF x - n < free[o] THEN x - n ELSE free[o]
  BY <1>1, <1>4 DEF Debit
<1>6. free[o] \in Nat
  OBVIOUS
<1> QED
  BY <1>4, <1>5, <1>6

LEMMA WithdrawnCredit ==
  ASSUME NEW credit \in CreditRow, NEW n \in Nat
  PROVE  /\ Withdrawn(credit, n) \in CreditRow
         /\ Withdrawn(credit, n).amount = credit.amount /\ Withdrawn(credit, n).withdrawn = n
         /\ Withdrawn(credit, n).status \in MaturedStatus
BY DEF Withdrawn, CreditRow, MaturedStatus

\* What an event of a withdrawal leaves of a credit.
LEMMA WithdrawalDebits ==
  ASSUME BooksSound, NEW w \in Withdrawals, MerchantWithdrawal(w)
  PROVE  /\ credits' \in [Orders -> CreditRow]
         /\ \A o \in Orders :
              /\ credits'[o].amount = credits[o].amount
              /\ credits'[o].withdrawn <= credits'[o].amount
              /\ credits'[o].status \in MaturedStatus <=> credits[o].status \in MaturedStatus
              /\ credits'[o].status \notin MaturedStatus => credits'[o].withdrawn = 0
<1>1. /\ StoreTypes
      /\ \A o \in Orders : OrderSound(applied, o, orders[o], credits[o], awards[o], receipts[o])
  BY BooksByOrder
<1>2. \A o \in Orders : /\ credits[o] \in CreditRow /\ credits[o].withdrawn <= credits[o].amount
                        /\ credits[o].status \notin MaturedStatus => credits[o].withdrawn = 0
  BY <1>1, OrderTypes DEF OrderSound, Sane
<1>3. CASE credits' = credits
  BY <1>1, <1>2, <1>3 DEF StoreTypes
<1>4. ASSUME credits' # credits
      PROVE  \E D \in SUBSET Orders : \E free \in [D -> Nat] :
               /\ \A o \in D : /\ free[o] = credits[o].amount - credits[o].withdrawn
                               /\ credits[o].status \in MaturedStatus
               /\ credits' = [o \in Orders |->
                    IF o \in D /\ Debit(free, o, Amount[w]) > 0
                    THEN Withdrawn(credits[o], credits[o].withdrawn + Debit(free, o, Amount[w]))
                    ELSE credits[o]]
  <2>1. PICK D \in SUBSET Orders : D = {o \in Matured : Cardinality(Older(o, Matured)) < CreditLimit}
    BY DEF Matured
  <2>2. \A o \in D : credits[o].status \in MaturedStatus
    BY <2>1 DEF Matured, MaturedStatus
  <2>3. \A o \in D : Free(o) = credits[o].amount - credits[o].withdrawn /\ Free(o) \in Nat
    BY <1>2 DEF Free, CreditRow
  <2>4. PICK free : free = [o \in D |-> Free(o)]
    OBVIOUS
  <2>5. free \in [D -> Nat]
    BY <2>3, <2>4
  <2>6. credits' = [o \in Orders |->
                    IF o \in D /\ Debit(free, o, Amount[w]) > 0
                    THEN Withdrawn(credits[o], credits[o].withdrawn + Debit(free, o, Amount[w]))
                    ELSE credits[o]]
    BY <1>4, <2>1, <2>4 DEF MerchantWithdrawal
  <2> QED
    BY <2>2, <2>3, <2>4, <2>5, <2>6
<1>5. ASSUME credits' # credits
      PROVE  \A o \in Orders :
              /\ credits'[o] \in CreditRow /\ credits'[o].amount = credits[o].amount
              /\ credits'[o].withdrawn <= credits'[o].amount
              /\ credits'[o].status \in MaturedStatus <=> credits[o].status \in MaturedStatus
              /\ credits'[o].status \notin MaturedStatus => credits'[o].withdrawn = 0
  <2>1. PICK D \in SUBSET Orders : \E free \in [D -> Nat] :
               /\ \A o \in D : /\ free[o] = credits[o].amount - credits[o].withdrawn
                               /\ credits[o].status \in MaturedStatus
               /\ credits' = [o \in Orders |->
                    IF o \in D /\ Debit(free, o, Amount[w]) > 0
                    THEN Withdrawn(credits[o], credits[o].withdrawn + Debit(free, o, Amount[w]))
                    ELSE credits[o]]
    BY <1>4, <1>5
  <2>2. PICK free \in [D -> Nat] :
               /\ \A o \in D : /\ free[o] = credits[o].amount - credits[o].withdrawn
                               /\ credits[o].status \in MaturedStatus
               /\ credits' = [o \in Orders |->
                    IF o \in D /\ Debit(free, o, Amount[w]) > 0
                    THEN Withdrawn(credits[o], credits[o].withdrawn + Debit(free, o, Amount[w]))
                    ELSE credits[o]]
    BY <2>1
  <2>3. PICK x \in Nat : x = Amount[w]
    BY AmountAssumption
  <2> SUFFICES ASSUME NEW o \in Orders
               PROVE  /\ credits'[o] \in CreditRow /\ credits'[o].amount = credits[o].amount
                      /\ credits'[o].withdrawn <= credits'[o].amount
                      /\ credits'[o].status \in MaturedStatus <=> credits[o].status \in MaturedStatus
                      /\ credits'[o].status \notin MaturedStatus => credits'[o].withdrawn = 0
    OBVIOUS
  <2>4. CASE o \in D /\ Debit(free, o, x) > 0
    <3>1. PICK d \in Nat : d = Debit(free, o, x) /\ d <= free[o]
      BY <2>4, DebitType
    <3>2. PICK y \in CreditRow : y = credits[o]
      BY <1>2
    <3>3. y.withdrawn \in Nat /\ y.amount \in Nat /\ y.withdrawn + d \in Nat
          /\ y.withdrawn + d <= y.amount /\ y.status \in MaturedStatus
      BY <2>2, <2>4, <3>1, <3>2 DEF CreditRow
    <3>4. PICK z \in CreditRow : /\ z = Withdrawn(y, y.withdrawn + d) /\ z.amount = y.amount
                                 /\ z.withdrawn = y.withdrawn + d /\ z.status \in MaturedStatus
      BY <3>3, WithdrawnCredit
    <3>5. credits'[o] = z
      BY <2>2, <2>3, <2>4, <3>1, <3>2, <3>4
    <3> QED
      BY <3>2, <3>3, <3>4, <3>5
  <2>5. CASE ~(o \in D /\ Debit(free, o, x) > 0)
    <3>1. credits'[o] = credits[o]
      BY <2>2, <2>3, <2>5
    <3> QED
      BY <1>2, <3>1
  <2> QED
    BY <2>4, <2>5
<1>6. ASSUME credits' # credits PROVE credits' \in [Orders -> CreditRow]
  <2>1. \E f : credits' = [o \in Orders |-> f[o]]
    <3>1. DOMAIN credits' = Orders /\ credits' = [o \in Orders |-> credits'[o]]
      BY <1>4, <1>6
    <3> QED
      BY <3>1
  <2> QED
    BY <1>5, <1>6, <2>1
<1> QED
  BY <1>3, <1>5, <1>6

LEMMA WithdrawBooks ==
  ASSUME ChainSound, BooksSound, NEW w \in Withdrawals, MerchantWithdrawal(w)
  PROVE  BooksSound'
<1>1. PICK s \in Seq(Tx) : s = applied
  BY DEF ChainSound
<1>2. PICK c \in Tx : c = <<"withdraw", w>> /\ applied' = Append(s, c)
  BY <1>1, NextCall DEF MerchantWithdrawal
<1>3. /\ StoreTypes
      /\ \A q \in refused : q[2] \in {"TransferSingle", "MerchantWithdrawal"}
      /\ \A p \in Orders : OrderSound(s, p, orders[p], credits[p], awards[p], receipts[p])
  BY <1>1, BooksByOrder
<1>4. orders' = orders /\ awards' = awards /\ receipts' = receipts
  BY DEF MerchantWithdrawal
<1>5. \A q \in refused' : q[2] \in {"TransferSingle", "MerchantWithdrawal"}
  BY <1>3 DEF MerchantWithdrawal, Refuse
<1>6. PICK t : t = Append(s, c)
  OBVIOUS
<1>7. ASSUME NEW o \in Orders
      PROVE  OrderSound(t, o, orders[o], credits'[o], awards[o], receipts[o])
  <2>1. SameHistory(s, t, o)
    BY <1>2, <1>6, OthersSame
  <2>2. PICK after : after = credits'[o]
    OBVIOUS
  <2>3. /\ after.amount = credits[o].amount /\ after.withdrawn <= after.amount
        /\ after.status \in MaturedStatus <=> credits[o].status \in MaturedStatus
        /\ after.status \notin MaturedStatus => after.withdrawn = 0
    BY <2>2, WithdrawalDebits
  <2>4. OrderSound(s, o, orders[o], credits[o], awards[o], receipts[o])
    BY <1>3
  <2> QED
    BY <2>1, <2>2, <2>3, <2>4, SoundKept
<1>8. StoreTypes'
  BY <1>3, <1>4, WithdrawalDebits DEF StoreTypes
<1> QED
  BY <1>2, <1>4, <1>5, <1>6, <1>7, <1>8, BooksByOrderNext

-----------------------------------------------------------------------------
(* The rewind                                                              *)

Quiet == \A q \in refused : q[2] \in {"TransferSingle", "MerchantWithdrawal"}

\* What is refunded up to the last projected event is all that is refunded.
LEMMA UpToLast ==
  ASSUME Quiet, NEW k \in Seq(Tx), NEW o, NEW event,
         event \notin {"TransferSingle", "MerchantWithdrawal"}
  PROVE  RefundedUpTo(k, o, event) = RefundedBy(k, o)
<1>1. PICK len \in Nat : len = Len(k) /\ DOMAIN k = 1..len
  BY LenProperties
<1>2. \A c : <<c, event>> \notin refused
  BY DEF Quiet
<1> DEFINE at == {n \in DOMAIN k : /\ \E r \in RefundsOf(o) : k[n] = <<"refund", r>>
                                   /\ <<k[n], event>> \notin refused}
<1>3. at \in SUBSET (1..len) /\ at = {n \in DOMAIN k : \E r \in RefundsOf(o) : k[n] = <<"refund", r>>}
  BY <1>1, <1>2
<1>4. RefundedUpTo(k, o, event) =
        IF at = {} THEN 0 ELSE RefundedBy(SubSeq(k, 1, CHOOSE n \in at : \A i \in at : i <= n), o)
  BY Zenon DEF RefundedUpTo
<1> HIDE DEF at
<1>5. CASE at = {}
  <2>1. \A r \in RefundsOf(o) : ~Has(k, "refund", r)
    BY <1>3, <1>5 DEF Has
  <2> QED
    BY <1>4, <1>5, <2>1, RefundedNone
<1>6. CASE at # {}
  <2>1. \E n \in at : \A i \in at : i <= n
    BY <1>1, <1>3, <1>6, GreatestOf
  <2>2. PICK m \in at : m = (CHOOSE n \in at : \A i \in at : i <= n) /\ \A i \in at : i <= m
    BY <2>1
  <2>3. m \in 0..Len(k)
    BY <1>1, <1>3, <2>2
  <2>4. PICK p \in Seq(Tx) : p = First(k, m) /\ DOMAIN p = 1..m /\ \A i \in 1..m : p[i] = k[i]
    BY <2>3, Cut
  <2>5. ASSUME NEW r \in RefundsOf(o) PROVE Has(p, "refund", r) <=> Has(k, "refund", r)
    <3>1. ASSUME Has(k, "refund", r) PROVE Has(p, "refund", r)
      <4>1. PICK n \in 1..len : k[n] = <<"refund", r>>
        BY <1>1, <3>1 DEF Has
      <4>2. n \in at
        BY <1>1, <1>3, <4>1
      <4>3. n \in 1..m
        BY <2>2, <2>3, <4>1, <4>2
      <4> QED
        BY <2>4, <4>1, <4>3 DEF Has
    <3>2. ASSUME Has(p, "refund", r) PROVE Has(k, "refund", r)
      BY <2>3, <2>4, <3>2, HasFirst
    <3> QED
      BY <3>1, <3>2
  <2>6. RefundedBy(p, o) = RefundedBy(k, o)
    BY <2>5, RefundedSame
  <2> QED
    BY <1>4, <1>6, <2>2, <2>4, <2>6 DEF First
<1> QED
  BY <1>5, <1>6

LEMMA ProjectedThen ==
  ASSUME Quiet, NEW k, NEW o
  PROVE  /\ Projected(k, "pay", o) <=> Has(k, "pay", o)
         /\ Projected(k, "finalize", o) <=> Has(k, "finalize", o)
<1>1. EventOf["pay"] = "OrderPaid" /\ EventOf["finalize"] = "OrderFinalized"
  BY DEF EventOf
<1>2. \A c : <<c, "OrderPaid">> \notin refused /\ <<c, "OrderFinalized">> \notin refused
  BY DEF Quiet
<1> QED
  BY <1>1, <1>2 DEF Projected

\* The histories of a prefix k of s, when g is the rest.
Splits(s, k, g) ==
  /\ k \in Seq(Tx) /\ Solid(k)
  /\ \A kind, id : Has(k, kind, id) => Has(s, kind, id)
  /\ \A kind, id : Has(s, kind, id) /\ <<kind, id>> \notin g => Has(k, kind, id)

LEMMA PrefixSplits ==
  ASSUME NEW s \in Seq(Tx), Legal(s), NEW n \in 0..Len(s)
  PROVE  Splits(s, First(s, n), {s[i] : i \in (n + 1)..Len(s)})
<1>1. PICK k \in Seq(Tx) : k = First(s, n)
  BY Cut
<1>2. Solid(k)
  BY <1>1 DEF Legal
<1>3. ASSUME NEW kind, NEW id, Has(k, kind, id) PROVE Has(s, kind, id)
  BY <1>1, <1>3, HasFirst
<1>4. ASSUME NEW kind, NEW id, Has(s, kind, id), <<kind, id>> \notin {s[i] : i \in (n + 1)..Len(s)}
      PROVE  Has(k, kind, id)
  BY <1>1, <1>4, HasRest
<1> QED
  BY <1>1, <1>2, <1>3, <1>4 DEF Splits

LEMMA UntouchedSame ==
  ASSUME NEW s, NEW k, NEW g, Splits(s, k, g), NEW o \in Orders
  PROVE  /\ <<"pay", o>> \notin g /\ ~RefundLost(g, o) =>
              (Has(s, "pay", o) <=> Has(k, "pay", o)) /\ RefundedBy(s, o) = RefundedBy(k, o)
         /\ ~Touched(g, o) => SameHistory(s, k, o)
<1>1. ASSUME ~RefundLost(g, o) PROVE RefundedBy(s, o) = RefundedBy(k, o)
  <2>1. \A r \in RefundsOf(o) : Has(s, "refund", r) <=> Has(k, "refund", r)
    BY <1>1 DEF RefundLost, Splits
  <2> QED
    BY <2>1, RefundedSame
<1>2. <<"pay", o>> \notin g => (Has(s, "pay", o) <=> Has(k, "pay", o))
  BY DEF Splits
<1>3. <<"finalize", o>> \notin g => (Has(s, "finalize", o) <=> Has(k, "finalize", o))
  BY DEF Splits
<1> QED
  BY <1>1, <1>2, <1>3 DEF Touched, SameHistory

LEMMA RebuiltCreditTells ==
  ASSUME Quiet, NEW s, NEW k, NEW g, Splits(s, k, g), NEW o \in Orders
  PROVE  /\ RebuiltCredit(k, o) \in CreditRow /\ RebuiltCredit(k, o).withdrawn = 0
         /\ RebuiltCredit(k, o).amount =
              (IF Has(k, "pay", o) THEN MerchantPart(o, RefundedBy(k, o)) ELSE 0)
         /\ RebuiltCredit(k, o).status \in MaturedStatus <=> Has(k, "finalize", o)
<1>1. PICK x \in Nat : x = RefundedBy(k, o) /\ x <= Price[o]
  BY RefundedType DEF Splits, Solid
<1>2. RefundedUpTo(k, o, "OrderRefunded") = x
  BY <1>1, UpToLast DEF Splits
<1>3. MerchantPart(o, x) \in Nat
  BY <1>1, Parts
<1>4. CASE ~Has(k, "pay", o)
  <2>1. RebuiltCredit(k, o) = [amount |-> 0, withdrawn |-> 0, status |-> "orphaned"]
    BY <1>4, ProjectedThen DEF RebuiltCredit
  <2>2. ~Has(k, "finalize", o)
    BY <1>4 DEF Splits, Solid
  <2> QED
    BY <1>4, <2>1, <2>2 DEF CreditRow, MaturedStatus
<1>5. CASE Has(k, "pay", o)
  <2>1. RebuiltCredit(k, o) = [amount |-> MerchantPart(o, x), withdrawn |-> 0,
                    status |-> IF Has(k, "finalize", o) THEN "matured" ELSE "refundable"]
    BY <1>2, <1>5, ProjectedThen DEF RebuiltCredit
  <2> QED
    BY <1>1, <1>3, <1>5, <2>1 DEF CreditRow, MaturedStatus
<1> QED
  BY <1>4, <1>5

LEMMA RebuiltOrderTells ==
  ASSUME Quiet, NEW s, NEW k, NEW g, Splits(s, k, g), NEW o \in Orders,
         orders[o] \in OrderRow, Has(s, "pay", o) => orders[o].paid = Price[o],
         orders[o].attempt = "paid" <=> Has(s, "pay", o)
  PROVE  /\ RebuiltOrder(k, o) \in OrderRow
         /\ RebuiltOrder(k, o).paid = (IF Has(k, "pay", o) THEN Price[o] ELSE 0)
         /\ RebuiltOrder(k, o).refunded = RefundedBy(k, o)
         /\ RebuiltOrder(k, o).status \in
              (IF ~Has(k, "pay", o) THEN {"awaiting_payment", "orphaned"}
               ELSE IF RefundedBy(k, o) = 0 THEN {"paid"}
               ELSE IF RefundedBy(k, o) = Price[o] THEN {"refunded"} ELSE {"partially_refunded"})
         /\ RebuiltOrder(k, o).attempt = "paid" <=> Has(k, "pay", o)
<1>1. PICK x \in Nat : x = RefundedBy(k, o)
  BY RefundedType
<1>2. RefundedUpTo(k, o, "OrderRefunded") = x
  BY <1>1, UpToLast DEF Splits
<1>3. CASE ~Has(k, "pay", o)
  <2>1. RebuiltOrder(k, o) = [status |-> "orphaned", paid |-> 0, refunded |-> 0,
          attempt |-> IF orders[o].attempt = "paid" THEN "confirming" ELSE orders[o].attempt]
    BY <1>2, <1>3, ProjectedThen DEF RebuiltOrder
  <2>2. x = 0
    BY <1>1, <1>3, UnpaidHistory DEF Splits
  <2>3. RebuiltOrder(k, o) = [status |-> "orphaned", paid |-> 0, refunded |-> 0,
          attempt |-> "confirming"]
    BY <2>1 DEF OrderRow
  <2> QED
    BY <1>1, <1>3, <2>2, <2>3 DEF OrderRow
<1>4. CASE Has(k, "pay", o)
  <2>1. RebuiltOrder(k, o) = [orders[o] EXCEPT !.refunded = x,
          !.status = IF x = 0 THEN "paid"
                     ELSE IF x = orders[o].paid THEN "refunded" ELSE "partially_refunded"]
    BY <1>2, <1>4, ProjectedThen DEF RebuiltOrder
  <2>2. orders[o].paid = Price[o] /\ orders[o].attempt = "paid"
    BY <1>4 DEF Splits
  <2> QED
    BY <1>1, <1>4, <2>1, <2>2 DEF OrderRow
<1> QED
  BY <1>3, <1>4

LEMMA RebuiltAwardTells ==
  ASSUME Quiet, NEW s, NEW k, NEW g, Splits(s, k, g), NEW o \in Orders, NEW award,
         award = IF Has(k, "pay", o) /\ Points[o] > 0
                 THEN [points |-> PointsLeft(o, RefundedUpTo(k, o, "LoyaltyAdjusted")),
                       canonical |-> TRUE]
                 ELSE [points |-> 0, canonical |-> FALSE]
  PROVE  /\ award \in AwardRow
         /\ award.points = (IF Has(k, "pay", o) THEN PointsLeft(o, RefundedBy(k, o)) ELSE 0)
<1>1. PICK x \in Nat : x = RefundedBy(k, o) /\ 0 <= x /\ x <= Price[o]
  BY RefundedType DEF Splits, Solid
<1>2. RefundedUpTo(k, o, "LoyaltyAdjusted") = x
  BY <1>1, UpToLast DEF Splits
<1>3. PICK n \in Nat : n = PointsLeft(o, x) /\ n <= PointsLeft(o, 0)
  BY <1>1, PointsFall
<1>4. PointsLeft(o, 0) = Points[o] /\ Points[o] \in Nat
  BY NoRefundParts
<1>5. CASE Has(k, "pay", o) /\ Points[o] > 0
  BY <1>1, <1>2, <1>3, <1>5 DEF AwardRow
<1>6. CASE ~(Has(k, "pay", o) /\ Points[o] > 0)
  <2>1. award = [points |-> 0, canonical |-> FALSE]
    BY <1>6
  <2>2. Has(k, "pay", o) => n = 0
    BY <1>3, <1>4, <1>6
  <2> QED
    BY <1>1, <1>3, <2>1, <2>2 DEF AwardRow
<1> QED
  BY <1>5, <1>6

LEMMA RebuiltReceiptTells ==
  ASSUME Quiet, NEW s, NEW k, NEW g, Splits(s, k, g), NEW o \in Orders,
         receipts[o] \in ReceiptStatus, Has(s, "pay", o) => receipts[o] # "none"
  PROVE  /\ RebuiltReceipt(k, o) \in ReceiptStatus
         /\ RebuiltReceipt(k, o) = "revoked" <=> Has(k, "pay", o) /\ RefundedBy(k, o) = Price[o]
         /\ Has(k, "pay", o) => RebuiltReceipt(k, o) # "none"
<1>1. CASE receipts[o] = "none"
  <2>1. ~Has(k, "pay", o) /\ RebuiltReceipt(k, o) = "none"
    BY <1>1 DEF Splits, RebuiltReceipt
  <2> QED
    BY <2>1 DEF ReceiptStatus
<1>2. CASE receipts[o] # "none" /\ ~Has(k, "pay", o)
  <2>1. RebuiltReceipt(k, o) = "orphaned"
    BY <1>2, ProjectedThen DEF RebuiltReceipt
  <2> QED
    BY <1>2, <2>1 DEF ReceiptStatus
<1>3. CASE receipts[o] # "none" /\ Has(k, "pay", o)
  <2>1. RebuiltReceipt(k, o) = IF RefundedBy(k, o) = Price[o] THEN "revoked"
                               ELSE IF PassFound THEN "issued" ELSE "expected"
    BY <1>3, ProjectedThen DEF RebuiltReceipt
  <2> QED
    BY <1>3, <2>1 DEF ReceiptStatus
<1> QED
  BY <1>1, <1>2, <1>3

\* The refunds and payments of an order that keep its receipt as it is.
LEMMA ReceiptKept ==
  ASSUME NEW s, NEW k, NEW g, Splits(s, k, g), NEW o \in Orders, NEW receipt,
         <<"pay", o>> \notin g, ~RefundLost(g, o),
         receipt = "revoked" <=> Has(s, "pay", o) /\ RefundedBy(s, o) = Price[o],
         Has(s, "pay", o) => receipt # "none"
  PROVE  /\ receipt = "revoked" <=> Has(k, "pay", o) /\ RefundedBy(k, o) = Price[o]
         /\ Has(k, "pay", o) => receipt # "none"
BY UntouchedSame

LEMMA RewindParts ==
  ASSUME ChainSound, Rewind
  PROVE  \E k, g, c :
           /\ Splits(applied, k, g) /\ applied' = k
           /\ g = {applied[n] : n \in (agreed + 1)..Len(applied)}
           /\ c = RebuiltCredits(k, g)
           /\ RewindTo(k, g, c)
<1>1. PICK s \in Seq(Tx) : s = applied /\ Legal(s)
  BY DEF ChainSound
<1>2. PICK n \in 0..Len(s) : n = agreed
  BY <1>1 DEF ChainSound
<1>3. PICK k : k = First(s, n)
  OBVIOUS
<1>4. PICK g : g = {s[i] : i \in (n + 1)..Len(s)}
  OBVIOUS
<1>5. Splits(s, k, g)
  BY <1>1, <1>2, <1>3, <1>4, PrefixSplits
<1>6. Kept = k /\ Gone = g
  BY <1>1, <1>2, <1>3, <1>4 DEF Kept, Gone, First
<1>7. RewindTo(k, g, RebuiltCredits(k, g))
  BY <1>6 DEF Rewind
<1>8. applied' = k
  BY <1>7 DEF RewindTo
<1> QED
  BY <1>1, <1>2, <1>4, <1>5, <1>7, <1>8

\* What a rebuild leaves of the credit of an order.
RebuiltSane(k, o, credit) ==
  /\ credit \in CreditRow /\ credit.withdrawn <= credit.amount
  /\ credit.amount = (IF Has(k, "pay", o) THEN MerchantPart(o, RefundedBy(k, o)) ELSE 0)
  /\ credit.status \in MaturedStatus <=> Has(k, "finalize", o)
  /\ credit.status \notin MaturedStatus => credit.withdrawn = 0

LEMMA RebuiltCreditsSane ==
  ASSUME BooksSound, NEW k, NEW g, Splits(applied, k, g), NEW c, c = RebuiltCredits(k, g),
         NEW o \in Orders
  PROVE  RebuiltSane(k, o, c[o])
<1>1. /\ Quiet /\ StoreTypes
      /\ OrderSound(applied, o, orders[o], credits[o], awards[o], receipts[o])
  BY BooksByOrder DEF Quiet
<1>2. PICK s : s = applied
  OBVIOUS
<1>3. CASE Touched(g, o)
  <2>1. PICK credit : credit = RebuiltCredit(k, o)
    OBVIOUS
  <2>2. c[o] = credit
    BY <1>3, <2>1 DEF RebuiltCredits
  <2>3. /\ credit \in CreditRow /\ credit.withdrawn = 0
        /\ credit.amount = (IF Has(k, "pay", o) THEN MerchantPart(o, RefundedBy(k, o)) ELSE 0)
        /\ credit.status \in MaturedStatus <=> Has(k, "finalize", o)
    BY <1>1, <1>2, <2>1, RebuiltCreditTells
  <2>4. credit.amount \in Nat
    BY <2>3 DEF CreditRow
  <2> QED
    BY <2>2, <2>3, <2>4 DEF RebuiltSane
<1>4. CASE ~Touched(g, o)
  <2>1. c[o] = credits[o] /\ credits[o] \in CreditRow
    BY <1>1, <1>4, OrderTypes DEF RebuiltCredits
  <2>2. SameHistory(s, k, o)
    BY <1>2, <1>4, UntouchedSame
  <2> QED
    BY <1>1, <1>2, <2>1, <2>2 DEF SameHistory, OrderSound, Tells, Sane, RebuiltSane
<1> QED
  BY <1>3, <1>4

LEMMA StillWithdrawnType ==
  ASSUME NEW k
  PROVE  StillWithdrawn(k) \in Nat /\ StillWithdrawn(k) <= WithdrawnBy(k)
<1>1. PICK S \in SUBSET (Refunds \cup Withdrawals) : S = {v \in Withdrawals : Projected(k, "withdraw", v)}
  OBVIOUS
<1>2. PICK T \in SUBSET (Refunds \cup Withdrawals) : T = {v \in Withdrawals : Has(k, "withdraw", v)}
  OBVIOUS
<1>3. S \in SUBSET T
  BY <1>1, <1>2 DEF Projected
<1>4. Total([r \in S |-> Amount[r]]) \in Nat
  BY SumType
<1>5. Total([r \in S |-> Amount[r]]) <= Total([r \in T |-> Amount[r]])
  BY <1>3, SumPart
<1> QED
  BY <1>1, <1>2, <1>4, <1>5 DEF StillWithdrawn, WithdrawnBy

LEMMA ReplannedSane ==
  ASSUME NEW k, NEW c, \A o \in Orders : RebuiltSane(k, o, c[o]), NEW o \in Orders
  PROVE  RebuiltSane(k, o, Replanned(k, c)[o])
<1>1. PICK x \in Nat : x = StillWithdrawn(k)
  BY StillWithdrawnType
<1>2. PICK D \in SUBSET Orders : D = {p \in Orders : c[p].status \in MaturedStatus}
  OBVIOUS
<1>3. \A p \in Orders : c[p] \in CreditRow
  BY DEF RebuiltSane
<1>4. PICK free \in [D -> Nat] : free = MaturedOf(c) /\ \A p \in D : free[p] = c[p].amount
  <2>1. \A p \in D : c[p].amount \in Nat
    BY <1>3 DEF CreditRow
  <2>2. PICK f : f = [p \in D |-> c[p].amount]
    OBVIOUS
  <2>3. f = MaturedOf(c)
    BY <1>2, <2>2 DEF MaturedOf, MaturedStatus
  <2> QED
    BY <2>1, <2>2, <2>3
<1>5. CASE o \notin D
  BY <1>1, <1>4, <1>5 DEF Replanned
<1>6. CASE o \in D
  <2>1. PICK n \in Nat : n = Debit(free, o, x) /\ n <= free[o]
    BY <1>6, DebitType
  <2>2. PICK credit \in CreditRow : credit = c[o]
    BY <1>3
  <2>3. PICK after : after = Replanned(k, c)[o]
    OBVIOUS
  <2>4. after = IF n = 0 THEN [credit EXCEPT !.withdrawn = 0, !.status = "matured"]
                ELSE Withdrawn(credit, n)
    BY <1>1, <1>4, <1>6, <2>1, <2>2, <2>3 DEF Replanned
  <2>5. /\ after \in CreditRow /\ after.amount = credit.amount /\ after.withdrawn = n
        /\ after.status \in MaturedStatus
    <3>1. CASE n = 0
      BY <2>4, <3>1 DEF CreditRow, MaturedStatus
    <3>2. CASE n # 0
      BY <2>4, <3>2, WithdrawnCredit
    <3> QED
      BY <3>1, <3>2
  <2> QED
    BY <1>2, <1>4, <1>6, <2>1, <2>2, <2>3, <2>5 DEF RebuiltSane
<1> QED
  BY <1>5, <1>6

LEMMA RewindBooks ==
  ASSUME ChainSound, BooksSound, Rewind
  PROVE  BooksSound'
<1>1. PICK k, g, c : /\ Splits(applied, k, g) /\ applied' = k
                     /\ c = RebuiltCredits(k, g)
                     /\ RewindTo(k, g, c)
  BY RewindParts
<1>2. /\ Quiet /\ StoreTypes
      /\ \A o \in Orders : OrderSound(applied, o, orders[o], credits[o], awards[o], receipts[o])
  BY BooksByOrder DEF Quiet
<1>3. \A o \in Orders : RebuiltSane(k, o, c[o])
  BY <1>1, RebuiltCreditsSane
<1>4. \A o \in Orders : RebuiltSane(k, o, credits'[o])
  BY <1>1, <1>3, ReplannedSane DEF RewindTo
<1>5. credits' \in [Orders -> CreditRow]
  <2>1. c = [o \in Orders |-> c[o]]
    BY <1>1 DEF RebuiltCredits
  <2>2. credits' = [o \in Orders |-> credits'[o]]
    BY <1>1, <2>1 DEF RewindTo, Replanned
  <2> QED
    BY <1>4, <2>2 DEF RebuiltSane
<1>6. PICK s : s = applied
  OBVIOUS
<1>7. ASSUME NEW o \in Orders
      PROVE  /\ orders'[o] \in OrderRow
             /\ orders'[o].paid = (IF Has(k, "pay", o) THEN Price[o] ELSE 0)
             /\ orders'[o].refunded = RefundedBy(k, o)
             /\ orders'[o].status \in
                  (IF ~Has(k, "pay", o) THEN {"awaiting_payment", "orphaned"}
                   ELSE IF RefundedBy(k, o) = 0 THEN {"paid"}
                   ELSE IF RefundedBy(k, o) = Price[o] THEN {"refunded"}
                   ELSE {"partially_refunded"})
             /\ orders'[o].attempt = "paid" <=> Has(k, "pay", o)
  <2>1. OrderSound(s, o, orders[o], credits[o], awards[o], receipts[o]) /\ orders[o] \in OrderRow
    BY <1>2, <1>6, OrderTypes
  <2>2. CASE Touched(g, o)
    <3>1. orders'[o] = RebuiltOrder(k, o)
      BY <1>1, <2>2 DEF RewindTo
    <3>2. Has(s, "pay", o) => orders[o].paid = Price[o]
      BY <2>1 DEF OrderSound, Tells
    <3>3. orders[o].attempt = "paid" <=> Has(s, "pay", o)
      BY <2>1 DEF OrderSound, Tells
    <3>4. Splits(s, k, g)
      BY <1>1, <1>6
    <3> QED
      BY <1>2, <2>1, <3>1, <3>2, <3>3, <3>4, RebuiltOrderTells
  <2>3. CASE ~Touched(g, o)
    <3>1. orders'[o] = orders[o]
      BY <1>1, <2>3 DEF RewindTo
    <3>2. SameHistory(s, k, o)
      BY <1>1, <1>6, <2>3, UntouchedSame
    <3> QED
      BY <2>1, <3>1, <3>2 DEF SameHistory, OrderSound, Tells
  <2> QED
    BY <2>2, <2>3
<1>8. ASSUME NEW o \in Orders
      PROVE  /\ awards'[o] \in AwardRow
             /\ awards'[o].points = (IF Has(k, "pay", o) THEN PointsLeft(o, RefundedBy(k, o)) ELSE 0)
  <2>1. PICK award :
          /\ award = awards'[o]
          /\ award = IF Has(k, "pay", o) /\ Points[o] > 0
                 THEN [points |-> PointsLeft(o, RefundedUpTo(k, o, "LoyaltyAdjusted")),
                       canonical |-> TRUE]
                 ELSE [points |-> 0, canonical |-> FALSE]
    BY <1>1 DEF RewindTo
  <2> QED
    BY <1>1, <1>2, <1>6, <2>1, RebuiltAwardTells
<1>9. ASSUME NEW o \in Orders
      PROVE  /\ receipts'[o] \in ReceiptStatus
             /\ receipts'[o] = "revoked" <=> Has(k, "pay", o) /\ RefundedBy(k, o) = Price[o]
             /\ Has(k, "pay", o) => receipts'[o] # "none"
  <2>1. /\ OrderSound(s, o, orders[o], credits[o], awards[o], receipts[o])
        /\ receipts[o] \in ReceiptStatus /\ Splits(s, k, g)
    BY <1>1, <1>2, <1>6, OrderTypes
  <2>2. /\ receipts[o] = "revoked" <=> Has(s, "pay", o) /\ RefundedBy(s, o) = Price[o]
        /\ Has(s, "pay", o) => receipts[o] # "none"
    BY <2>1 DEF OrderSound, Tells, Sane
  <2>3. CASE <<"pay", o>> \in g \/ RefundLost(g, o)
    <3>1. receipts'[o] = RebuiltReceipt(k, o)
      BY <1>1, <2>3 DEF RewindTo
    <3> QED
      BY <1>2, <2>1, <2>2, <3>1, RebuiltReceiptTells
  <2>4. CASE <<"pay", o>> \notin g /\ ~RefundLost(g, o)
    <3>1. receipts'[o] = receipts[o]
      BY <1>1, <2>4 DEF RewindTo
    <3>2. PICK receipt : receipt = receipts[o]
      OBVIOUS
    <3>3. /\ receipt = "revoked" <=> Has(k, "pay", o) /\ RefundedBy(k, o) = Price[o]
          /\ Has(k, "pay", o) => receipt # "none"
      BY <2>1, <2>2, <2>4, <3>2, ReceiptKept
    <3> QED
      BY <2>1, <3>1, <3>2, <3>3
  <2> QED
    BY <2>3, <2>4
<1>10. StoreTypes'
  BY <1>1, <1>5, <1>7, <1>8, <1>9 DEF StoreTypes, RewindTo
<1>11. \A q \in refused' : q[2] \in {"TransferSingle", "MerchantWithdrawal"}
  BY <1>1, <1>2 DEF RewindTo, Quiet
<1>12. ASSUME NEW o \in Orders
       PROVE  OrderSound(k, o, orders'[o], credits'[o], awards'[o], receipts'[o])
  BY <1>4, <1>7, <1>8, <1>9 DEF OrderSound, Tells, Sane, RebuiltSane
<1> QED
  BY <1>1, <1>10, <1>11, <1>12, BooksByOrderNext

LEMMA BooksKept ==
  ASSUME BooksSound, UNCHANGED storeVars
  PROVE  BooksSound'
<1>1. /\ StoreTypes
      /\ \A q \in refused : q[2] \in {"TransferSingle", "MerchantWithdrawal"}
      /\ \A o \in Orders : OrderSound(applied, o, orders[o], credits[o], awards[o], receipts[o])
  BY BooksByOrder
<1>2. /\ applied' = applied /\ refused' = refused
      /\ orders' = orders /\ credits' = credits /\ awards' = awards /\ receipts' = receipts
  BY DEF storeVars
<1>3. StoreTypes'
  BY <1>1, <1>2 DEF StoreTypes
<1>4. \A o \in Orders : OrderSound(applied', o, orders'[o], credits'[o], awards'[o], receipts'[o])
  BY <1>1, <1>2
<1> QED
  BY <1>1, <1>2, <1>3, <1>4, BooksByOrderNext

LEMMA BooksInit ==
  ASSUME Init
  PROVE  BooksSound
<1>1. PICK s \in Seq(Tx) : s = applied /\ DOMAIN s = {}
  <2>1. PICK s \in Seq(Tx) : s = <<>> /\ Len(s) = 0
    BY EmptySeq
  <2>2. DOMAIN s = 1..0
    BY <2>1, LenProperties
  <2>3. DOMAIN s = {}
    BY <2>2
  <2> QED
    BY <2>1, <2>3 DEF Init
<1>2. StoreTypes
  BY <1>1 DEF Init, StoreTypes, NoCredit, OrderRow, CreditRow, AwardRow, ReceiptStatus
<1>3. refused = {}
  BY DEF Init
<1>4. ASSUME NEW o \in Orders
      PROVE  OrderSound(s, o, orders[o], credits[o], awards[o], receipts[o])
  <2>1. \A kind, id : ~Has(s, kind, id)
    BY <1>1 DEF Has
  <2>2. RefundedBy(s, o) = 0
    BY <2>1, RefundedNone
  <2>3. /\ orders[o] = [status |-> "awaiting_payment", paid |-> 0, refunded |-> 0,
                        attempt |-> "confirming"]
        /\ credits[o] = [amount |-> 0, withdrawn |-> 0, status |-> "none"]
        /\ awards[o] = [points |-> 0, canonical |-> FALSE] /\ receipts[o] = "none"
    BY DEF Init, NoCredit
  <2> QED
    BY <2>1, <2>2, <2>3 DEF OrderSound, Tells, Sane, MaturedStatus
<1> QED
  BY <1>1, <1>2, <1>3, <1>4, BooksByOrder

LEMMA BooksStepSound ==
  ASSUME ChainSound, BooksSound, [Next]_vars
  PROVE  BooksSound'
<1>1. CASE ChainNext
  <2>1. /\ applied' = applied /\ refused' = refused
        /\ orders' = orders /\ credits' = credits /\ awards' = awards /\ receipts' = receipts
    BY <1>1, ChainStepKeepsBooks
  <2>2. /\ StoreTypes
        /\ \A q \in refused : q[2] \in {"TransferSingle", "MerchantWithdrawal"}
        /\ \A o \in Orders : OrderSound(applied, o, orders[o], credits[o], awards[o], receipts[o])
    BY BooksByOrder
  <2>3. StoreTypes'
    BY <2>1, <2>2 DEF StoreTypes
  <2>4. \A o \in Orders : OrderSound(applied', o, orders'[o], credits'[o], awards'[o], receipts'[o])
    BY <2>1, <2>2
  <2> QED
    BY <2>1, <2>2, <2>3, <2>4, BooksByOrderNext
<1>2. CASE RequestNext
  BY <1>2, RequestsChangeRows, BooksKept
<1>3. CASE IndexerNext
  BY <1>3, PaidBooks, FinalizeBooks, RefundBooks, WithdrawBooks, RewindBooks DEF IndexerNext
<1>4. CASE UNCHANGED vars
  BY <1>4, BooksKept DEF vars
<1> QED
  BY <1>1, <1>2, <1>3, <1>4 DEF Next

-----------------------------------------------------------------------------
(* Requests and the calls that confirm them                                *)

\* At most one request is bound to a call, of its kind and amount.
LEMMA BoundOne ==
  ASSUME NEW S, NEW h
  PROVE  /\ \A r \in Bound(S, h) : r \in S \cap Requests /\ Amount[r] = Amount[h]
         /\ \A q, r \in Bound(S, h) : q = r
<1>1. PICK same : same = {r \in S \cap Requests : Amount[r] = Amount[h]}
  OBVIOUS
<1>2. \A T \in SUBSET same : IsFiniteSet(T)
  <2>1. PICK D : D = Refunds \cup Withdrawals /\ IsFiniteSet(D)
    BY FiniteAssumption, FS_Union
  <2>2. \A T \in SUBSET same : T \in SUBSET D
    BY <1>1, <2>1 DEF Requests
  <2> QED
    BY <2>1, <2>2, FS_Subset
<1>3. \A T \in SUBSET same : Cardinality(T) = 1 => \A q, r \in T : q = r
  BY <1>2, FS_Singleton
<1>4. PICK C \in SUBSET same : C = same \cap Looked(S)
  OBVIOUS
<1>5. Selected(C, h) \in SUBSET same /\ \A q, r \in Selected(C, h) : q = r
  <2>1. PICK exact \in SUBSET same : exact = {r \in C : rows[r].hash = h}
    OBVIOUS
  <2>2. Selected(C, h) = IF Cardinality(exact) = 1 THEN exact
                         ELSE IF exact = {} /\ Cardinality(C) = 1
                              THEN {r \in C : rows[r].hash = NoTx \/ rows[r].status = "orphaned"}
                              ELSE {}
    BY <2>1 DEF Selected
  <2> QED
    BY <1>3, <2>2
<1>6. PICK orphans \in SUBSET same : orphans = {r \in same : rows[r].status = "orphaned"}
  OBVIOUS
<1>7. Bound(S, h) = IF Selected(C, h) # {} THEN Selected(C, h)
                    ELSE IF Cardinality(orphans) = 1 THEN orphans ELSE {}
  BY <1>1, <1>4, <1>6 DEF Bound
<1>8. Bound(S, h) \in SUBSET same /\ \A q, r \in Bound(S, h) : q = r
  BY <1>3, <1>5, <1>7
<1> QED
  BY <1>1, <1>8

RowType == [status: {"none"} \cup Reserved, hash: Refunds \cup Withdrawals \cup {NoTx}]

Backed(s, r, row) ==
  row.status = "confirmed" =>
    row.hash # NoTx /\ Amount[row.hash] = Amount[r] /\ Has(s, Kind(r), row.hash)

Apart(f) == \A q, r \in Requests :
  f[q].status = "confirmed" /\ f[r].status = "confirmed" /\ q # r => f[q].hash # f[r].hash

LEMMA RowsByRequest ==
  RowsSound <=> /\ rows \in [Requests -> RowType] /\ Apart(rows)
                /\ \A r \in Requests : Backed(applied, r, rows[r])
BY DEF RowsSound, RowType, Apart, Backed, Kind, ConfirmedByTheChain

LEMMA RowsByRequestNext ==
  RowsSound' <=> /\ rows' \in [Requests -> RowType] /\ Apart(rows')
                 /\ \A r \in Requests : Backed(applied', r, rows'[r])
BY DEF RowsSound, RowType, Apart, Backed, Kind, ConfirmedByTheChain

\* The next call confirms what is bound to it.
LEMMA ConfirmSound ==
  ASSUME RowsSound, NEW s \in Seq(Tx), s = applied, NEW S, NEW h \in Refunds \cup Withdrawals,
         \A r \in S : Kind(r) = Kind(h), ~Has(s, Kind(h), h), <<Kind(h), h>> \in Tx,
         applied' = Append(s, <<Kind(h), h>>), Confirm(S, h)
  PROVE  RowsSound'
<1>1. PICK f \in [Requests -> RowType] :
        f = rows /\ Apart(f) /\ \A r \in Requests : Backed(s, r, f[r])
  BY RowsByRequest
<1>2. PICK B \in SUBSET Requests :
        /\ B = Bound(S, h) /\ \A q, r \in B : q = r
        /\ \A r \in B : r \in S /\ Amount[r] = Amount[h]
  BY BoundOne
<1>3. PICK t \in Seq(Tx) : t = applied' /\ \A kind, id : Has(t, kind, id) <=>
                                             Has(s, kind, id) \/ <<Kind(h), h>> = <<kind, id>>
  <2>1. PICK c \in Tx : c = <<Kind(h), h>>
    OBVIOUS
  <2>2. PICK t \in Seq(Tx) : t = Append(s, c)
    BY AppendProperties
  <2>3. \A kind, id : Has(t, kind, id) <=> Has(s, kind, id) \/ c = <<kind, id>>
    BY <2>2, HasMore
  <2> QED
    BY <2>1, <2>2, <2>3
<1>4. PICK g : g = rows' /\ g = [r \in Requests |-> IF r \in B
                      THEN [status |-> "confirmed", hash |-> h] ELSE f[r]]
  BY <1>1, <1>2 DEF Confirm
<1>5. [status |-> "confirmed", hash |-> h] \in RowType
  BY DEF RowType, Reserved
<1>6. g \in [Requests -> RowType]
  BY <1>4, <1>5
<1>7. ASSUME NEW r \in Requests PROVE Backed(t, r, g[r])
  <2>1. CASE r \in B
    <3>1. Kind(r) = Kind(h) /\ h # NoTx /\ Amount[h] = Amount[r]
      BY <1>2, <2>1, OtherAssumption
    <3>2. Has(t, Kind(r), h)
      BY <1>3, <3>1
    <3>3. g[r].hash = h
      BY <1>4, <2>1
    <3> QED
      BY <3>1, <3>2, <3>3 DEF Backed
  <2>2. CASE r \notin B
    <3>1. g[r] = f[r]
      BY <1>4, <2>2
    <3> QED
      BY <1>1, <1>3, <3>1 DEF Backed
  <2> QED
    BY <2>1, <2>2
<1>8. ASSUME NEW q \in Requests, NEW r \in Requests, q # r,
             g[q].status = "confirmed", g[r].status = "confirmed"
      PROVE  g[q].hash # g[r].hash
  <2>1. ~(q \in B /\ r \in B)
    BY <1>2, <1>8
  <2>2. ASSUME NEW p \in Requests, p \notin B, f[p].status = "confirmed" PROVE f[p].hash # h
    <3>1. Has(s, Kind(p), f[p].hash)
      BY <1>1, <2>2 DEF Backed
    <3>2. PICK c \in Tx : c = <<Kind(p), f[p].hash>>
      BY <3>1 DEF Has
    <3>3. Kind(h) = Kind(p) \/ f[p].hash # h
      BY <3>2, TxShape, NumberedAssumption DEF Kind
    <3> QED
      BY <3>1, <3>3
  <2>3. \A p \in Requests : g[p] = IF p \in B THEN [status |-> "confirmed", hash |-> h] ELSE f[p]
    BY <1>4
  <2>4. CASE q \notin B /\ r \notin B
    BY <1>1, <1>8, <2>3, <2>4 DEF Apart
  <2>5. CASE q \in B /\ r \notin B
    BY <1>8, <2>2, <2>3, <2>5
  <2>6. CASE q \notin B /\ r \in B
    BY <1>8, <2>2, <2>3, <2>6
  <2> QED
    BY <2>1, <2>4, <2>5, <2>6
<1>9. Apart(g)
  BY <1>8 DEF Apart
<1> QED
  BY <1>3, <1>4, <1>6, <1>7, <1>9, RowsByRequestNext

LEMMA RowsKept ==
  ASSUME RowsSound, rows' = rows, applied' = applied
  PROVE  RowsSound'
<1>1. /\ rows \in [Requests -> RowType] /\ Apart(rows)
      /\ \A r \in Requests : Backed(applied, r, rows[r])
  BY RowsByRequest
<1> QED
  BY <1>1, RowsByRequestNext

LEMMA CallKept ==
  ASSUME RowsSound, NEW s \in Seq(Tx), s = applied, NEW c \in Tx, applied' = Append(s, c),
         rows' = rows
  PROVE  RowsSound'
<1>1. /\ rows \in [Requests -> RowType] /\ Apart(rows)
      /\ \A r \in Requests : Backed(s, r, rows[r])
  BY RowsByRequest
<1>2. PICK t : t = Append(s, c)
  OBVIOUS
<1>3. \A kind, id : Has(s, kind, id) => Has(t, kind, id)
  BY <1>2, HasMore
<1>4. \A r \in Requests : Backed(t, r, rows[r])
  BY <1>1, <1>3 DEF Backed
<1> QED
  BY <1>1, <1>2, <1>4, RowsByRequestNext

\* A merchant's own step leaves the status unconfirmed.
LEMMA RequestRows ==
  ASSUME RowsSound, RequestNext
  PROVE  RowsSound'
<1>1. PICK f \in [Requests -> RowType] :
        f = rows /\ Apart(f) /\ \A r \in Requests : Backed(applied, r, f[r])
  BY RowsByRequest
<1>2. applied' = applied
  BY RequestsChangeRows DEF storeVars
<1>3. PICK r \in Requests, row \in RowType :
        rows' = [f EXCEPT ![r] = row] /\ row.status # "confirmed"
  <2>1. PICK r \in Requests :
          \/ r \in Refunds /\ CreateRefund(r)
          \/ r \in Withdrawals /\ CreateWithdrawal(r)
          \/ StartSubmission(r)
          \/ \E hash \in {NoTx, r} : \/ RegisterSubmission(r, "submitted", hash)
                                    \/ RegisterSubmission(r, "submitted_unknown", hash)
    BY DEF RequestNext
  <2>2. PICK old \in RowType : old = rows[r] /\ old = f[r]
    BY <1>1
  <2>3. \A row \in RowType : SetRow(r, row) /\ row.status # "confirmed" =>
          \E q \in Requests, new \in RowType :
            rows' = [f EXCEPT ![q] = new] /\ new.status # "confirmed"
    BY <1>1 DEF SetRow
  <2>4. CASE CreateRefund(r) \/ CreateWithdrawal(r)
    <3>1. PICK row \in RowType : row = [status |-> "prepared", hash |-> NoTx]
      BY DEF RowType, Reserved, Pending
    <3>2. SetRow(r, row) /\ row.status # "confirmed"
      BY <2>4, <3>1 DEF CreateRefund, CreateWithdrawal
    <3> QED
      BY <2>3, <3>2
  <2>5. CASE StartSubmission(r)
    <3>1. PICK row \in RowType : row = [old EXCEPT !.status = "submission_started"]
      BY DEF RowType, Reserved, Pending
    <3>2. SetRow(r, row) /\ row.status # "confirmed"
      BY <2>2, <2>5, <3>1 DEF StartSubmission, RowType
    <3> QED
      BY <2>3, <3>2
  <2>6. ASSUME NEW hash \in {NoTx, r}, NEW status \in {"submitted", "submitted_unknown"},
               RegisterSubmission(r, status, hash)
        PROVE  \E q \in Requests, new \in RowType :
                 rows' = [f EXCEPT ![q] = new] /\ new.status # "confirmed"
    <3>1. PICK known \in Refunds \cup Withdrawals \cup {NoTx} :
            known = IF hash = NoTx THEN old.hash ELSE hash
      BY DEF RowType, Requests
    <3>2. PICK row \in RowType : row = [status |-> status, hash |-> known]
      BY DEF RowType, Reserved, Pending
    <3>3. SetRow(r, row) /\ row.status # "confirmed"
      BY <2>2, <2>6, <3>1, <3>2 DEF RegisterSubmission
    <3> QED
      BY <2>3, <3>3
  <2> QED
    BY <2>1, <2>4, <2>5, <2>6
<1>4. PICK g \in [Requests -> RowType] : g = [f EXCEPT ![r] = row]
  OBVIOUS
<1>5. Apart(g) /\ \A q \in Requests : Backed(applied, q, g[q])
  BY <1>1, <1>3, <1>4 DEF Apart, Backed
<1> QED
  BY <1>2, <1>3, <1>4, <1>5, RowsByRequestNext

LEMMA RewindRows ==
  ASSUME ChainSound, RowsSound, Rewind
  PROVE  RowsSound'
<1>1. PICK k, g, c : Splits(applied, k, g) /\ applied' = k /\ RewindTo(k, g, c)
  BY RewindParts
<1>2. PICK f \in [Requests -> RowType] :
        f = rows /\ Apart(f) /\ \A r \in Requests : Backed(applied, r, f[r])
  BY RowsByRequest
<1>3. PICK h : h = rows' /\ h = [r \in Requests |->
        IF Unconfirmed(g, r) THEN [f[r] EXCEPT !.status = "orphaned"] ELSE f[r]]
  BY <1>1, <1>2 DEF RewindTo
<1>4. \A r \in Requests : [f[r] EXCEPT !.status = "orphaned"] \in RowType
  BY DEF RowType, Reserved, Pending
<1>5. h \in [Requests -> RowType]
  BY <1>3, <1>4
<1>6. ASSUME NEW r \in Requests, h[r].status = "confirmed"
      PROVE  h[r] = f[r] /\ <<Kind(r), f[r].hash>> \notin g
  <2>1. CASE Unconfirmed(g, r)
    <3>1. PICK row \in RowType : row = f[r] /\ h[r] = [row EXCEPT !.status = "orphaned"]
      BY <1>3, <2>1
    <3>2. h[r].status = "orphaned"
      BY <3>1 DEF RowType
    <3> QED
      BY <1>6, <3>2
  <2>2. CASE ~Unconfirmed(g, r)
    BY <1>2, <1>3, <1>6, <2>2 DEF Unconfirmed, Kind
  <2> QED
    BY <2>1, <2>2
<1>7. Apart(h)
  BY <1>2, <1>6 DEF Apart
<1>8. ASSUME NEW r \in Requests PROVE Backed(k, r, h[r])
  <2>1. Has(applied, Kind(r), f[r].hash) /\ <<Kind(r), f[r].hash>> \notin g
          => Has(k, Kind(r), f[r].hash)
    BY <1>1 DEF Splits
  <2> QED
    BY <1>2, <1>6, <2>1 DEF Backed
<1> QED
  BY <1>1, <1>3, <1>5, <1>7, <1>8, RowsByRequestNext

LEMMA RefundRows ==
  ASSUME ChainSound, RowsSound, NEW r \in Refunds, OrderRefunded(r)
  PROVE  RowsSound'
<1>1. PICK s \in Seq(Tx) : s = applied
  BY DEF ChainSound
<1>2. Kind(r) = "refund" /\ \A q \in RefundsOf(OrderOf[r]) : Kind(q) = Kind(r)
  BY DEF Kind, RefundsOf
<1>3. PICK c \in Tx : c = <<Kind(r), r>> /\ Callable(s, c) /\ applied' = Append(s, c)
  BY <1>1, <1>2, NextCall DEF OrderRefunded
<1>4. ~Has(s, Kind(r), r)
  BY <1>3 DEF Callable
<1>5. rows' = rows \/ Confirm(RefundsOf(OrderOf[r]), r)
  BY DEF OrderRefunded
<1>6. CASE rows' = rows
  BY <1>1, <1>3, <1>6, CallKept
<1>7. CASE Confirm(RefundsOf(OrderOf[r]), r)
  <2>1. PICK S : S = RefundsOf(OrderOf[r])
    OBVIOUS
  <2>2. Confirm(S, r) /\ \A q \in S : Kind(q) = Kind(r)
    BY <1>2, <1>7, <2>1
  <2> QED
    BY <1>1, <1>3, <1>4, <2>2, ConfirmSound
<1> QED
  BY <1>5, <1>6, <1>7

LEMMA WithdrawRows ==
  ASSUME ChainSound, RowsSound, NEW w \in Withdrawals, MerchantWithdrawal(w)
  PROVE  RowsSound'
<1>1. PICK s \in Seq(Tx) : s = applied
  BY DEF ChainSound
<1>2. Kind(w) = "withdraw" /\ \A q \in Withdrawals : Kind(q) = Kind(w)
  BY NumberedAssumption DEF Kind
<1>3. PICK c \in Tx : c = <<Kind(w), w>> /\ Callable(s, c) /\ applied' = Append(s, c)
  BY <1>1, <1>2, NextCall DEF MerchantWithdrawal
<1>4. ~Has(s, Kind(w), w)
  BY <1>3 DEF Callable
<1>5. rows' = rows \/ Confirm(Withdrawals, w)
  BY DEF MerchantWithdrawal
<1>6. CASE rows' = rows
  BY <1>1, <1>3, <1>6, CallKept
<1>7. CASE Confirm(Withdrawals, w)
  BY <1>1, <1>2, <1>3, <1>4, <1>7, ConfirmSound
<1> QED
  BY <1>5, <1>6, <1>7

LEMMA OrderRows ==
  ASSUME ChainSound, RowsSound, NEW o \in Orders, OrderPaid(o) \/ OrderFinalized(o)
  PROVE  RowsSound'
<1>1. PICK s \in Seq(Tx) : s = applied
  BY DEF ChainSound
<1>2. \E kind, id : NextIs(kind, id)
  BY DEF OrderPaid, OrderFinalized
<1>3. PICK c \in Tx : applied' = Append(s, c)
  BY <1>1, <1>2, NextCall
<1>4. rows' = rows
  BY DEF OrderPaid, OrderFinalized
<1> QED
  BY <1>1, <1>3, <1>4, CallKept

LEMMA RowsInit ==
  ASSUME Init
  PROVE  RowsSound
<1>1. [status |-> "none", hash |-> NoTx] \in RowType
  BY DEF RowType
<1>2. rows = [r \in Requests |-> [status |-> "none", hash |-> NoTx]]
  BY DEF Init
<1>3. rows \in [Requests -> RowType] /\ \A r \in Requests : rows[r].status = "none"
  BY <1>1, <1>2
<1> QED
  BY <1>3, RowsByRequest DEF Apart, Backed

LEMMA RowsStepSound ==
  ASSUME ChainSound, RowsSound, [Next]_vars
  PROVE  RowsSound'
<1>1. CASE ChainNext
  BY <1>1, ChainStepKeepsBooks, RowsKept
<1>2. CASE RequestNext
  BY <1>2, RequestRows
<1>3. CASE IndexerNext
  BY <1>3, OrderRows, RefundRows, WithdrawRows, RewindRows DEF IndexerNext
<1>4. CASE UNCHANGED vars
  BY <1>4, RowsKept DEF vars, storeVars
<1> QED
  BY <1>1, <1>2, <1>3, <1>4 DEF Next

-----------------------------------------------------------------------------
(* What is still withdrawn fits the credits that are left                  *)

LEMMA RewindFits ==
  ASSUME ChainSound, BooksSound, agreed < Len(applied)
  PROVE  PlanExists(Kept, RebuiltCredits(Kept, Gone))
<1>1. PICK s \in Seq(Tx) : s = applied /\ Legal(s)
  BY DEF ChainSound
<1>2. PICK n \in 0..Len(s) : n = agreed
  BY <1>1 DEF ChainSound
<1>3. PICK k, g : k = First(s, n) /\ g = {s[i] : i \in (n + 1)..Len(s)}
  OBVIOUS
<1>4. Splits(applied, k, g)
  BY <1>1, <1>3, PrefixSplits
<1>5. Kept = k /\ Gone = g
  BY <1>1, <1>2, <1>3 DEF Kept, Gone, First
<1>6. PICK c : c = RebuiltCredits(k, g)
  OBVIOUS
<1>7. \A o \in Orders : RebuiltSane(k, o, c[o])
  BY <1>4, <1>6, RebuiltCreditsSane
<1>8. Solid(k)
  BY <1>4 DEF Splits
<1>9. MaturedOf(c) = [o \in {p \in Orders : Has(k, "finalize", p)} |-> MerchantPart(o, RefundedBy(k, o))]
  <2>1. PICK D \in SUBSET Orders : /\ D = {p \in Orders : c[p].status \in {"matured", "withdrawn"}}
                                   /\ D = {p \in Orders : Has(k, "finalize", p)}
    BY <1>7 DEF RebuiltSane, MaturedStatus
  <2>2. \A o \in D : c[o].amount = MerchantPart(o, RefundedBy(k, o))
    BY <1>7, <1>8, <2>1 DEF RebuiltSane, Solid
  <2> QED
    BY <2>1, <2>2 DEF MaturedOf
<1>10. Total(MaturedOf(c)) = MaturedBy(k)
  BY <1>9 DEF MaturedBy
<1>11. PICK x \in Nat, y \in Nat, z \in Nat :
         x = StillWithdrawn(k) /\ y = WithdrawnBy(k) /\ z = MaturedBy(k) /\ x <= y /\ y <= z
  BY <1>8, StillWithdrawnType, WithdrawnType, MaturedType DEF Solid
<1>12. x <= z
  BY <1>11
<1> QED
  BY <1>5, <1>6, <1>10, <1>11, <1>12 DEF PlanExists

-----------------------------------------------------------------------------
LEMMA IInvInit == Init => IInv
BY ChainInit, BooksInit, RowsInit DEF IInv

LEMMA IInvNext == IInv /\ [Next]_vars => IInv'
BY ChainStepSound, BooksStepSound, RowsStepSound DEF IInv

\* Chain, books and rows are sound together: the inductive invariant of what follows.
THEOREM ProjectionSound == Spec => []IInv
BY IInvInit, IInvNext, PTL DEF Spec

\* Every variable has its type; what is projected agrees with the chain up to
\* the block the indexer last agreed on.
THEOREM TypeCorrect == Spec => []TypeOK
<1>1. IInv => TypeOK
  BY DEF IInv, ChainSound, BooksSound, RowsSound, StoreTypes, TypeOK, First, OrderRow, CreditRow,
         AwardRow, ReceiptStatus
<1> QED
  BY <1>1, ProjectionSound, PTL

\* Orders, credits, points and receipts say what the contract did in the
\* transactions that are projected, whatever was projected, rewound and projected
\* again before, and however often the chain reorganised.
THEOREM RowsAreHistory == Spec => []ProjectionIsHistory
<1>1. IInv => ProjectionIsHistory
  BY DEF IInv, BooksSound
<1> QED
  BY <1>1, ProjectionSound, PTL

\* A refund or withdrawal is confirmed by a call of the projected chain, of its
\* kind and its amount, that confirms no other.
THEOREM ConfirmedByACall == Spec => []ConfirmedByTheChain
<1>1. IInv => ConfirmedByTheChain
  BY DEF IInv, RowsSound
<1> QED
  BY <1>1, ProjectionSound, PTL

\* The rewind of the indexer finds a plan for what is still withdrawn after any
\* number of reorganisations: it never throws.
THEOREM RewindNeverThrows == Spec => []RewindPossible
<1>1. IInv => RewindPossible
  BY RewindFits DEF IInv, RewindPossible
<1> QED
  BY <1>1, ProjectionSound, PTL

-----------------------------------------------------------------------------
(* The order of the credits.  creditOrder lists every credit once, so a    *)
(* plan that goes through it reaches each of them.                         *)

CreditsListed ==
  /\ creditOrder \in Seq(Orders)
  /\ \A m, n \in DOMAIN creditOrder : creditOrder[m] = creditOrder[n] => m = n
  /\ \A o \in Orders : credits[o].status # "none" <=> \E n \in DOMAIN creditOrder : creditOrder[n] = o
  /\ \A o \in Orders : Has(applied, "pay", o) => credits[o].status # "none"

\* The same orders have a credit.
LEMMA ListKept ==
  ASSUME CreditsListed, creditOrder' = creditOrder,
         \A o \in Orders : credits'[o].status = "none" <=> credits[o].status = "none",
         \A o \in Orders : Has(applied', "pay", o) => Has(applied, "pay", o)
  PROVE  CreditsListed'
BY DEF CreditsListed

LEMMA PaidCredit ==
  ASSUME ChainSound, BooksSound, NEW o \in Orders, OrderPaid(o)
  PROVE  /\ creditOrder' = IF credits[o].status = "none" THEN Append(creditOrder, o) ELSE creditOrder
         /\ credits'[o].status = "refundable"
         /\ \A p \in Orders : /\ p # o => credits'[p] = credits[p]
                              /\ credits'[p].withdrawn = credits[p].withdrawn
<1>1. PICK s \in Seq(Tx) : s = applied
  BY DEF ChainSound
<1>2. ~Has(s, "pay", o) /\ Solid(s)
  BY <1>1, NextCall DEF OrderPaid, Callable
<1>3. StoreTypes /\ OrderSound(s, o, orders[o], credits[o], awards[o], receipts[o])
  BY <1>1, BooksByOrder
<1>4. orders[o].status \in {"awaiting_payment", "orphaned"}
  BY <1>2, <1>3 DEF OrderSound, Tells
<1>5. credits[o].withdrawn = 0
  BY <1>2, <1>3, UnpaidHistory DEF OrderSound, Tells, Sane
<1>6. PICK c : c = [amount |-> Price[o] - Fee[o], withdrawn |-> 0, status |-> "refundable"]
  OBVIOUS
<1>7. /\ credits' = [credits EXCEPT ![o] = c]
      /\ creditOrder' = IF credits[o].status = "none" THEN Append(creditOrder, o) ELSE creditOrder
  BY <1>4, <1>6 DEF OrderPaid
<1>8. credits'[o] = c /\ \A p \in Orders : p # o => credits'[p] = credits[p]
  BY <1>3, <1>7 DEF StoreTypes
<1> QED
  BY <1>5, <1>6, <1>7, <1>8

LEMMA RefundCredit ==
  ASSUME BooksSound, NEW r \in Refunds, OrderRefunded(r)
  PROVE  /\ creditOrder' = creditOrder
         /\ \A p \in Orders : credits'[p].withdrawn = credits[p].withdrawn
                              /\ credits'[p].status = credits[p].status
<1>1. credits \in [Orders -> CreditRow]
  BY BooksByOrder DEF StoreTypes
<1>2. \E x : credits' = [credits EXCEPT ![OrderOf[r]].amount = x] \/ credits' = credits
  BY DEF OrderRefunded
<1>3. creditOrder' = creditOrder
  BY DEF OrderRefunded
<1> QED
  BY <1>1, <1>2, <1>3 DEF CreditRow

LEMMA FinalCredit ==
  ASSUME ChainSound, BooksSound, CreditsListed, NEW o \in Orders, OrderFinalized(o)
  PROVE  /\ creditOrder' = creditOrder
         /\ \A p \in Orders : credits'[p].withdrawn = credits[p].withdrawn
                              /\ (credits'[p].status = "none" <=> credits[p].status = "none")
<1>1. credits \in [Orders -> CreditRow]
  BY BooksByOrder DEF StoreTypes
<1>2. credits[o].status # "none"
  BY NextCall DEF OrderFinalized, Callable, CreditsListed
<1>3. \E x : /\ x = "matured" \/ x = credits[o].status
            /\ credits' = [credits EXCEPT ![o].status = x]
  BY DEF OrderFinalized
<1>4. creditOrder' = creditOrder
  BY DEF OrderFinalized
<1> QED
  BY <1>1, <1>2, <1>3, <1>4 DEF CreditRow

LEMMA NoNewPay ==
  ASSUME ChainSound, NEW kind, NEW id, NextIs(kind, id)
  PROVE  \A o : Has(applied', "pay", o) => Has(applied, "pay", o) \/ (kind = "pay" /\ id = o)
<1>1. PICK s \in Seq(Tx) : s = applied
  BY DEF ChainSound
<1>2. PICK c \in Tx : c = <<kind, id>> /\ applied' = Append(s, c)
  BY <1>1, NextCall
<1> QED
  BY <1>1, <1>2, HasMore

LEMMA OneMore ==
  ASSUME NEW q \in Seq(Orders), NEW o \in Orders
  PROVE  /\ Append(q, o) \in Seq(Orders) /\ DOMAIN Append(q, o) = 1..(Len(q) + 1)
         /\ Append(q, o)[Len(q) + 1] = o
         /\ \A n \in 1..Len(q) : Append(q, o)[n] = q[n]
<1>1. PICK u \in Seq(Orders) : u = Append(q, o) /\ Len(u) = Len(q) + 1
                         /\ (\A n \in 1..Len(q) : u[n] = q[n]) /\ u[Len(q) + 1] = o
  BY AppendProperties
<1>2. DOMAIN u = 1..(Len(q) + 1)
  BY <1>1, LenProperties
<1> QED
  BY <1>1, <1>2

LEMMA ListPaid ==
  ASSUME ChainSound, BooksSound, CreditsListed, NEW o \in Orders, OrderPaid(o)
  PROVE  CreditsListed'
<1>1. PICK q \in Seq(Orders) : q = creditOrder /\ Len(q) \in Nat /\ DOMAIN q = 1..Len(q)
  BY LenProperties DEF CreditsListed
<1>2. /\ creditOrder' = IF credits[o].status = "none" THEN Append(q, o) ELSE q
      /\ credits'[o].status = "refundable"
      /\ \A p \in Orders : p # o => credits'[p] = credits[p]
  BY <1>1, PaidCredit
<1>3. \A p \in Orders : Has(applied', "pay", p) => Has(applied, "pay", p) \/ p = o
  BY NoNewPay DEF OrderPaid
<1>4. \A p \in Orders : Has(applied', "pay", p) => credits'[p].status # "none"
  BY <1>2, <1>3 DEF CreditsListed
<1>5. CASE credits[o].status # "none"
  BY <1>1, <1>2, <1>4, <1>5 DEF CreditsListed
<1>6. CASE credits[o].status = "none"
  <2>1. PICK u \in Seq(Orders) :
          /\ u = Append(q, o) /\ DOMAIN u = 1..(Len(q) + 1)
          /\ u[Len(q) + 1] = o /\ \A n \in 1..Len(q) : u[n] = q[n]
    BY OneMore
  <2>2. \A n \in 1..Len(q) : q[n] # o
    BY <1>1, <1>6 DEF CreditsListed
  <2>3. \A m, n \in 1..(Len(q) + 1) : u[m] = u[n] => m = n
    <3> SUFFICES ASSUME NEW m \in 1..(Len(q) + 1), NEW n \in 1..(Len(q) + 1), u[m] = u[n]
                 PROVE  m = n
      OBVIOUS
    <3>1. CASE m \in 1..Len(q) /\ n \in 1..Len(q)
      BY <1>1, <2>1, <3>1 DEF CreditsListed
    <3>2. CASE m = Len(q) + 1 /\ n \in 1..Len(q)
      BY <2>1, <2>2, <3>2
    <3>3. CASE n = Len(q) + 1 /\ m \in 1..Len(q)
      BY <2>1, <2>2, <3>3
    <3>4. CASE n = Len(q) + 1 /\ m = Len(q) + 1
      BY <3>4
    <3>5. \A i \in 1..(Len(q) + 1) : i \in 1..Len(q) \/ i = Len(q) + 1
      BY <1>1
    <3> QED
      BY <3>1, <3>2, <3>3, <3>4, <3>5
  <2>4. ASSUME NEW p \in Orders
        PROVE  credits'[p].status # "none" <=> \E n \in 1..(Len(q) + 1) : u[n] = p
    <3>1. CASE p = o
      BY <1>1, <1>2, <2>1, <3>1
    <3>2. CASE p # o
      <4>1. credits[p].status # "none" <=> \E n \in 1..Len(q) : q[n] = p
        BY <1>1 DEF CreditsListed
      <4>2. (\E n \in 1..(Len(q) + 1) : u[n] = p) <=> \E n \in 1..Len(q) : q[n] = p
        BY <1>1, <2>1, <3>2
      <4> QED
        BY <1>2, <3>2, <4>1, <4>2
    <3> QED
      BY <3>1, <3>2
  <2>5. creditOrder' = u
    BY <1>2, <1>6, <2>1
  <2> QED
    BY <1>4, <2>1, <2>3, <2>4, <2>5 DEF CreditsListed
<1> QED
  BY <1>5, <1>6

LEMMA ListRewound ==
  ASSUME ChainSound, BooksSound, CreditsListed, Rewind
  PROVE  CreditsListed'
<1>1. PICK k, g, c : /\ Splits(applied, k, g) /\ applied' = k
                     /\ g = {applied[n] : n \in (agreed + 1)..Len(applied)}
                     /\ c = RebuiltCredits(k, g)
                     /\ RewindTo(k, g, c)
  BY RewindParts
<1>2. \A o : Has(applied', "pay", o) => Has(applied, "pay", o)
  BY <1>1 DEF Splits
<1>3. creditOrder' = creditOrder
  BY <1>1 DEF RewindTo
<1>4. \A o \in Orders : RebuiltSane(k, o, c[o])
  BY <1>1, RebuiltCreditsSane
<1>5. ASSUME NEW o \in Orders PROVE c[o].status = "none" <=> credits[o].status = "none"
  <2>1. CASE ~Touched(g, o)
    BY <1>1, <2>1 DEF RebuiltCredits
  <2>2. CASE Touched(g, o)
    <3>1. PICK s \in Seq(Tx) : s = applied /\ Solid(s)
      BY LegalNow DEF ChainSound
    <3>2. \A kind, id : <<kind, id>> \in g => Has(s, kind, id)
      <4>1. DOMAIN s = 1..Len(s) /\ Len(s) \in Nat /\ agreed \in Nat
        BY <3>1, LenProperties DEF ChainSound
      <4> QED
        BY <1>1, <3>1, <4>1 DEF Has
    <3>3. Has(s, "pay", o)
      BY <2>2, <3>1, <3>2 DEF Touched, RefundLost, RefundsOf, Solid
    <3>4. credits[o].status # "none"
      BY <3>1, <3>3 DEF CreditsListed
    <3>5. c[o] = RebuiltCredit(k, o)
      BY <1>1, <2>2 DEF RebuiltCredits
    <3>6. c[o].status # "none"
      <4>1. CASE ~Projected(k, "pay", o)
        BY <3>5, <4>1 DEF RebuiltCredit
      <4>2. CASE Projected(k, "pay", o)
        BY <3>5, <4>2 DEF RebuiltCredit
      <4> QED
        BY <4>1, <4>2
    <3> QED
      BY <3>4, <3>6
  <2> QED
    BY <2>1, <2>2
<1>6. ASSUME NEW o \in Orders PROVE Replanned(k, c)[o].status = "none" <=> c[o].status = "none"
  <2>1. CASE o \in DOMAIN MaturedOf(c)
    <3>1. c[o].status \in MaturedStatus
      BY <2>1 DEF MaturedOf, MaturedStatus
    <3>2. Has(k, "finalize", o)
      BY <1>4, <3>1 DEF RebuiltSane
    <3>3. Replanned(k, c)[o].status \in MaturedStatus
      BY <1>4, <3>2, ReplannedSane DEF RebuiltSane
    <3> QED
      BY <3>1, <3>3 DEF MaturedStatus
  <2>2. CASE o \notin DOMAIN MaturedOf(c)
    BY <2>2 DEF Replanned
  <2> QED
    BY <2>1, <2>2
<1>7. \A o \in Orders : credits'[o].status = "none" <=> credits[o].status = "none"
  BY <1>1, <1>5, <1>6 DEF RewindTo
<1> QED
  BY <1>2, <1>3, <1>7, ListKept

LEMMA ListStep ==
  ASSUME ChainSound, BooksSound, CreditsListed, [Next]_vars
  PROVE  CreditsListed'
<1>1. CASE ChainNext
  <2>1. applied' = applied /\ credits' = credits /\ creditOrder' = creditOrder
    BY <1>1, ChainStepKeepsBooks
  <2> QED
    BY <2>1, ListKept
<1>2. CASE RequestNext \/ UNCHANGED vars
  <2>1. applied' = applied /\ credits' = credits /\ creditOrder' = creditOrder
    BY <1>2, RequestsChangeRows DEF storeVars, vars
  <2> QED
    BY <2>1, ListKept
<1>3. ASSUME NEW r \in Refunds, OrderRefunded(r) PROVE CreditsListed'
  <2>1. \A o \in Orders : Has(applied', "pay", o) => Has(applied, "pay", o)
    BY <1>3, NoNewPay DEF OrderRefunded
  <2> QED
    BY <1>3, <2>1, RefundCredit, ListKept
<1>4. ASSUME NEW p \in Orders, OrderFinalized(p) PROVE CreditsListed'
  <2>1. \A o \in Orders : Has(applied', "pay", o) => Has(applied, "pay", o)
    BY <1>4, NoNewPay DEF OrderFinalized
  <2> QED
    BY <1>4, <2>1, FinalCredit, ListKept
<1>5. ASSUME NEW w \in Withdrawals, MerchantWithdrawal(w) PROVE CreditsListed'
  <2>1. \A o \in Orders : Has(applied', "pay", o) => Has(applied, "pay", o)
    BY <1>5, NoNewPay DEF MerchantWithdrawal
  <2>2. creditOrder' = creditOrder
    BY <1>5 DEF MerchantWithdrawal
  <2>3. \A o \in Orders : credits'[o].status = "none" <=> credits[o].status = "none"
    <3> SUFFICES ASSUME NEW o \in Orders
                 PROVE  credits'[o].status = "none" <=> credits[o].status = "none"
      OBVIOUS
    <3>1. credits'[o] = credits[o] \/ \E x : credits'[o] = Withdrawn(credits[o], x) /\ o \in Matured
      BY <1>5 DEF MerchantWithdrawal
    <3>2. credits[o] \in CreditRow
      BY BooksByOrder, OrderTypes
    <3>3. \A x : Withdrawn(credits[o], x).status # "none"
      BY <3>2 DEF Withdrawn, CreditRow
    <3> QED
      BY <3>1, <3>3 DEF Matured
  <2> QED
    BY <2>1, <2>2, <2>3, ListKept
<1> QED
  BY <1>1, <1>2, <1>3, <1>4, <1>5, ListPaid, ListRewound DEF Next, IndexerNext

-----------------------------------------------------------------------------
(* The debits of a plan.  Going through the points in the order of pos,    *)
(* each gives what it has or what is still asked for; together they give   *)
(* what was asked.                                                         *)

Before(D, pos, o) == {p \in D : pos[p] < pos[o]}

Greedy(D, free, f, x, pos) ==
  /\ \A o, p \in D : pos[o] = pos[p] => o = p
  /\ \A o \in D : \A n \in Nat : n = Total([p \in Before(D, pos, o) |-> free[p]]) =>
       f[o] = IF x - n <= 0 THEN 0 ELSE IF x - n < free[o] THEN x - n ELSE free[o]

LEMMA GreedyAddsUp ==
  ASSUME NEW D, IsFiniteSet(D), NEW free \in [D -> Nat], NEW f \in [D -> Nat],
         NEW x \in Nat, x <= Total(free),
         NEW N \in Nat, NEW pos \in [D -> 1..N], Greedy(D, free, f, x, pos)
  PROVE  Total(f) = x
<1> DEFINE Up(k) == {p \in D : pos[p] <= k}
           Given(k) == Total([p \in Up(k) |-> f[p]])
           There(k) == Total([p \in Up(k) |-> free[p]])
           Fits(k) == Given(k) = IF There(k) <= x THEN There(k) ELSE x
           bad == {k \in 0..N : ~Fits(k)}
<1>1. Fits(0)
  <2>1. Up(0) = {}
    OBVIOUS
  <2>2. PICK none : none = [p \in {} |-> 0]
    OBVIOUS
  <2>3. [p \in Up(0) |-> f[p]] = none /\ [p \in Up(0) |-> free[p]] = none
    BY <2>1, <2>2
  <2>4. Total(none) = 0
    BY <2>2, TotalZero
  <2> QED
    BY <2>3, <2>4
<1>2. ASSUME NEW k \in Nat, k < N, Fits(k) PROVE Fits(k + 1)
  <2>1. PICK S \in SUBSET D : S = Up(k)
    OBVIOUS
  <2>2. PICK T \in SUBSET D : T = Up(k + 1)
    OBVIOUS
  <2>3. PICK a \in Nat, b \in Nat :
          /\ a = Total([p \in S |-> f[p]]) /\ b = Total([p \in S |-> free[p]])
    <3>1. PICK z \in Nat : z = Total(f)
      BY TotalType
    <3>2. PICK y \in Nat : y = Total(free)
      BY TotalType
    <3>3. Total([p \in S |-> f[p]]) \in 0..z
      BY <3>1, TotalOfPart
    <3>4. Total([p \in S |-> free[p]]) \in 0..y
      BY <3>2, TotalOfPart
    <3>5. Total([p \in S |-> f[p]]) \in Nat /\ Total([p \in S |-> free[p]]) \in Nat
      BY <3>1, <3>2, <3>3, <3>4
    <3> QED
      BY <3>5
  <2>4. a = IF b <= x THEN b ELSE x
    BY <1>2, <2>1, <2>3
  <2>5. CASE \E o \in D : pos[o] = k + 1
    <3>1. PICK o \in D : pos[o] = k + 1
      BY <2>5
    <3> HIDE DEF Fits
    <3>2. \A p \in D : pos[p] \in 1..N
      OBVIOUS
    <3>3. Before(D, pos, o) = S
      BY <2>1, <3>1, <3>2 DEF Before
    <3>4. o \in D \ S /\ T = S \cup {o}
      BY <2>1, <2>2, <3>1, <3>2 DEF Greedy
    <3>5. /\ Total([p \in T |-> f[p]]) = a + f[o]
          /\ Total([p \in T |-> free[p]]) = b + free[o]
      BY <2>3, <3>4, TotalWith
    <3>6. PICK m \in Nat, n \in Nat : m = f[o] /\ n = free[o]
      OBVIOUS
    <3>7. m = IF x - b <= 0 THEN 0 ELSE IF x - b < n THEN x - b ELSE n
      BY <2>3, <3>3, <3>6 DEF Greedy
    <3>8. a + m = IF b + n <= x THEN b + n ELSE x
      BY <2>4, <3>7
    <3>9. Given(k + 1) = a + m /\ There(k + 1) = b + n
      BY <2>2, <3>5, <3>6
    <3> QED
      BY <3>8, <3>9 DEF Fits
  <2>6. CASE ~\E o \in D : pos[o] = k + 1
    <3>1. S = T
      BY <2>1, <2>2, <2>6
    <3> QED
      BY <1>2, <2>1, <2>2, <3>1
  <2> QED
    BY <2>5, <2>6
<1> HIDE DEF Fits
<1>3. bad = {}
  <2> SUFFICES ASSUME bad # {} PROVE FALSE
    OBVIOUS
  <2>1. PICK n \in bad : \A m \in bad : n <= m
    <3>1. bad \subseteq Nat
      <4>1. \A k \in bad : k \in 0..N
        BY Zenon
      <4> HIDE DEF bad
      <4> QED
        BY <4>1
    <3> HIDE DEF bad
    <3> QED
      BY <3>1, LeastOf
  <2>2. n \in Nat /\ n <= N /\ ~Fits(n)
    OBVIOUS
  <2>3. n # 0
    BY <1>1, <2>2
  <2>4. n - 1 \in 0..N /\ n - 1 \in Nat /\ n - 1 < N
    BY <2>2, <2>3
  <2>5. Fits(n - 1)
    BY <2>1, <2>4
  <2>6. Fits((n - 1) + 1)
    BY <1>2, <2>4, <2>5
  <2> QED
    BY <2>2, <2>6
<1>4. Fits(N)
  BY <1>3
<1>5. [p \in Up(N) |-> f[p]] = f /\ [p \in Up(N) |-> free[p]] = free
  <2>1. Up(N) = D
    OBVIOUS
  <2> QED
    BY <2>1
<1>6. Total(f) = IF Total(free) <= x THEN Total(free) ELSE x
  BY <1>4, <1>5 DEF Fits
<1>7. PICK y \in Nat : y = Total(free)
  BY TotalType
<1> QED
  BY <1>6, <1>7

LEMMA DebitsAddUp ==
  ASSUME CreditsListed, NEW D \in SUBSET Orders, \A o \in D : credits[o].status # "none",
         NEW free \in [D -> Nat], NEW x \in Nat, x <= Total(free)
  PROVE  Total([o \in D |-> Debit(free, o, x)]) = x
<1>1. PICK q \in Seq(Orders) : /\ q = creditOrder /\ DOMAIN q = 1..Len(q) /\ Len(q) \in Nat
                               /\ \A m, n \in DOMAIN q : q[m] = q[n] => m = n
  BY LenProperties DEF CreditsListed
<1>2. PICK N \in Nat : N = Len(q) /\ DOMAIN q = 1..N
  BY <1>1
<1>3. ASSUME NEW o \in D PROVE Position(o) \in 1..N /\ q[Position(o)] = o
  <2>1. \E n \in DOMAIN q : q[n] = o
    BY <1>1 DEF CreditsListed
  <2> QED
    BY <1>1, <1>2, <2>1 DEF Position
<1>4. PICK pos \in [D -> 1..N] : pos = [o \in D |-> Position(o)]
  BY <1>3
<1>5. \A o, p \in D : pos[o] = pos[p] => o = p
  BY <1>3, <1>4
<1>6. \A o \in D : Debit(free, o, x) \in Nat
  <2>1. \A o \in D : Debit(free, o, x) \in 0..free[o] /\ free[o] \in Nat
    BY DebitType
  <2> QED
    BY <2>1
<1>7. PICK f \in [D -> Nat] : f = [o \in D |-> Debit(free, o, x)]
  BY <1>6
<1>8. ASSUME NEW o \in D, NEW n \in Nat, n = Total([p \in Before(D, pos, o) |-> free[p]])
      PROVE  f[o] = IF x - n <= 0 THEN 0 ELSE IF x - n < free[o] THEN x - n ELSE free[o]
  <2>1. Older(o, DOMAIN free) = Before(D, pos, o)
    BY <1>4 DEF Older, Before
  <2> QED
    BY <1>7, <1>8, <2>1 DEF Debit
<1>9. IsFiniteSet(D)
  BY FiniteAssumption, FS_Subset
<1>10. Total(f) = x
  <2>1. Greedy(D, free, f, x, pos)
    BY <1>5, <1>8 DEF Greedy
  <2> QED
    BY <1>9, <2>1, GreedyAddsUp
<1> QED
  BY <1>7, <1>10

-----------------------------------------------------------------------------
(* What is paid out.  Until the chain reorganises a second time, the       *)
(* credits hold withdrawn what the contract paid, so the projector agrees  *)
(* with every withdrawal; after it they may not.                           *)

\* #merchantWithdrawal reads every credit of the merchant.
CreditsRead == Cardinality(Orders) <= CreditLimit

WithdrawnOf(c) == [o \in Orders |-> c[o].withdrawn]

\* A call of s paid out, after the order o had matured.
PaidOut(s, o) == \E m, n \in DOMAIN s : m < n /\ s[m] = <<"finalize", o>> /\ s[n][1] = "withdraw"

\* While a rewind may come, what is withdrawn of a credit was paid after it matured.
PaidOutKnown ==
  reorgs = 0 \/ agreed < Len(applied) =>
    \A o \in Orders : credits[o].withdrawn > 0 => PaidOut(applied, o)

WithdrawnSound == CreditsListed /\ WithdrawnIsHistory /\ NothingRefused /\ PaidOutKnown

\* The credits that matured: what they hold, what is withdrawn and what is free.
LEMMA MaturedCredits ==
  ASSUME ChainSound, BooksSound
  PROVE  /\ Total([o \in Matured |-> credits[o].amount]) = MaturedBy(applied)
         /\ Total([o \in Matured |-> credits[o].withdrawn]) = Total(WithdrawnOf(credits))
         /\ Total([o \in Matured |-> credits[o].amount]) =
              Total([o \in Matured |-> credits[o].withdrawn]) + Total([o \in Matured |-> Free(o)])
         /\ \A o \in Matured : Free(o) \in Nat
<1>1. PICK s \in Seq(Tx) : s = applied /\ Solid(s)
  BY LegalNow DEF ChainSound
<1>2. /\ StoreTypes
      /\ \A o \in Orders : OrderSound(s, o, orders[o], credits[o], awards[o], receipts[o])
  BY <1>1, BooksByOrder
<1>3. \A o \in Orders : /\ credits[o].withdrawn \in Nat /\ credits[o].amount \in Nat
                        /\ credits[o].withdrawn <= credits[o].amount
                        /\ credits[o].status \notin MaturedStatus => credits[o].withdrawn = 0
                        /\ credits[o].status \in MaturedStatus <=> Has(s, "finalize", o)
  BY <1>2, OrderTypes DEF OrderSound, Tells, Sane, CreditRow
<1>4. PICK M \in SUBSET Orders : M = Matured /\ M = {o \in Orders : Has(s, "finalize", o)}
                              /\ \A o \in Orders : o \notin M => credits[o].withdrawn = 0
  BY <1>3 DEF Matured, MaturedStatus
<1>5. IsFiniteSet(M)
  BY FiniteAssumption, FS_Subset
<1>6. [o \in M |-> credits[o].amount] = [o \in M |-> MerchantPart(o, RefundedBy(s, o))]
  <2>1. \A o \in M : credits[o].amount = MerchantPart(o, RefundedBy(s, o))
    BY <1>1, <1>2, <1>4 DEF OrderSound, Tells, Solid
  <2> QED
    BY <2>1
<1>7. Total([o \in M |-> credits[o].amount]) = MaturedBy(s)
  BY <1>4, <1>6 DEF MaturedBy
<1>8. PICK f \in [Orders -> Nat] : f = WithdrawnOf(credits)
  BY <1>3 DEF WithdrawnOf
<1>9. Total([o \in M |-> f[o]]) = Total(f)
  BY <1>4, <1>8, TotalOfSupport DEF WithdrawnOf, ZeroOff
<1>10. [o \in M |-> f[o]] = [o \in M |-> credits[o].withdrawn]
  BY <1>8 DEF WithdrawnOf
<1>11. PICK h \in [M -> Nat] : h = [o \in M |-> credits[o].amount]
  BY <1>3
<1>12. PICK g \in [M -> Nat] : g = [o \in M |-> credits[o].withdrawn]
  BY <1>3
<1>13. \A o \in M : Free(o) \in Nat /\ credits[o].amount = credits[o].withdrawn + Free(o)
  BY <1>3 DEF Free
<1>14. PICK e \in [M -> Nat] : e = [o \in M |-> Free(o)]
  BY <1>13
<1>15. Total(h) = Total(g) + Total(e)
  <2>1. SumAt(M, g, e, h)
    BY <1>5, <1>11, <1>12, <1>13, <1>14 DEF SumAt
  <2> QED
    BY <2>1, TotalOfSums
<1> QED
  BY <1>1, <1>4, <1>7, <1>8, <1>9, <1>10, <1>11, <1>12, <1>13, <1>14, <1>15

\* Every matured credit is among those the projector reads.
LEMMA AllLookedAt ==
  ASSUME CreditsListed, CreditsRead, NEW o \in Matured
  PROVE  Cardinality(Older(o, Matured)) < CreditLimit
<1>1. PICK M \in SUBSET Orders : M = Matured
  BY DEF Matured
<1>2. PICK q \in Seq(Orders) : q = creditOrder /\ DOMAIN q = 1..Len(q) /\ Len(q) \in Nat
  BY LenProperties DEF CreditsListed
<1>3. \E n \in DOMAIN q : q[n] = o
  BY <1>1, <1>2 DEF CreditsListed, Matured
<1>4. Position(o) \in 1..Len(q)
  BY <1>2, <1>3 DEF Position
<1>5. ~(Position(o) < Position(o))
  BY <1>2, <1>4
<1>6. PICK S \in SUBSET M : S = Older(o, M) /\ o \notin S
  <2>1. o \notin Older(o, M)
    BY <1>5, Zenon DEF Older
  <2>2. Older(o, M) \subseteq M
    BY DEF Older
  <2> QED
    BY <2>1, <2>2
<1>7. IsFiniteSet(Orders) /\ IsFiniteSet(M) /\ IsFiniteSet(S)
  BY FiniteAssumption, FS_Subset
<1>8. Cardinality(M) <= Cardinality(Orders)
  BY <1>7, FS_Subset
<1>9. Cardinality(S) <= Cardinality(M) /\ Cardinality(S) # Cardinality(M)
  BY <1>1, <1>6, <1>7, FS_Subset
<1>10. PICK a \in Nat, b \in Nat, c \in Nat :
         a = Cardinality(S) /\ b = Cardinality(M) /\ c = Cardinality(Orders)
  BY <1>7, FS_CardinalityType
<1>11. a < CreditLimit
  BY <1>8, <1>9, <1>10, OtherAssumption DEF CreditsRead
<1> QED
  BY <1>1, <1>6, <1>10, <1>11

-----------------------------------------------------------------------------
(* Paid out stays paid out                                                 *)

LEMMA PaidOutMore ==
  ASSUME NEW s \in Seq(Tx), NEW c \in Tx, NEW o
  PROVE  /\ PaidOut(s, o) => PaidOut(Append(s, c), o)
         /\ Has(s, "finalize", o) /\ c[1] = "withdraw" => PaidOut(Append(s, c), o)
<1>1. PICK t \in Seq(Tx) : /\ t = Append(s, c) /\ Len(t) = Len(s) + 1
                           /\ (\A n \in 1..Len(s) : t[n] = s[n]) /\ t[Len(s) + 1] = c
  BY Longer
<1>2. DOMAIN s = 1..Len(s) /\ DOMAIN t = 1..Len(t) /\ Len(s) \in Nat
  BY LenProperties
<1>3. PaidOut(s, o) => PaidOut(t, o)
  BY <1>1, <1>2 DEF PaidOut
<1>4. ASSUME Has(s, "finalize", o), c[1] = "withdraw" PROVE PaidOut(t, o)
  <2>1. PICK m \in 1..Len(s) : s[m] = <<"finalize", o>>
    BY <1>2, <1>4 DEF Has
  <2>2. m \in DOMAIN t /\ Len(s) + 1 \in DOMAIN t /\ m < Len(s) + 1
    BY <1>1, <1>2
  <2>3. t[m] = <<"finalize", o>> /\ t[Len(s) + 1][1] = "withdraw"
    BY <1>1, <1>4, <2>1
  <2> QED
    BY <2>2, <2>3 DEF PaidOut
<1> QED
  BY <1>1, <1>3, <1>4

\* When no withdrawal leaves the chain, the orders that were paid out keep all
\* of their calls: those came before.
LEMMA PaidOutUntouched ==
  ASSUME NEW s \in Seq(Tx), Legal(s), NEW n \in 0..Len(s), NEW o \in Orders, PaidOut(s, o),
         \A i \in (n + 1)..Len(s) : s[i][1] # "withdraw"
  PROVE  ~Touched({s[i] : i \in (n + 1)..Len(s)}, o)
<1>1. DOMAIN s = 1..Len(s) /\ Len(s) \in Nat /\ n \in Nat /\ n <= Len(s)
  BY LenProperties
<1>2. PICK m \in 1..Len(s), j \in 1..Len(s) :
        m < j /\ s[m] = <<"finalize", o>> /\ s[j][1] = "withdraw"
  BY <1>1 DEF PaidOut
<1>3. j <= n
  BY <1>1, <1>2
<1>4. ASSUME NEW i \in (n + 1)..Len(s)
      PROVE  /\ s[i] # <<"pay", o>> /\ s[i] # <<"finalize", o>>
             /\ \A r \in RefundsOf(o) : s[i] # <<"refund", r>>
  <2>1. PICK k \in Nat : k = i - 1 /\ k < Len(s) /\ k + 1 = i /\ m \in 1..k
    BY <1>1, <1>2, <1>3
  <2>2. Callable(First(s, k), s[i]) /\ Solid(First(s, k))
    BY <2>1, LegalNext
  <2>3. Has(First(s, k), "finalize", o)
    <3>1. k \in 0..Len(s)
      BY <1>1, <2>1
    <3>2. DOMAIN First(s, k) = 1..k /\ First(s, k)[m] = s[m]
      BY <2>1, <3>1, Cut
    <3> QED
      BY <1>2, <2>1, <3>2 DEF Has
  <2>4. Has(First(s, k), "pay", o)
    BY <2>2, <2>3 DEF Solid
  <2>5. \A kind, id : s[i] = <<kind, id>> => s[i][1] = kind /\ s[i][2] = id
    OBVIOUS
  <2> QED
    BY <2>2, <2>3, <2>4, <2>5 DEF Callable, RefundsOf
<1> QED
  BY <1>4 DEF Touched, RefundLost

-----------------------------------------------------------------------------
(* A withdrawal that the projector accepts                                 *)

LEMMA WithdrawalAgrees ==
  ASSUME ChainSound, BooksSound, WithdrawnSound, CreditsRead,
         NEW w \in Withdrawals, MerchantWithdrawal(w)
  PROVE  /\ refused' = refused
         /\ Total(WithdrawnOf(credits')) = WithdrawnBy(applied) + Amount[w]
         /\ \A o \in Orders : o \notin Matured => credits'[o] = credits[o]
<1>1. PICK s \in Seq(Tx) : s = applied
  BY DEF ChainSound
<1>2. \A o \in Orders : credits[o] \in CreditRow /\ (o \notin Matured => credits[o].withdrawn = 0)
  BY BooksByOrder, OrderTypes DEF BooksSound, CreditSane
<1>3. PICK M \in SUBSET Orders : M = Matured /\ IsFiniteSet(M)
  <2>1. Matured \subseteq Orders
    BY DEF Matured
  <2> QED
    BY <2>1, FiniteAssumption, FS_Subset
<1>4. {o \in Matured : Cardinality(Older(o, Matured)) < CreditLimit} = M
  BY <1>3, AllLookedAt DEF WithdrawnSound
<1>5. PICK free \in [M -> Nat] : free = [o \in M |-> Free(o)]
  BY <1>3, MaturedCredits
<1>6. PICK g \in [M -> Nat] : g = [o \in M |-> credits[o].withdrawn]
  BY <1>2 DEF CreditRow
<1>7. PICK x \in Nat : x = Amount[w]
  BY AmountAssumption
<1>8. PICK a \in Nat, b \in Nat, d \in Nat :
        /\ a = WithdrawnBy(s) /\ b = Total(free) /\ d = MaturedBy(s)
        /\ Total(g) = a /\ d = a + b /\ a + x <= d
  <2>1. Total(WithdrawnOf(credits)) = WithdrawnBy(s)
    BY <1>1 DEF WithdrawnSound, WithdrawnIsHistory, WithdrawnOf
  <2>2. Callable(s, <<"withdraw", w>>) /\ Solid(s)
    BY <1>1, NextCall DEF MerchantWithdrawal
  <2>3. WithdrawnBy(s) + x <= MaturedBy(s)
    BY <1>7, <2>2 DEF Callable
  <2>4. WithdrawnBy(s) \in Nat /\ Total(free) \in Nat /\ MaturedBy(s) \in Nat
    BY <1>3, <2>2, WithdrawnType, MaturedType, TotalType DEF Solid
  <2>5. Total(g) = WithdrawnBy(s) /\ MaturedBy(s) = Total(g) + Total(free)
    BY <1>1, <1>3, <1>5, <1>6, <2>1, MaturedCredits
  <2> QED
    BY <2>3, <2>4, <2>5
<1>9. /\ WithdrawnBy(applied) + Amount[w] = Total([o \in M |-> credits[o].withdrawn]) + Amount[w]
      /\ Amount[w] <= Total([o \in M |-> Free(o)])
  BY <1>1, <1>5, <1>6, <1>7, <1>8
<1>10. /\ refused' = refused
       /\ credits' = [o \in Orders |->
            IF o \in M /\ Debit(free, o, Amount[w]) > 0
            THEN Withdrawn(credits[o], credits[o].withdrawn + Debit(free, o, Amount[w]))
            ELSE credits[o]]
  BY <1>3, <1>4, <1>5, <1>9 DEF MerchantWithdrawal, Refuse
<1>11. \A o \in M : Debit(free, o, x) \in Nat
  <2>1. \A o \in M : Debit(free, o, x) \in 0..free[o] /\ free[o] \in Nat
    BY DebitType
  <2> QED
    BY <2>1
<1>12. PICK f \in [M -> Nat] : f = [o \in M |-> Debit(free, o, x)]
  BY <1>11
<1>13. Total(f) = x
  <2>1. \A o \in M : credits[o].status # "none"
    BY <1>3 DEF Matured
  <2>2. x <= Total(free)
    BY <1>7, <1>9, <1>5
  <2> QED
    BY <1>12, <2>1, <2>2, DebitsAddUp DEF WithdrawnSound
<1>14. ASSUME NEW o \in M PROVE credits'[o].withdrawn = g[o] + f[o]
  <2>1. PICK y \in Nat, z \in Nat : y = g[o] /\ z = f[o]
    OBVIOUS
  <2>2. y = credits[o].withdrawn /\ z = Debit(free, o, Amount[w])
    BY <1>6, <1>7, <1>12, <2>1
  <2>3. CASE z > 0
    <3>1. credits'[o] = Withdrawn(credits[o], y + z)
      BY <1>10, <2>2, <2>3
    <3>2. credits[o] \in CreditRow /\ y + z \in Nat
      BY <1>2
    <3>3. Withdrawn(credits[o], y + z).withdrawn = y + z
      BY <3>2, WithdrawnCredit
    <3> QED
      BY <2>1, <3>1, <3>3
  <2>4. CASE ~(z > 0)
    <3>1. credits'[o] = credits[o]
      BY <1>10, <2>2, <2>4
    <3> QED
      BY <2>1, <2>2, <2>4, <3>1
  <2> QED
    BY <2>3, <2>4
<1>15. \A o \in Orders : o \notin Matured => credits'[o] = credits[o]
  BY <1>3, <1>10
<1>16. \A o \in Orders : credits'[o].withdrawn \in Nat /\ (o \notin M => credits'[o].withdrawn = 0)
  BY <1>2, <1>3, <1>14, <1>15 DEF CreditRow
<1>17. PICK after \in [Orders -> Nat] : after = WithdrawnOf(credits')
  BY <1>16 DEF WithdrawnOf
<1>18. PICK h \in [M -> Nat] : h = [o \in M |-> after[o]]
  OBVIOUS
<1>19. Total(h) = Total(after)
  <2>1. ZeroOff(Orders, M, after)
    BY <1>16, <1>17 DEF WithdrawnOf, ZeroOff
  <2> QED
    BY <1>18, <2>1, TotalOfSupport
<1>20. Total(h) = Total(g) + Total(f)
  <2>1. SumAt(M, g, f, h)
    BY <1>3, <1>14, <1>17, <1>18 DEF WithdrawnOf, SumAt
  <2> QED
    BY <2>1, TotalOfSums
<1> QED
  BY <1>1, <1>7, <1>8, <1>10, <1>13, <1>15, <1>17, <1>19, <1>20

-----------------------------------------------------------------------------
(* The steps                                                               *)

PaidSound == WithdrawnIsHistory /\ NothingRefused /\ PaidOutKnown

LEMMA SameWithdrawals ==
  ASSUME NEW s, NEW t, \A w \in Withdrawals : Has(s, "withdraw", w) <=> Has(t, "withdraw", w)
  PROVE  WithdrawnBy(s) = WithdrawnBy(t)
<1>1. {v \in Withdrawals : Has(s, "withdraw", v)} = {v \in Withdrawals : Has(t, "withdraw", v)}
  OBVIOUS
<1> QED
  BY <1>1 DEF WithdrawnBy

\* A step that changes neither what is projected nor the credits.
LEMMA PaidKept ==
  ASSUME PaidSound, UNCHANGED <<applied, credits, refused>>,
         reorgs' = 0 \/ agreed' < Len(applied) => reorgs = 0 \/ agreed < Len(applied)
  PROVE  PaidSound'
BY DEF PaidSound, WithdrawnIsHistory, NothingRefused, PaidOutKnown

LEMMA SameTotal ==
  ASSUME \A o \in Orders : credits'[o].withdrawn = credits[o].withdrawn
  PROVE  Total([o \in Orders |-> credits[o].withdrawn])' = Total([o \in Orders |-> credits[o].withdrawn])
<1>1. [o \in Orders |-> credits'[o].withdrawn] = [o \in Orders |-> credits[o].withdrawn]
  OBVIOUS
<1> QED
  BY <1>1

\* A call that pays nothing out.
LEMMA PaidByCall ==
  ASSUME ChainSound, BooksSound', PaidSound, UNCHANGED chainVars,
         NEW kind, NEW id, NextIs(kind, id), kind # "withdraw",
         \A o \in Orders : credits'[o].withdrawn = credits[o].withdrawn,
         \A q \in refused' : q \in refused \/ q[2] # "MerchantWithdrawal"
  PROVE  PaidSound'
<1>1. PICK s \in Seq(Tx) : s = applied
  BY DEF ChainSound
<1>2. PICK c \in Tx : c = <<kind, id>> /\ applied' = Append(s, c)
  BY <1>1, NextCall
<1>3. WithdrawnBy(applied') = WithdrawnBy(s)
  BY <1>2, WithdrawnMore
<1>4. WithdrawnIsHistory'
  <2>1. \A o \in Orders : credits'[o].withdrawn <= credits'[o].amount
    BY DEF BooksSound, CreditSane
  <2>2. Total([o \in Orders |-> credits[o].withdrawn]) = WithdrawnBy(s)
    BY <1>1 DEF PaidSound, WithdrawnIsHistory
  <2> QED
    BY <1>3, <2>1, <2>2, SameTotal DEF WithdrawnIsHistory
<1>5. NothingRefused'
  <2>1. \A q \in refused' : q[2] \in {"TransferSingle", "MerchantWithdrawal"}
    BY DEF BooksSound
  <2> QED
    BY <2>1 DEF PaidSound, NothingRefused
<1>6. PaidOutKnown'
  <2>1. Len(applied') = Len(s) + 1 /\ Len(s) \in Nat
    BY <1>2, Longer, LenProperties
  <2>2. agreed' = Len(applied') /\ reorgs' = reorgs
    BY <1>1, <2>1 DEF NextIs, chainVars
  <2>3. ~(agreed' < Len(applied'))
    BY <2>1, <2>2
  <2>4. \A o : PaidOut(s, o) => PaidOut(applied', o)
    BY <1>2, PaidOutMore
  <2> QED
    BY <1>1, <2>2, <2>3, <2>4 DEF PaidSound, PaidOutKnown
<1> QED
  BY <1>4, <1>5, <1>6 DEF PaidSound

LEMMA PaidByWithdrawal ==
  ASSUME ChainSound, BooksSound, BooksSound', WithdrawnSound, CreditsRead,
         NEW w \in Withdrawals, MerchantWithdrawal(w)
  PROVE  PaidSound'
<1>1. PICK s \in Seq(Tx) : s = applied
  BY DEF ChainSound
<1>2. PICK c \in Tx : c = <<"withdraw", w>> /\ applied' = Append(s, c) /\ ~Has(s, "withdraw", w)
  <2>1. NextIs("withdraw", w)
    BY DEF MerchantWithdrawal
  <2> QED
    BY <1>1, <2>1, NextCall DEF Callable
<1>3. WithdrawnBy(applied') = WithdrawnBy(s) + Amount[w]
  BY <1>2, WithdrawnMore
<1>4. WithdrawnIsHistory'
  <2>1. \A o \in Orders : credits'[o].withdrawn <= credits'[o].amount
    BY DEF BooksSound, CreditSane
  <2>2. Total(WithdrawnOf(credits')) = WithdrawnBy(s) + Amount[w]
    BY <1>1, WithdrawalAgrees
  <2> QED
    BY <1>3, <2>1, <2>2 DEF WithdrawnIsHistory, WithdrawnOf
<1>5. NothingRefused'
  BY WithdrawalAgrees DEF WithdrawnSound, NothingRefused
<1>6. PaidOutKnown'
  <2>1. ASSUME NEW o \in Orders, credits'[o].withdrawn > 0 PROVE PaidOut(applied', o)
    <3>1. CASE o \in Matured
      <4>1. Has(s, "finalize", o)
        BY <1>1, <3>1 DEF BooksSound, ProjectionIsHistory
      <4> QED
        BY <1>2, <4>1, PaidOutMore
    <3>2. CASE o \notin Matured
      <4>1. credits'[o] = credits[o]
        BY <3>2, WithdrawalAgrees
      <4>2. credits[o].withdrawn = 0
        BY <3>2 DEF BooksSound, CreditSane
      <4> QED
        BY <2>1, <4>1, <4>2
    <3> QED
      BY <3>1, <3>2
  <2> QED
    BY <2>1 DEF PaidOutKnown
<1> QED
  BY <1>4, <1>5, <1>6 DEF PaidSound

\* The plan for what is still withdrawn gives out just that.
LEMMA ReplannedTotal ==
  ASSUME CreditsListed, NEW k, NEW c, \A o \in Orders : RebuiltSane(k, o, c[o]), PlanExists(k, c),
         \A o \in Orders : c[o].status \in MaturedStatus => credits[o].status # "none"
  PROVE  Total(WithdrawnOf(Replanned(k, c))) = StillWithdrawn(k)
<1>1. PICK free : free = MaturedOf(c)
  OBVIOUS
<1>2. PICK x \in Nat : x = StillWithdrawn(k)
  BY StillWithdrawnType
<1>3. PICK D \in SUBSET Orders : D = {o \in Orders : c[o].status \in MaturedStatus}
  OBVIOUS
<1>4. free = [o \in D |-> c[o].amount] /\ DOMAIN free = D
  BY <1>1, <1>3 DEF MaturedOf, MaturedStatus
<1>5. free \in [D -> Nat]
  BY <1>3, <1>4 DEF RebuiltSane, CreditRow
<1>6. \A o \in D : Debit(free, o, x) \in Nat
  <2>1. \A o \in D : Debit(free, o, x) \in 0..free[o] /\ free[o] \in Nat
    BY <1>5, DebitType
  <2> QED
    BY <2>1
<1>7. PICK f \in [D -> Nat] : f = [o \in D |-> Debit(free, o, x)]
  BY <1>6
<1>8. PICK r : r = Replanned(k, c)
  OBVIOUS
<1>9. r = [o \in Orders |->
            IF o \notin D THEN c[o]
            ELSE IF Debit(free, o, x) = 0 THEN [c[o] EXCEPT !.withdrawn = 0, !.status = "matured"]
                 ELSE Withdrawn(c[o], Debit(free, o, x))]
  BY <1>1, <1>2, <1>4, <1>8 DEF Replanned
<1>10. ASSUME NEW o \in D PROVE r[o].withdrawn = f[o]
  <2>1. c[o] \in CreditRow /\ f[o] \in Nat /\ f[o] = Debit(free, o, x)
    BY <1>7 DEF RebuiltSane
  <2>2. CASE f[o] = 0
    <3>1. r[o] = [c[o] EXCEPT !.withdrawn = 0, !.status = "matured"]
      BY <1>9, <2>1, <2>2
    <3> QED
      BY <2>1, <2>2, <3>1 DEF CreditRow
  <2>3. CASE f[o] # 0
    <3>1. r[o] = Withdrawn(c[o], f[o])
      BY <1>9, <2>1, <2>3
    <3> QED
      BY <2>1, <3>1, WithdrawnCredit DEF MaturedStatus
  <2> QED
    BY <2>2, <2>3
<1>11. ASSUME NEW o \in Orders, o \notin D PROVE r[o].withdrawn = 0
  <2>1. r[o] = c[o]
    BY <1>9, <1>11
  <2> QED
    BY <1>3, <1>11, <2>1 DEF RebuiltSane
<1>12. \A o \in Orders : r[o].withdrawn \in Nat
  BY <1>7, <1>10, <1>11
<1>13. PICK after \in [Orders -> Nat] : after = WithdrawnOf(r)
  BY <1>12 DEF WithdrawnOf
<1>14. f = [o \in D |-> after[o]]
  BY <1>7, <1>10, <1>13 DEF WithdrawnOf
<1>15. Total(f) = Total(after)
  <2>1. ZeroOff(Orders, D, after)
    BY <1>11, <1>13 DEF ZeroOff, WithdrawnOf
  <2> QED
    BY <1>14, <2>1, TotalOfSupport
<1>16. Total(f) = x
  <2>1. x <= Total(free)
    BY <1>1, <1>2 DEF PlanExists
  <2>2. \A o \in D : credits[o].status # "none"
    BY <1>3
  <2> QED
    BY <1>5, <1>7, <2>1, <2>2, DebitsAddUp
<1> QED
  BY <1>2, <1>8, <1>13, <1>15, <1>16

LEMMA PaidByRewind ==
  ASSUME ChainSound, BooksSound, BooksSound', WithdrawnSound, Rewind
  PROVE  PaidSound'
<1>1. PICK s \in Seq(Tx) : s = applied /\ Legal(s) /\ Solid(s)
  BY LegalNow DEF ChainSound
<1>2. PICK n \in 0..Len(s) : n = agreed /\ n < Len(s) /\ reorgs > 0
  BY <1>1 DEF ChainSound, Rewind
<1>3. PICK k, g, c : /\ Splits(s, k, g) /\ applied' = k
                     /\ g = {s[i] : i \in (n + 1)..Len(s)}
                     /\ c = RebuiltCredits(k, g) /\ RewindTo(k, g, c)
  BY <1>1, <1>2, RewindParts
<1>4. \A o \in Orders : RebuiltSane(k, o, c[o])
  BY <1>1, <1>3, RebuiltCreditsSane
<1>5. NothingRefused'
  <2>1. refused' \subseteq refused
    BY <1>3 DEF RewindTo
  <2> QED
    BY <2>1 DEF WithdrawnSound, NothingRefused
<1>6. PaidOutKnown'
  <2>1. PICK m \in Nat : m = n /\ Len(First(s, m)) = m
    BY <1>2, Cut
  <2>2. agreed' = agreed /\ reorgs' = reorgs /\ applied' = First(s, m)
    BY <1>1, <1>2, <1>3, <2>1 DEF RewindTo, Rewind, Kept, First, chainVars
  <2>3. ~(agreed' < Len(applied')) /\ reorgs' # 0
    BY <1>2, <2>1, <2>2
  <2> QED
    BY <2>3 DEF PaidOutKnown
<1>7. Total(WithdrawnOf(credits')) = WithdrawnBy(k)
  <2>1. CASE WithdrawalLost(g)
    <3>1. credits' = Replanned(k, c) /\ PlanExists(k, c)
      BY <1>3, <2>1 DEF RewindTo
    <3>2. ASSUME NEW o \in Orders, c[o].status \in MaturedStatus PROVE credits[o].status # "none"
      <4>1. Has(k, "pay", o)
        BY <1>3, <1>4, <3>2 DEF RebuiltSane, Splits, Solid
      <4>2. Has(s, "pay", o)
        BY <1>3, <4>1 DEF Splits
      <4> QED
        BY <1>1, <4>2 DEF WithdrawnSound, CreditsListed
    <3>3. Total(WithdrawnOf(credits')) = StillWithdrawn(k)
      BY <1>4, <3>1, <3>2, ReplannedTotal DEF WithdrawnSound
    <3>4. {v \in Withdrawals : Projected(k, "withdraw", v)} = {v \in Withdrawals : Has(k, "withdraw", v)}
      BY DEF Projected, EventOf, WithdrawnSound, NothingRefused
    <3> QED
      BY <3>3, <3>4 DEF StillWithdrawn, WithdrawnBy
  <2>2. CASE ~WithdrawalLost(g)
    <3>1. credits' = c
      BY <1>3, <2>2 DEF RewindTo
    <3>2. \A i \in (n + 1)..Len(s) : s[i][1] # "withdraw"
      <4> SUFFICES ASSUME NEW i \in (n + 1)..Len(s), s[i][1] = "withdraw" PROVE FALSE
        OBVIOUS
      <4>1. DOMAIN s = 1..Len(s) /\ Len(s) \in Nat
        BY LenProperties
      <4>2. s[i] \in Tx
        BY <4>1
      <4>3. s[i] = <<"withdraw", s[i][2]>> /\ s[i][2] \in Withdrawals
        BY <4>2, TxShape
      <4> QED
        BY <1>3, <2>2, <4>3 DEF WithdrawalLost
    <3>3. ASSUME NEW o \in Orders PROVE c[o].withdrawn = credits[o].withdrawn
      <4>1. CASE ~Touched(g, o)
        BY <1>3, <4>1 DEF RebuiltCredits
      <4>2. CASE Touched(g, o)
        <5>1. ~PaidOut(s, o)
          BY <1>1, <1>3, <3>2, <4>2, PaidOutUntouched
        <5>2. ~(credits[o].withdrawn > 0)
          BY <1>1, <1>2, <5>1 DEF WithdrawnSound, PaidOutKnown
        <5>3. credits[o].withdrawn \in Nat
          BY BooksByOrder, OrderTypes DEF CreditRow
        <5>4. c[o] = RebuiltCredit(k, o)
          BY <1>3, <4>2 DEF RebuiltCredits
        <5>5. Quiet
          BY DEF BooksSound, Quiet
        <5>6. c[o].withdrawn = 0
          BY <1>3, <5>4, <5>5, RebuiltCreditTells
        <5> QED
          BY <5>2, <5>3, <5>6
      <4> QED
        BY <4>1, <4>2
    <3>4. WithdrawnOf(credits') = WithdrawnOf(credits)
      BY <3>1, <3>3 DEF WithdrawnOf
    <3>5. \A w \in Withdrawals : Has(s, "withdraw", w) <=> Has(k, "withdraw", w)
      BY <1>3, <2>2 DEF Splits, WithdrawalLost
    <3>6. WithdrawnBy(s) = WithdrawnBy(k)
      BY <3>5, SameWithdrawals
    <3> QED
      BY <1>1, <3>4, <3>6 DEF WithdrawnSound, WithdrawnIsHistory, WithdrawnOf
  <2> QED
    BY <2>1, <2>2
<1>8. WithdrawnIsHistory'
  <2>1. \A o \in Orders : credits'[o].withdrawn <= credits'[o].amount
    BY DEF BooksSound, CreditSane
  <2> QED
    BY <1>3, <1>7, <2>1 DEF WithdrawnIsHistory, WithdrawnOf
<1> QED
  BY <1>5, <1>6, <1>8 DEF PaidSound

LEMMA WithdrawnInit ==
  ASSUME Init
  PROVE  WithdrawnSound
<1>1. PICK none : none = [o \in Orders |-> 0]
  OBVIOUS
<1>2. \A o \in Orders : credits[o].withdrawn = 0 /\ credits[o].amount = 0 /\ credits[o].status = "none"
  BY DEF Init, NoCredit
<1>3. [o \in Orders |-> credits[o].withdrawn] = none
  BY <1>1, <1>2
<1>4. \A kind, id : ~Has(applied, kind, id)
  BY DEF Init, Has
<1>5. WithdrawnBy(applied) = 0
  <2>1. {v \in Withdrawals : Has(applied, "withdraw", v)} = {}
    BY <1>4
  <2>2. PICK empty : empty = [v \in {} |-> 0]
    OBVIOUS
  <2>3. [v \in {} |-> Amount[v]] = empty
    BY <2>2
  <2> QED
    BY <2>1, <2>2, <2>3, TotalZero DEF WithdrawnBy
<1>6. CreditsListed
  BY <1>2, <1>4 DEF CreditsListed, Init
<1>7. WithdrawnIsHistory
  BY <1>1, <1>2, <1>3, <1>5, TotalZero DEF WithdrawnIsHistory
<1> QED
  BY <1>2, <1>6, <1>7 DEF WithdrawnSound, NothingRefused, PaidOutKnown, Init

LEMMA WithdrawnStep ==
  ASSUME CreditsRead, ChainSound, BooksSound, WithdrawnSound, [Next]_vars, reorgs' <= 1
  PROVE  WithdrawnSound'
<1>1. CreditsListed' /\ BooksSound' /\ PaidSound
  BY ListStep, BooksStepSound DEF WithdrawnSound, PaidSound
<1>2. RequestNext \/ UNCHANGED vars => PaidSound'
  BY <1>1, PaidKept, RequestsChangeRows DEF WithdrawnSound, PaidSound, chainVars, storeVars, vars
<1>3. ASSUME ChainNext PROVE PaidSound'
  <2>1. UNCHANGED <<applied, credits, refused>>
    BY <1>3, ChainStepKeepsBooks
  <2>2. reorgs' = 0 \/ agreed' < Len(applied) => reorgs = 0 \/ agreed < Len(applied)
    <3>1. CASE Reorganise
      <4>1. reorgs = 0
        BY <3>1 DEF Reorganise, ChainSound
      <4> QED
        BY <4>1
    <3>2. CASE ~Reorganise
      BY <1>3, <3>2 DEF ChainNext, Pay, Refund, FinalizeOrder, WithdrawMerchant, WindowCloses, Mine,
                        storeVars
    <3> QED
      BY <3>1, <3>2
  <2> QED
    BY <1>1, <2>1, <2>2, PaidKept DEF WithdrawnSound, PaidSound
<1>4. ASSUME NEW o \in Orders, OrderPaid(o) PROVE PaidSound'
  <2>1. NextIs("pay", o) /\ UNCHANGED chainVars
    BY <1>4 DEF OrderPaid
  <2>2. \A q \in refused' : q \in refused \/ q[2] # "MerchantWithdrawal"
    BY <1>4 DEF OrderPaid, Refuse
  <2> QED
    BY <1>1, <1>4, <2>1, <2>2, PaidCredit, PaidByCall
<1>5. ASSUME NEW o \in Orders, OrderFinalized(o) PROVE PaidSound'
  <2>1. NextIs("finalize", o) /\ UNCHANGED chainVars
    BY <1>5 DEF OrderFinalized
  <2>2. \A q \in refused' : q \in refused \/ q[2] # "MerchantWithdrawal"
    BY <1>5 DEF OrderFinalized, Refuse
  <2> QED
    BY <1>1, <1>5, <2>1, <2>2, FinalCredit, PaidByCall DEF WithdrawnSound
<1>6. ASSUME NEW r \in Refunds, OrderRefunded(r) PROVE PaidSound'
  <2>1. NextIs("refund", r) /\ UNCHANGED chainVars
    BY <1>6 DEF OrderRefunded
  <2>2. \A q \in refused' : q \in refused \/ q[2] # "MerchantWithdrawal"
    BY <1>6 DEF OrderRefunded, Refuse
  <2> QED
    BY <1>1, <1>6, <2>1, <2>2, RefundCredit, PaidByCall
<1>7. ASSUME NEW w \in Withdrawals, MerchantWithdrawal(w) PROVE PaidSound'
  BY <1>1, <1>7, PaidByWithdrawal
<1>8. ASSUME Rewind PROVE PaidSound'
  BY <1>1, <1>8, PaidByRewind
<1>9. IndexerNext => PaidSound'
  BY <1>4, <1>5, <1>6, <1>7, <1>8 DEF IndexerNext
<1>10. PaidSound'
  BY <1>2, <1>3, <1>9 DEF Next
<1> QED
  BY <1>1, <1>10 DEF WithdrawnSound, PaidSound

WInv == IInv /\ CreditsListed /\ (reorgs <= 1 => WithdrawnSound)

LEMMA ReorgsGrow ==
  ASSUME ChainSound, [Next]_vars, reorgs' <= 1
  PROVE  reorgs <= 1
<1>1. reorgs' = reorgs \/ reorgs' = reorgs + 1
  BY ProjectedNext, RequestsChangeRows
    DEF Next, ChainNext, IndexerNext, Pay, Refund, FinalizeOrder, WithdrawMerchant, WindowCloses,
        Mine, Reorganise, Rewind, RewindTo, chainVars, vars
<1> QED
  BY <1>1 DEF ChainSound

LEMMA WInvInit == Init => WInv
BY IInvInit, WithdrawnInit DEF WInv, WithdrawnSound

LEMMA WInvNext ==
  ASSUME CreditsRead, WInv, [Next]_vars
  PROVE  WInv'
<1>1. IInv' /\ CreditsListed'
  BY IInvNext, ListStep DEF WInv, IInv
<1>2. ASSUME reorgs' <= 1 PROVE WithdrawnSound'
  <2>1. reorgs <= 1
    BY <1>2, ReorgsGrow DEF WInv, IInv
  <2> QED
    BY <1>2, <2>1, WithdrawnStep DEF WInv, IInv
<1> QED
  BY <1>1, <1>2 DEF WInv

LEMMA WithdrawnInvariant ==
  ASSUME CreditsRead
  PROVE  Spec => []WInv
BY WInvInit, WInvNext, PTL DEF Spec

\* Until the chain reorganises a second time, the credits say withdrawn what the
\* contract paid out in the transactions that are projected.
THEOREM WithdrawnExactly ==
  ASSUME CreditsRead
  PROVE  Spec => [](reorgs <= 1 => WithdrawnIsHistory)
<1>1. WInv => (reorgs <= 1 => WithdrawnIsHistory)
  BY DEF WInv, WithdrawnSound
<1> QED
  BY <1>1, WithdrawnInvariant, PTL

\* Until the chain reorganises a second time, the projector refuses no event of
\* the contract but the pass of an order that it does not know as paid yet.
THEOREM NoEventRefused ==
  ASSUME CreditsRead
  PROVE  Spec => [](reorgs <= 1 => NothingRefused)
<1>1. WInv => (reorgs <= 1 => NothingRefused)
  BY DEF WInv, WithdrawnSound
<1> QED
  BY <1>1, WithdrawnInvariant, PTL

-----------------------------------------------------------------------------
(* Requests and their own calls                                            *)

\* #findBoundFinancialOperation reads every operation of the merchant.
CandidatesRead == Cardinality(Requests) <= CandidateLimit

\* A request that may still be bound by its hash has no other than its own.
Known(r, row) == row.status \in Pending \ {"orphaned"} => row.hash \in {NoTx, r}

SentRow(row) == row.status \notin {"none", "prepared"}

\* Only requests that were sent have a call.
SentFirst == \A r \in Requests :
  Has(chain, Kind(r), r) \/ Has(applied, Kind(r), r) => SentRow(rows[r])

\* In s, the call that confirmed r came no later than its own.
Held(s, r, row) == \A n \in 0..Len(s) : Has(First(s, n), Kind(r), r) =>
  row.status = "confirmed" /\ Has(First(s, n), Kind(r), row.hash)

CallsKnown == (\A r \in Requests : Known(r, rows[r])) /\ SentFirst
CallsHeld == \A r \in Requests : Twins(r) = {} => Held(applied, r, rows[r])

LEMMA CallOnce ==
  ASSUME NEW s \in Seq(Tx), Legal(s), NEW n \in 0..Len(s), NEW kind, NEW id,
         Has(First(s, n), kind, id)
  PROVE  <<kind, id>> \notin {s[i] : i \in (n + 1)..Len(s)}
<1> SUFFICES ASSUME NEW i \in (n + 1)..Len(s), s[i] = <<kind, id>> PROVE FALSE
  OBVIOUS
<1>1. DOMAIN s = 1..Len(s) /\ Len(s) \in Nat /\ n \in Nat
  BY LenProperties
<1>2. PICK k \in Nat : k = i - 1 /\ k < Len(s) /\ k + 1 = i /\ n \in 0..k /\ k \in 0..Len(s)
  BY <1>1
<1>3. ~Has(First(s, k), kind, id)
  <2>1. Callable(First(s, k), s[i])
    BY <1>2, LegalNext
  <2>2. s[i][1] = kind /\ s[i][2] = id
    OBVIOUS
  <2> QED
    BY <2>1, <2>2 DEF Callable
<1>4. First(s, n) = First(First(s, k), n)
  BY <1>2, CutTwice
<1>5. PICK p \in Seq(Tx) : p = First(s, k) /\ Len(p) = k
  BY <1>2, Cut
<1>6. n \in 0..Len(p) /\ Has(First(p, n), kind, id)
  BY <1>2, <1>4, <1>5
<1> QED
  BY <1>3, <1>5, <1>6, HasFirst

LEMMA HeldNow ==
  ASSUME NEW s \in Seq(Tx), NEW r, NEW row, Held(s, r, row), Has(s, Kind(r), r)
  PROVE  row.status = "confirmed" /\ Has(s, Kind(r), row.hash)
<1>1. First(s, Len(s)) = s /\ Len(s) \in 0..Len(s)
  BY CutWhole
<1> QED
  BY <1>1 DEF Held

LEMMA HeldVacuous ==
  ASSUME NEW s \in Seq(Tx), NEW r, NEW row, ~Has(s, Kind(r), r)
  PROVE  Held(s, r, row)
BY HasFirst DEF Held

LEMMA HeldMore ==
  ASSUME NEW s \in Seq(Tx), NEW c \in Tx, NEW r, NEW row, Held(s, r, row),
         Has(Append(s, c), Kind(r), r) =>
           row.status = "confirmed" /\ Has(Append(s, c), Kind(r), row.hash)
  PROVE  Held(Append(s, c), r, row)
<1>1. PICK t \in Seq(Tx) : /\ t = Append(s, c) /\ Len(t) = Len(s) + 1 /\ First(t, Len(s) + 1) = t
                           /\ \A n \in 0..Len(s) : First(t, n) = First(s, n)
  BY Longer
<1>2. Len(s) \in Nat /\ \A n \in 0..Len(t) : n \in 0..Len(s) \/ n = Len(s) + 1
  BY <1>1, CutWhole
<1>3. ASSUME NEW n \in 0..Len(t), Has(First(t, n), Kind(r), r)
      PROVE  row.status = "confirmed" /\ Has(First(t, n), Kind(r), row.hash)
  <2>1. CASE n \in 0..Len(s)
    BY <1>1, <1>3, <2>1 DEF Held
  <2>2. CASE n = Len(s) + 1
    BY <1>1, <1>3, <2>2
  <2> QED
    BY <1>2, <2>1, <2>2
<1>4. Held(t, r, row)
  BY <1>3 DEF Held
<1> QED
  BY <1>1, <1>4

LEMMA HeldFirst ==
  ASSUME NEW s \in Seq(Tx), NEW n \in 0..Len(s), NEW r, NEW row, Held(s, r, row)
  PROVE  Held(First(s, n), r, row)
<1>1. PICK p \in Seq(Tx) : p = First(s, n) /\ Len(p) = n
  BY Cut
<1>2. Len(s) \in Nat /\ n \in Nat /\ n <= Len(s)
  BY CutWhole
<1>3. \A m \in 0..Len(p) : First(p, m) = First(s, m) /\ m \in 0..Len(s)
  BY <1>1, <1>2, CutTwice
<1>4. Held(p, r, row)
  BY <1>3 DEF Held
<1> QED
  BY <1>1, <1>4

\* Its own call finds a request that has no twin and is still pending.
LEMMA BoundToOwn ==
  ASSUME RowsSound, CandidatesRead, NEW r \in Requests, NEW S,
         {q \in S \cap Requests : Amount[q] = Amount[r]} = {r},
         Known(r, rows[r]), SentRow(rows[r]), rows[r].status # "confirmed"
  PROVE  r \in Bound(S, r)
<1>1. PICK row \in RowType : row = rows[r]
  BY RowsByRequest
<1>2. row.status \in Pending
  BY <1>1 DEF RowType, Reserved, SentRow
<1>3. r \in Looked(S)
  <2>1. PICK older \in SUBSET Requests :
          older = {q \in S \cap Requests : Live(q) /\ q < r} /\ r \notin older
    <3>1. Requests \subseteq Nat
      BY NumberedAssumption DEF Requests
    <3>2. ~(r < r)
      BY <3>1
    <3>3. r \notin {q \in S \cap Requests : Live(q) /\ q < r}
      BY <3>2, Zenon
    <3> QED
      BY <3>3
  <2>2. IsFiniteSet(Requests)
    <3>1. IsFiniteSet(Refunds \cup Withdrawals) /\ Requests \subseteq Refunds \cup Withdrawals
      BY FiniteAssumption, FS_Union DEF Requests
    <3> QED
      BY <3>1, FS_Subset
  <2>3. Cardinality(older) <= Cardinality(Requests) /\ Cardinality(older) # Cardinality(Requests)
    BY <2>1, <2>2, FS_Subset
  <2>4. IsFiniteSet(older)
    BY <2>2, FS_Subset
  <2>5. PICK a \in Nat, b \in Nat : a = Cardinality(older) /\ b = Cardinality(Requests)
    BY <2>2, <2>4, FS_CardinalityType
  <2>6. a < CandidateLimit
    BY <2>3, <2>5, OtherAssumption DEF CandidatesRead
  <2>7. r \in S \cap Requests
    OBVIOUS
  <2>8. Live(r)
    BY <1>1, <1>2 DEF Live
  <2> QED
    BY <2>1, <2>5, <2>6, <2>7, <2>8 DEF Looked
<1>4. PICK C : C = {q \in S \cap Requests : Amount[q] = Amount[r]} \cap Looked(S) /\ C = {r}
  BY <1>3
<1>5. PICK exact : exact = {q \in C : rows[q].hash = r}
  OBVIOUS
<1>6. Selected(C, r) = IF Cardinality(exact) = 1 THEN exact
                       ELSE IF exact = {} /\ Cardinality(C) = 1
                            THEN {q \in C : rows[q].hash = NoTx \/ rows[q].status = "orphaned"}
                            ELSE {}
  BY <1>5 DEF Selected
<1>7. Cardinality({r}) = 1 /\ Cardinality({}) = 0
  BY FS_Singleton, FS_EmptySet
<1>8. r \in Selected(C, r)
  <2>1. CASE row.hash = r
    <3>1. exact = {r}
      BY <1>1, <1>4, <1>5, <2>1
    <3> QED
      BY <1>6, <1>7, <3>1
  <2>2. CASE row.hash # r
    <3>1. exact = {} /\ C = {r}
      BY <1>1, <1>4, <1>5, <2>2
    <3>2. row.hash = NoTx \/ row.status = "orphaned"
      BY <1>1, <1>2, <2>2 DEF Known
    <3> QED
      BY <1>1, <1>6, <1>7, <3>1, <3>2
  <2> QED
    BY <2>1, <2>2
<1> QED
  BY <1>4, <1>8 DEF Bound

\* What is bound to a call was not confirmed before.
LEMMA BoundPending ==
  ASSUME NEW S, NEW h, NEW r \in Bound(S, h)
  PROVE  rows[r].status \in Pending
<1>1. PICK C : C = {q \in S \cap Requests : Amount[q] = Amount[h]} \cap Looked(S)
  OBVIOUS
<1>2. \A q \in Selected(C, h) : q \in C
  BY DEF Selected
<1>3. \A q \in Looked(S) : rows[q].status \in Pending
  BY DEF Looked, Live
<1>4. r \in Selected(C, h) \/ rows[r].status = "orphaned"
  BY <1>1 DEF Bound
<1> QED
  BY <1>1, <1>2, <1>3, <1>4 DEF Pending

\* What a request step does to its row.
LEMMA RequestRow ==
  ASSUME RowsSound, CallsKnown, RequestNext
  PROVE  \E r \in Requests, row \in RowType :
           /\ rows' = [rows EXCEPT ![r] = row] /\ Known(r, row)
           /\ row.status \in Pending /\ rows[r].status \notin {"confirmed", "orphaned"}
           /\ SentRow(rows[r]) => SentRow(row)
           /\ rows[r].status = "none" => \/ r \in Refunds /\ CreateRefund(r)
                                         \/ r \in Withdrawals /\ CreateWithdrawal(r)
<1>1. PICK r \in Requests :
        \/ r \in Refunds /\ CreateRefund(r)
        \/ r \in Withdrawals /\ CreateWithdrawal(r)
        \/ StartSubmission(r)
        \/ \E hash \in {NoTx, r} : \/ RegisterSubmission(r, "submitted", hash)
                                  \/ RegisterSubmission(r, "submitted_unknown", hash)
  BY DEF RequestNext
<1>2. PICK old \in RowType : old = rows[r]
  BY RowsByRequest
<1>3. old.status \in Pending \ {"orphaned"} => old.hash \in {NoTx, r}
  BY <1>2 DEF CallsKnown, Known
<1> DEFINE Fits(row) ==
      /\ rows' = [rows EXCEPT ![r] = row] /\ Known(r, row) /\ row \in RowType
      /\ row.status \in Pending /\ old.status \notin {"confirmed", "orphaned"}
      /\ SentRow(old) => SentRow(row)
      /\ old.status = "none" => \/ r \in Refunds /\ CreateRefund(r)
                                \/ r \in Withdrawals /\ CreateWithdrawal(r)
<1>4. ASSUME \/ r \in Refunds /\ CreateRefund(r)
             \/ r \in Withdrawals /\ CreateWithdrawal(r)
      PROVE  \E row : Fits(row)
  <2>1. PICK row \in RowType : row = [status |-> "prepared", hash |-> NoTx]
    BY DEF RowType, Reserved, Pending
  <2>2. rows' = [rows EXCEPT ![r] = row] /\ old.status = "none"
    BY <1>2, <1>4, <2>1 DEF CreateRefund, CreateWithdrawal, SetRow
  <2>3. Known(r, row) /\ row.status \in Pending /\ ~SentRow(old)
    BY <2>1, <2>2 DEF Known, Pending, SentRow
  <2>4. Fits(row)
    BY <1>4, <2>1, <2>2, <2>3
  <2> QED
    BY <2>4
<1>5. ASSUME StartSubmission(r) PROVE \E row : Fits(row)
  <2>1. PICK row \in RowType : row = [old EXCEPT !.status = "submission_started"]
    BY DEF RowType, Reserved, Pending
  <2>2. row.status = "submission_started" /\ row.hash = old.hash
    BY <2>1 DEF RowType
  <2>3. rows' = [rows EXCEPT ![r] = row] /\ old.status = "prepared"
    BY <1>2, <1>5, <2>1 DEF StartSubmission, SetRow
  <2>4. Fits(row)
    BY <1>3, <2>2, <2>3 DEF Known, Pending, SentRow
  <2> QED
    BY <2>4
<1>6. ASSUME NEW hash \in {NoTx, r}, NEW status \in {"submitted", "submitted_unknown"},
             RegisterSubmission(r, status, hash)
      PROVE  \E row : Fits(row)
  <2>1. PICK known \in Refunds \cup Withdrawals \cup {NoTx} :
          known = IF hash = NoTx THEN old.hash ELSE hash
    BY DEF RowType, Requests
  <2>2. PICK row \in RowType : row = [status |-> status, hash |-> known]
    BY DEF RowType, Reserved, Pending
  <2>3. /\ rows' = [rows EXCEPT ![r] = row]
        /\ old.status \in {"submission_started", "submitted", "submitted_unknown"}
    BY <1>2, <1>6, <2>1, <2>2 DEF RegisterSubmission, MayBecome, SetRow
  <2>4. old.hash \in {NoTx, r}
    BY <1>3, <2>3 DEF Pending
  <2>5. row.hash \in {NoTx, r} /\ row.status = status
    BY <2>1, <2>2, <2>4
  <2>6. Known(r, row) /\ row.status \in Pending /\ SentRow(row)
    BY <2>5 DEF Known, Pending, SentRow
  <2>7. Fits(row)
    BY <2>3, <2>6
  <2> QED
    BY <2>7
<1>7. PICK row : Fits(row)
  <2> HIDE DEF Fits
  <2> QED
    BY <1>1, <1>4, <1>5, <1>6
<1> QED
  BY <1>2, <1>7

LEMMA KnownByRequest ==
  ASSUME RowsSound, CallsKnown, RequestNext
  PROVE  CallsKnown'
<1>1. PICK r \in Requests, row \in RowType :
        /\ rows' = [rows EXCEPT ![r] = row] /\ Known(r, row)
        /\ SentRow(rows[r]) => SentRow(row)
  BY RequestRow
<1>2. \A q \in Requests : rows'[q] = IF q = r THEN row ELSE rows[q]
  BY <1>1, RowsByRequest
<1>3. chain' = chain /\ applied' = applied
  BY RequestsChangeRows DEF chainVars, storeVars
<1> QED
  BY <1>1, <1>2, <1>3 DEF CallsKnown, SentFirst

LEMMA HeldByRequest ==
  ASSUME ChainSound, RowsSound, CallsKnown, CallsHeld, RequestNext
  PROVE  CallsHeld'
<1>1. PICK r \in Requests, row \in RowType :
        rows' = [rows EXCEPT ![r] = row] /\ rows[r].status # "confirmed"
  BY RequestRow
<1>2. \A q \in Requests : rows'[q] = IF q = r THEN row ELSE rows[q]
  BY <1>1, RowsByRequest
<1>3. PICK s \in Seq(Tx) : s = applied /\ s = applied'
  BY RequestsChangeRows DEF storeVars, ChainSound
<1>4. ASSUME NEW q \in Requests, Twins(q) = {} PROVE Held(s, q, rows'[q])
  <2>1. Held(s, q, rows[q])
    BY <1>3, <1>4 DEF CallsHeld
  <2>2. CASE q # r
    BY <1>2, <2>1, <2>2
  <2>3. CASE q = r
    <3>1. ~Has(s, Kind(q), q)
      BY <1>1, <2>1, <2>3, HeldNow
    <3> QED
      BY <3>1, HeldVacuous
  <2> QED
    BY <2>2, <2>3
<1> QED
  BY <1>3, <1>4 DEF CallsHeld

\* The calls of the chain are of requests that were sent.
LEMMA KnownByChain ==
  ASSUME ChainSound, CallsKnown, ChainNext
  PROVE  CallsKnown'
<1>1. rows' = rows /\ applied' = applied
  BY ChainStepKeepsBooks
<1>2. PICK s \in Seq(Tx) : s = chain /\ Len(s) \in Nat
  BY LenProperties DEF ChainSound
<1>3. ASSUME NEW r \in Requests, Has(chain', Kind(r), r) PROVE Has(s, Kind(r), r) \/ SentRow(rows[r])
  <2>1. ASSUME NEW kind, NEW id, <<kind, id>> \in Tx, Mine(kind, id),
               <<kind, id>> = <<Kind(r), r>> => SentRow(rows[r])
        PROVE  Has(s, Kind(r), r) \/ SentRow(rows[r])
    <3>1. PICK c \in Tx : c = <<kind, id>> /\ chain' = Append(s, c)
      BY <1>2, <2>1 DEF Mine
    <3> QED
      BY <1>3, <2>1, <3>1, HasMore
  <2>2. ASSUME Sent(r) PROVE SentRow(rows[r])
    BY <2>2 DEF Sent, SentRow, Requests
  <2>3. ASSUME NEW o \in Orders, Pay(o) \/ FinalizeOrder(o) PROVE Has(s, Kind(r), r) \/ SentRow(rows[r])
    <3>1. <<"pay", o>> # <<Kind(r), r>> /\ <<"finalize", o>> # <<Kind(r), r>>
      BY DEF Kind
    <3>2. <<"pay", o>> \in Tx /\ <<"finalize", o>> \in Tx
      BY TxMade
    <3>3. Mine("pay", o) \/ Mine("finalize", o)
      BY <2>3 DEF Pay, FinalizeOrder
    <3> QED
      BY <2>1, <3>1, <3>2, <3>3
  <2>4. ASSUME NEW q \in Refunds, Refund(q) PROVE Has(s, Kind(r), r) \/ SentRow(rows[r])
    <3>1. <<"refund", q>> = <<Kind(r), r>> => q = r
      OBVIOUS
    <3>2. Sent(q) /\ Mine("refund", q) /\ <<"refund", q>> \in Tx
      BY <2>4, TxMade DEF Refund
    <3> QED
      BY <2>1, <2>2, <3>1, <3>2
  <2>5. ASSUME NEW q \in Withdrawals, WithdrawMerchant(q) PROVE Has(s, Kind(r), r) \/ SentRow(rows[r])
    <3>1. <<"withdraw", q>> = <<Kind(r), r>> => q = r
      OBVIOUS
    <3>2. Sent(q) /\ Mine("withdraw", q) /\ <<"withdraw", q>> \in Tx
      BY <2>5, TxMade DEF WithdrawMerchant
    <3> QED
      BY <2>1, <2>2, <3>1, <3>2
  <2>6. CASE chain' = chain
    BY <1>2, <1>3, <2>6
  <2>7. CASE Reorganise
    <3>1. PICK n \in 0..(Len(s) - 1) : chain' = First(s, n)
      BY <1>2, <2>7 DEF Reorganise, First
    <3>2. n \in 0..Len(s)
      BY <1>2
    <3> QED
      BY <1>3, <3>1, <3>2, HasFirst
  <2> QED
    BY <2>3, <2>4, <2>5, <2>6, <2>7 DEF ChainNext, WindowCloses
<1> QED
  BY <1>1, <1>2, <1>3 DEF CallsKnown, SentFirst

LEMMA KnownByCall ==
  ASSUME ChainSound, CallsKnown, NEW kind, NEW id, NextIs(kind, id), UNCHANGED chainVars,
         \A r \in Requests : rows'[r] = rows[r] \/ rows'[r].status = "confirmed"
  PROVE  CallsKnown'
<1>1. PICK s \in Seq(Tx) : s = chain /\ chain' = s
  BY DEF ChainSound, chainVars
<1>2. PICK n \in 0..Len(s) : applied' = First(s, n)
  <2>1. Len(s) \in Nat /\ agreed \in Nat /\ agreed + 1 \in 0..Len(s)
    BY <1>1, LenProperties DEF NextIs, ChainSound
  <2> QED
    BY <1>1, <2>1, NextCall
<1>3. \A r \in Requests : Has(applied', Kind(r), r) => Has(s, Kind(r), r)
  BY <1>2, HasFirst
<1> QED
  BY <1>1, <1>3 DEF CallsKnown, SentFirst, Known, SentRow, Pending

\* A call that is of no request.
LEMMA HeldByOther ==
  ASSUME ChainSound, CallsHeld, NEW kind \in {"pay", "finalize"}, NEW id, NextIs(kind, id),
         rows' = rows
  PROVE  CallsHeld'
<1>1. PICK s \in Seq(Tx) : s = applied
  BY DEF ChainSound
<1>2. PICK c \in Tx : c = <<kind, id>> /\ applied' = Append(s, c)
  BY <1>1, NextCall
<1>3. ASSUME NEW r \in Requests, Twins(r) = {} PROVE Held(Append(s, c), r, rows[r])
  <2>1. Held(s, r, rows[r])
    BY <1>1, <1>3 DEF CallsHeld
  <2>2. Has(Append(s, c), Kind(r), r) => Has(s, Kind(r), r)
    BY <1>2, HasMore DEF Kind
  <2>3. Has(s, Kind(r), rows[r].hash) => Has(Append(s, c), Kind(r), rows[r].hash)
    BY HasMore
  <2> QED
    BY <2>1, <2>2, <2>3, HeldNow, HeldMore
<1> QED
  BY <1>2, <1>3 DEF CallsHeld

\* Where the requests are that a call could be of.
Alike(h) == IF h \in Refunds THEN RefundsOf(OrderOf[h]) ELSE Withdrawals

LEMMA HeldByOwn ==
  ASSUME ChainSound, RowsSound, CallsKnown, CallsHeld, CandidatesRead,
         NEW h \in Refunds \cup Withdrawals, NextIs(Kind(h), h), Confirm(Alike(h), h)
  PROVE  CallsHeld'
<1>1. PICK s \in Seq(Tx) : s = applied
  BY DEF ChainSound
<1>2. PICK c \in Tx : c = <<Kind(h), h>> /\ applied' = Append(s, c) /\ Callable(s, c)
  BY <1>1, NextCall
<1>3. \A kind, id : Has(Append(s, c), kind, id) <=> Has(s, kind, id) \/ c = <<kind, id>>
  BY HasMore
<1>4. \A r \in Requests : rows'[r] = IF r \in Bound(Alike(h), h)
                                     THEN [status |-> "confirmed", hash |-> h] ELSE rows[r]
  BY DEF Confirm
<1>5. ASSUME NEW r \in Requests, Twins(r) = {} PROVE Held(Append(s, c), r, rows'[r])
  <2>1. Held(s, r, rows[r])
    BY <1>1, <1>5 DEF CallsHeld
  <2>2. CASE Has(s, Kind(r), r)
    <3>1. rows[r].status = "confirmed" /\ Has(s, Kind(r), rows[r].hash)
      BY <2>1, <2>2, HeldNow
    <3>2. r \notin Bound(Alike(h), h)
      BY <3>1, BoundPending DEF Pending
    <3>3. rows'[r] = rows[r]
      BY <1>4, <3>2
    <3> QED
      BY <1>3, <2>1, <3>1, <3>3, HeldMore
  <2>3. CASE ~Has(s, Kind(r), r) /\ r # h
    <3>1. ~Has(Append(s, c), Kind(r), r)
      BY <1>2, <1>3, <2>3
    <3>2. PICK t \in Seq(Tx) : t = Append(s, c)
      BY AppendProperties
    <3> QED
      BY <3>1, <3>2, HeldVacuous
  <2>4. CASE ~Has(s, Kind(r), r) /\ r = h
    <3>1. Held(s, r, rows'[r])
      BY <2>4, HeldVacuous
    <3>2. rows'[r].status = "confirmed" /\ Has(Append(s, c), Kind(r), rows'[r].hash)
      <4>1. CASE r \in Bound(Alike(h), h)
        <5>1. rows'[r] = [status |-> "confirmed", hash |-> h]
          BY <1>4, <4>1
        <5> QED
          BY <1>2, <1>3, <2>4, <5>1
      <4>2. CASE rows[r].status = "confirmed"
        <5>1. Has(s, Kind(r), rows[r].hash)
          BY <1>1, <4>2, RowsByRequest DEF Backed
        <5>2. rows'[r] = rows[r]
          BY <1>4, <4>2, BoundPending DEF Pending
        <5> QED
          BY <1>3, <4>2, <5>1, <5>2
      <4>3. CASE rows[r].status # "confirmed"
        <5>1. {q \in Alike(h) \cap Requests : Amount[q] = Amount[r]} = {r}
          <6>1. r \in Alike(h)
            BY <2>4 DEF Alike, Requests, RefundsOf
          <6>2. \A q \in Alike(h) \cap Requests : q # r => Amount[q] # Amount[r]
            BY <1>5, <2>4 DEF Twins, Alike
          <6> QED
            BY <6>1, <6>2
        <5>2. Has(chain, Kind(r), r)
          <6>1. chain \in Seq(Tx) /\ agreed \in Nat /\ agreed + 1 \in 1..Len(chain)
            BY DEF ChainSound, NextIs
          <6>2. agreed + 1 \in DOMAIN chain
            BY <6>1, LenProperties
          <6> QED
            BY <2>4, <6>2 DEF NextIs, Has
        <5>3. Known(r, rows[r]) /\ SentRow(rows[r])
          BY <5>2 DEF CallsKnown, SentFirst
        <5>4. PICK S : S = Alike(h)
          OBVIOUS
        <5>5. r \in Bound(S, r)
          BY <4>3, <5>1, <5>3, <5>4, BoundToOwn
        <5> QED
          BY <2>4, <4>1, <5>4, <5>5
      <4> QED
        BY <4>1, <4>2, <4>3
    <3> QED
      BY <3>1, <3>2, HeldMore
  <2> QED
    BY <2>2, <2>3, <2>4
<1> QED
  BY <1>2, <1>5 DEF CallsHeld

LEMMA RewoundRow ==
  ASSUME ChainSound, RowsSound, NEW k, NEW g, NEW c, RewindTo(k, g, c), NEW r \in Requests
  PROVE  rows'[r] = rows[r] \/ rows'[r].status = "orphaned"
<1>1. rows[r] \in RowType
  BY RowsByRequest
<1>2. rows'[r] = IF Unconfirmed(g, r) THEN [rows[r] EXCEPT !.status = "orphaned"] ELSE rows[r]
  BY DEF RewindTo
<1> QED
  BY <1>1, <1>2 DEF RowType

LEMMA KnownByRewind ==
  ASSUME ChainSound, RowsSound, CallsKnown, Rewind
  PROVE  CallsKnown'
<1>1. PICK k, g, c : Splits(applied, k, g) /\ applied' = k /\ RewindTo(k, g, c)
  BY RewindParts
<1>2. chain' = chain /\ \A r \in Requests : Has(k, Kind(r), r) => Has(applied, Kind(r), r)
  BY <1>1 DEF RewindTo, chainVars, Splits
<1>3. \A r \in Requests : rows'[r] = rows[r] \/ rows'[r].status = "orphaned"
  BY <1>1, RewoundRow
<1> QED
  BY <1>1, <1>2, <1>3 DEF CallsKnown, SentFirst, Known, SentRow

LEMMA HeldByRewind ==
  ASSUME ChainSound, RowsSound, CallsHeld, Rewind
  PROVE  CallsHeld'
<1>1. PICK s \in Seq(Tx) : s = applied /\ Legal(s)
  BY DEF ChainSound
<1>2. PICK n \in 0..Len(s) : n = agreed
  BY <1>1 DEF ChainSound
<1>3. PICK k, g, c : /\ applied' = k /\ RewindTo(k, g, c)
                     /\ g = {s[i] : i \in (n + 1)..Len(s)}
  BY <1>1, <1>2, RewindParts
<1>4. k = First(s, n)
  BY <1>1, <1>2, <1>3 DEF Rewind, RewindTo, Kept, First
<1>5. ASSUME NEW r \in Requests, Twins(r) = {} PROVE Held(k, r, rows'[r])
  <2>1. Held(k, r, rows[r])
    BY <1>1, <1>4, <1>5, HeldFirst DEF CallsHeld
  <2>2. k \in Seq(Tx)
    BY <1>4, Cut
  <2>3. CASE ~Has(k, Kind(r), r)
    BY <2>2, <2>3, HeldVacuous
  <2>4. CASE Has(k, Kind(r), r)
    <3>1. Has(k, Kind(r), rows[r].hash)
      BY <2>1, <2>2, <2>4, HeldNow
    <3>2. <<Kind(r), rows[r].hash>> \notin g
      BY <1>1, <1>3, <1>4, <3>1, CallOnce
    <3>3. ~Unconfirmed(g, r)
      BY <3>2 DEF Unconfirmed, Kind
    <3>4. rows'[r] = rows[r]
      BY <1>3, <3>3 DEF RewindTo
    <3> QED
      BY <2>1, <3>4
  <2> QED
    BY <2>3, <2>4
<1> QED
  BY <1>3, <1>5 DEF CallsHeld

LEMMA WithdrawalConfirms ==
  ASSUME CreditsRead, ChainSound, BooksSound, WithdrawnSound,
         NEW w \in Withdrawals, MerchantWithdrawal(w)
  PROVE  Confirm(Withdrawals, w)
<1>1. refused' = refused
  BY WithdrawalAgrees
<1>2. \/ Confirm(Withdrawals, w)
      \/ Refuse({"MerchantWithdrawal"})
  BY DEF MerchantWithdrawal
<1>3. Refuse({"MerchantWithdrawal"}) => <<chain[agreed + 1], "MerchantWithdrawal">> \in refused'
  BY DEF Refuse
<1>4. <<chain[agreed + 1], "MerchantWithdrawal">> \notin refused
  BY DEF WithdrawnSound, NothingRefused
<1> QED
  BY <1>1, <1>2, <1>3, <1>4

LEMMA RefundConfirms ==
  ASSUME ChainSound, BooksSound, NEW r \in Refunds, OrderRefunded(r)
  PROVE  Confirm(RefundsOf(OrderOf[r]), r)
<1>1. RefundAgrees(r)
  BY RefundMet DEF OrderRefunded
<1> QED
  BY <1>1 DEF OrderRefunded

LEMMA KnownStep ==
  ASSUME ChainSound, BooksSound, RowsSound, CallsKnown, [Next]_vars
  PROVE  CallsKnown'
<1>1. ASSUME NEW o \in Orders, OrderPaid(o) \/ OrderFinalized(o) PROVE CallsKnown'
  <2>1. rows' = rows /\ UNCHANGED chainVars /\ (NextIs("pay", o) \/ NextIs("finalize", o))
    BY <1>1 DEF OrderPaid, OrderFinalized
  <2> QED
    BY <2>1, KnownByCall
<1>2. ASSUME NEW S, NEW h, Confirm(S, h) \/ rows' = rows
      PROVE  \A r \in Requests : rows'[r] = rows[r] \/ rows'[r].status = "confirmed"
  BY <1>2 DEF Confirm
<1>3. ASSUME NEW r \in Refunds, OrderRefunded(r) PROVE CallsKnown'
  <2>1. NextIs("refund", r) /\ UNCHANGED chainVars
    BY <1>3 DEF OrderRefunded
  <2> QED
    BY <1>2, <1>3, <2>1, RefundConfirms, KnownByCall
<1>4. ASSUME NEW w \in Withdrawals, MerchantWithdrawal(w) PROVE CallsKnown'
  <2>1. NextIs("withdraw", w) /\ UNCHANGED chainVars /\ (Confirm(Withdrawals, w) \/ rows' = rows)
    BY <1>4 DEF MerchantWithdrawal
  <2> QED
    BY <1>2, <2>1, KnownByCall
<1>5. UNCHANGED vars => CallsKnown'
  BY DEF vars, chainVars, storeVars, CallsKnown, SentFirst
<1> QED
  BY <1>1, <1>3, <1>4, <1>5, KnownByRequest, KnownByChain, KnownByRewind DEF Next, IndexerNext

LEMMA HeldStep ==
  ASSUME CreditsRead, CandidatesRead, ChainSound, BooksSound, RowsSound, WithdrawnSound,
         CallsKnown, CallsHeld, [Next]_vars
  PROVE  CallsHeld'
<1>1. ASSUME NEW o \in Orders, OrderPaid(o) \/ OrderFinalized(o) PROVE CallsHeld'
  <2>1. rows' = rows /\ (NextIs("pay", o) \/ NextIs("finalize", o))
    BY <1>1 DEF OrderPaid, OrderFinalized
  <2> QED
    BY <2>1, HeldByOther
<1>2. ASSUME NEW r \in Refunds, OrderRefunded(r) PROVE CallsHeld'
  <2>1. NextIs(Kind(r), r) /\ Confirm(Alike(r), r)
    BY <1>2, RefundConfirms DEF OrderRefunded, Kind, Alike
  <2> QED
    BY <2>1, HeldByOwn
<1>3. ASSUME NEW w \in Withdrawals, MerchantWithdrawal(w) PROVE CallsHeld'
  <2>1. w \notin Refunds
    BY NumberedAssumption
  <2>2. NextIs(Kind(w), w) /\ Confirm(Alike(w), w)
    BY <1>3, <2>1, WithdrawalConfirms DEF MerchantWithdrawal, Kind, Alike
  <2> QED
    BY <2>2, HeldByOwn
<1>4. ChainNext \/ UNCHANGED vars => CallsHeld'
  <2>1. ChainNext \/ UNCHANGED vars => applied' = applied /\ rows' = rows
    BY ChainStepKeepsBooks DEF vars, storeVars
  <2> QED
    BY <2>1 DEF CallsHeld
<1> QED
  BY <1>1, <1>2, <1>3, <1>4, HeldByRequest, HeldByRewind DEF Next, IndexerNext

LEMMA CallsInit ==
  ASSUME Init
  PROVE  CallsKnown /\ CallsHeld
<1>1. \A kind, id : ~Has(applied, kind, id) /\ ~Has(chain, kind, id)
  BY DEF Init, Has
<1>2. applied \in Seq(Tx)
  BY ChainInit DEF ChainSound
<1>3. \A r \in Requests : Known(r, rows[r])
  BY DEF Init, Known, Pending
<1> QED
  BY <1>1, <1>2, <1>3, HeldVacuous DEF CallsKnown, CallsHeld, SentFirst

EInv == WInv /\ CallsKnown /\ (reorgs <= 1 => CallsHeld)

LEMMA CallsNext ==
  ASSUME CreditsRead, CandidatesRead, EInv, [Next]_vars
  PROVE  EInv'
<1>1. WInv' /\ CallsKnown'
  BY WInvNext, KnownStep DEF EInv, WInv, IInv
<1>2. ASSUME reorgs' <= 1 PROVE CallsHeld'
  <2>1. reorgs <= 1
    BY <1>2, ReorgsGrow DEF EInv, WInv, IInv
  <2> QED
    BY <2>1, HeldStep DEF EInv, WInv, IInv
<1> QED
  BY <1>1, <1>2 DEF EInv

LEMMA CallsInvariant ==
  ASSUME CreditsRead, CandidatesRead
  PROVE  Spec => []EInv
<1>1. Init => EInv
  BY WInvInit, CallsInit DEF EInv
<1> QED
  BY <1>1, CallsNext, PTL DEF Spec

\* Until the chain reorganises a second time, a request that no other can be
\* taken for is confirmed as soon as its call is projected.
THEOREM ExecutedGetsConfirmed ==
  ASSUME CreditsRead, CandidatesRead
  PROVE  Spec => [](reorgs <= 1 => ExecutedIsConfirmed)
<1>1. EInv => (reorgs <= 1 => ExecutedIsConfirmed)
  BY HeldNow DEF EInv, WInv, IInv, ChainSound, CallsHeld, ExecutedIsConfirmed, Kind
<1> QED
  BY <1>1, CallsInvariant, PTL

-----------------------------------------------------------------------------
(* What is promised.  All that was ever asked for stays below what the     *)
(* orders past their refund window leave to the merchant: their refunds    *)
(* may still leave the chain, but none comes back.                         *)

\* What the orders of C are worth to the merchant after the calls s.
Worth(C, s) == Total([o \in C |-> MerchantPart(o, RefundedBy(s, o))])

Final(s) == {o \in Orders : Has(s, "finalize", o)}

Asked == Requested(Withdrawals, Reserved)

LEMMA RefundedLess ==
  ASSUME NEW s, NEW t, NEW o,
         \A r \in RefundsOf(o) : Has(t, "refund", r) => Has(s, "refund", r)
  PROVE  RefundedBy(t, o) <= RefundedBy(s, o)
<1>1. PICK S \in SUBSET (Refunds \cup Withdrawals) : S = {q \in RefundsOf(o) : Has(s, "refund", q)}
  BY DEF RefundsOf
<1>2. PICK T \in SUBSET S : T = {q \in RefundsOf(o) : Has(t, "refund", q)}
  BY <1>1
<1>3. Total([r \in T |-> Amount[r]]) <= Total([r \in S |-> Amount[r]])
  BY SumPart
<1> QED
  BY <1>1, <1>2, <1>3 DEF RefundedBy

LEMMA WorthType ==
  ASSUME NEW s, Solid(s), NEW C \in SUBSET Orders
  PROVE  Worth(C, s) \in Nat /\ MaturedBy(s) = Worth(Final(s), s)
<1>1. IsFiniteSet(C)
  BY FiniteAssumption, FS_Subset
<1>2. PICK f \in [Orders -> Nat] : f = Credited(s)
  BY CreditedType DEF Solid
<1>3. [o \in C |-> f[o]] = [o \in C |-> MerchantPart(o, RefundedBy(s, o))]
  BY <1>2 DEF Credited
<1>4. PICK g \in [C -> Nat] : g = [o \in C |-> f[o]]
  OBVIOUS
<1>5. Total(g) \in Nat
  BY <1>1, TotalType
<1> QED
  BY <1>3, <1>4, <1>5 DEF Worth, MaturedBy, Final

\* More orders with fewer refunds are worth no less.
LEMMA WorthGrows ==
  ASSUME NEW s, Solid(s), NEW t, Solid(t), NEW D \in SUBSET Orders, NEW C \in SUBSET D,
         \A o \in C : \A r \in RefundsOf(o) : Has(t, "refund", r) => Has(s, "refund", r)
  PROVE  Worth(C, s) <= Worth(D, t)
<1>1. IsFiniteSet(C) /\ IsFiniteSet(D)
  BY FiniteAssumption, FS_Subset
<1>2. PICK f \in [Orders -> Nat], h \in [Orders -> Nat] : f = Credited(s) /\ h = Credited(t)
  BY CreditedType DEF Solid
<1>3. ASSUME NEW o \in C PROVE f[o] <= h[o]
  <2>1. PICK x \in Nat, y \in Nat : x = RefundedBy(t, o) /\ y = RefundedBy(s, o)
    BY RefundedType
  <2>2. x <= y /\ y <= Price[o]
    BY <2>1, RefundedLess DEF Solid
  <2>3. MerchantPart(o, y) <= MerchantPart(o, x)
    BY <2>2, Parts
  <2> QED
    BY <1>2, <2>1, <2>3 DEF Credited
<1>4. PICK fc \in [C -> Nat], hc \in [C -> Nat], hd \in [D -> Nat] :
        /\ fc = [o \in C |-> f[o]] /\ hc = [o \in C |-> h[o]] /\ hd = [o \in D |-> h[o]]
  OBVIOUS
<1>5. \A o \in C : fc[o] <= hc[o]
  BY <1>3, <1>4
<1>6. Total(fc) <= Total(hc)
  BY <1>1, <1>5, TotalGrows
<1>7. PICK b \in Nat, d \in Nat, a \in Nat : a = Total(fc) /\ b = Total(hc) /\ d = Total(hd)
  BY <1>1, TotalType
<1>8. [o \in C |-> hd[o]] = hc
  BY <1>4
<1>9. Total([o \in C |-> hd[o]]) \in 0..Total(hd)
  BY <1>1, TotalOfPart
<1>10. b <= d
  BY <1>7, <1>8, <1>9
<1>11. a <= b
  BY <1>6, <1>7
<1>12. fc = [o \in C |-> MerchantPart(o, RefundedBy(s, o))] /\ hd = [o \in D |-> MerchantPart(o, RefundedBy(t, o))]
  BY <1>2, <1>4 DEF Credited
<1> QED
  BY <1>7, <1>10, <1>11, <1>12 DEF Worth

LEMMA AskedType ==
  Asked \in Nat /\ Promised \in Nat /\ Requested(Withdrawals, {"confirmed"}) \in Nat
<1>1. \A T : Requested(Withdrawals, T) \in Nat
  <2> TAKE T
  <2>1. PICK S \in SUBSET (Refunds \cup Withdrawals) :
          S = {q \in Withdrawals \cap Requests : rows[q].status \in T}
    OBVIOUS
  <2> QED
    BY <2>1, SumType DEF Requested
<1> QED
  BY <1>1 DEF Asked, Promised

LEMMA AskedParts ==
  Asked = Promised + Requested(Withdrawals, {"confirmed"})
<1>1. PICK A \in SUBSET (Refunds \cup Withdrawals) :
        A = {q \in Withdrawals \cap Requests : rows[q].status \in Reserved}
  OBVIOUS
<1>2. PICK S \in SUBSET A : S = {q \in Withdrawals \cap Requests : rows[q].status \in Pending}
  BY <1>1 DEF Reserved
<1>3. PICK T \in SUBSET A : T = {q \in Withdrawals \cap Requests : rows[q].status \in {"confirmed"}}
  BY <1>1 DEF Reserved
<1>4. S \cup T = A /\ S \cap T = {}
  BY <1>1, <1>2, <1>3 DEF Reserved, Pending
<1>5. IsFiniteSet(A)
  BY FiniteAssumption, FS_Union, FS_Subset
<1>6. PICK h \in [A -> Nat] : h = [r \in A |-> Amount[r]]
  BY AmountAssumption
<1>7. Total(h) = Total([r \in S |-> h[r]]) + Total([r \in T |-> h[r]])
  BY <1>4, <1>5, TotalOfParts
<1>8. [r \in S |-> h[r]] = [r \in S |-> Amount[r]] /\ [r \in T |-> h[r]] = [r \in T |-> Amount[r]]
  BY <1>6
<1> QED
  BY <1>1, <1>2, <1>3, <1>6, <1>7, <1>8 DEF Asked, Promised, Requested

\* The withdrawals can be told apart and all go through the application.
Plain == Direct \cap Withdrawals = {} /\ \A w \in Withdrawals : Twins(w) = {}

\* Then those that are confirmed are those that are projected.
LEMMA ConfirmedIsPaid ==
  ASSUME Plain, ChainSound, RowsSound, CallsHeld
  PROVE  Requested(Withdrawals, {"confirmed"}) = WithdrawnBy(applied)
<1>1. PICK s \in Seq(Tx) : s = applied
  BY DEF ChainSound
<1>2. ASSUME NEW w \in Withdrawals
      PROVE  w \in Requests /\ (rows[w].status = "confirmed" <=> Has(s, "withdraw", w))
  <2>1. w \in Requests /\ Kind(w) = "withdraw" /\ Twins(w) = {} /\ w \notin Refunds
    BY NumberedAssumption DEF Plain, Requests, Kind
  <2>2. Has(s, "withdraw", w) => rows[w].status = "confirmed"
    BY <1>1, <2>1, HeldNow DEF CallsHeld
  <2>3. ASSUME rows[w].status = "confirmed" PROVE Has(s, "withdraw", w)
    <3>1. PICK h : h = rows[w].hash /\ Amount[h] = Amount[w] /\ Has(s, "withdraw", h)
      BY <1>1, <2>1, <2>3, RowsByRequest DEF Backed
    <3>2. PICK n \in DOMAIN s : s[n] = <<"withdraw", h>>
      BY <3>1 DEF Has
    <3>3. s[n] \in Tx
      BY <3>2, LenProperties
    <3>4. h \in Withdrawals
      BY <3>2, <3>3, TxShape
    <3>5. h \in Requests
      BY <3>4 DEF Plain, Requests
    <3>6. h # w => h \in Twins(w)
      BY <2>1, <3>1, <3>4, <3>5 DEF Twins
    <3> QED
      BY <2>1, <3>1, <3>6
  <2> QED
    BY <2>1, <2>2, <2>3
<1>3. {q \in Withdrawals \cap Requests : rows[q].status \in {"confirmed"}}
        = {v \in Withdrawals : Has(s, "withdraw", v)}
  BY <1>2
<1> QED
  BY <1>1, <1>3 DEF Requested, WithdrawnBy

LEMMA SpendableIs ==
  ASSUME ChainSound, BooksSound, WithdrawnIsHistory
  PROVE  Spendable \in Nat /\ MaturedBy(applied) = Spendable + WithdrawnBy(applied)
<1>1. Total(WithdrawnOf(credits)) = WithdrawnBy(applied)
  BY DEF WithdrawnIsHistory, WithdrawnOf
<1>2. MaturedBy(applied) = Total(WithdrawnOf(credits)) + Spendable
  BY MaturedCredits DEF Spendable
<1>3. PICK M \in SUBSET Orders : M = Matured
  BY DEF Matured
<1>4. PICK e \in [M -> Nat] : e = [o \in M |-> Free(o)]
  BY <1>3, MaturedCredits
<1>5. Total(e) \in Nat
  BY FiniteAssumption, FS_Subset, TotalType
<1>6. PICK x \in Nat, y \in Nat : x = Spendable /\ y = WithdrawnBy(applied)
  BY <1>3, <1>4, <1>5, WithdrawnType DEF Spendable
<1> QED
  BY <1>1, <1>2, <1>6

-----------------------------------------------------------------------------
(* Orders past their refund window                                         *)

\* A refund of an order comes before its finalization.
LEMMA RefundFirst ==
  ASSUME NEW s \in Seq(Tx), Legal(s), NEW n \in 0..Len(s), NEW o,
         Has(First(s, n), "finalize", o), NEW r \in RefundsOf(o), Has(s, "refund", r)
  PROVE  Has(First(s, n), "refund", r)
<1>1. PICK i \in 1..Len(s) : s[i] = <<"refund", r>>
  BY Cut DEF Has
<1>2. Len(s) \in Nat /\ n \in Nat /\ n <= Len(s)
  BY CutWhole
<1>3. CASE i \in 1..n
  BY <1>1, <1>3, Cut DEF Has
<1>4. CASE n < i
  <2>1. PICK j \in Nat : j + 1 = i /\ j < Len(s) /\ n <= j /\ j \in 0..Len(s)
    <3>1. i - 1 \in Nat
      BY <1>1
    <3> QED
      BY <1>2, <1>4, <3>1
  <2>2. Callable(First(s, j), <<"refund", r>>)
    BY <1>1, <2>1, LegalNext
  <2>3. ~Has(First(s, j), "finalize", o)
    BY <2>2 DEF Callable, RefundsOf
  <2>4. PICK m \in 1..n : s[m] = <<"finalize", o>>
    BY Cut DEF Has
  <2>5. m \in 1..j
    BY <1>2, <2>1
  <2>6. Has(First(s, j), "finalize", o)
    BY <2>1, <2>4, <2>5, Cut DEF Has
  <2> QED
    BY <2>3, <2>6
<1> QED
  BY <1>1, <1>2, <1>3, <1>4

\* After no calls of s that t lacks, an order of C is refunded.
NoFurther(C, s, t) == \A o \in C : \A r \in RefundsOf(o) : Has(t, "refund", r) => Has(s, "refund", r)

\* An order is finalized past its refund window, on the chain and in what is
\* projected of it, and what is projected has all the refunds it ever gets.
WindowsSound ==
  /\ Final(chain) \subseteq closed /\ Final(applied) \subseteq closed
  /\ NoFurther(Final(applied), applied, chain)

\* A projected call and a rewind leave projected a prefix of the chain.
LEMMA ProjectsPrefix ==
  ASSUME ChainSound,
         Rewind \/ (UNCHANGED chainVars /\ \E kind, id : NextIs(kind, id))
  PROVE  /\ chain' = chain /\ closed' = closed /\ reorgs' = reorgs
         /\ \E n \in 0..Len(chain) : applied' = First(chain, n)
<1>1. PICK k \in 0..Len(chain) : k = agreed
  BY ChainLengths
<1>2. ASSUME Rewind PROVE applied' = First(chain, k) /\ UNCHANGED chainVars
  BY <1>1, <1>2 DEF Rewind, RewindTo, Kept, First, ChainSound
<1>3. ASSUME UNCHANGED chainVars, NEW kind, NEW id, NextIs(kind, id)
      PROVE  k + 1 \in 0..Len(chain) /\ applied' = First(chain, k + 1)
  <2>1. applied' = First(chain, k + 1) /\ k < Len(chain)
    BY <1>1, <1>3, NextCall DEF NextIs
  <2> QED
    BY <2>1, ChainLengths
<1> QED
  BY <1>1, <1>2, <1>3 DEF chainVars

\* What a step of the chain does to the orders past their refund window.
LEMMA ChainMoves ==
  ASSUME ChainSound, WindowsSound, ChainNext
  PROVE  /\ closed \subseteq closed' /\ applied' = applied /\ rows' = rows
         /\ Final(chain') \subseteq closed' /\ NoFurther(closed, chain, chain')
<1>1. applied' = applied /\ rows' = rows
  BY ChainStepKeepsBooks
<1>2. PICK s \in Seq(Tx) : s = chain /\ Len(s) \in Nat
  BY LenProperties DEF ChainSound
<1>3. ASSUME NEW kind, NEW id, <<kind, id>> \in Tx, Mine(kind, id),
             kind = "finalize" => id \in closed,
             kind = "refund" => OrderOf[id] \notin closed
      PROVE  closed' = closed /\ Final(chain') \subseteq closed /\ NoFurther(closed, s, chain')
  <2>1. PICK c \in Tx : c = <<kind, id>> /\ chain' = Append(s, c)
    BY <1>2, <1>3 DEF Mine
  <2>2. PICK t : t = chain' /\ \A k, i : Has(t, k, i) <=> Has(s, k, i) \/ c = <<k, i>>
    <3>1. ASSUME NEW k, NEW i
          PROVE  Has(Append(s, c), k, i) <=> Has(s, k, i) \/ c = <<k, i>>
      BY HasMore
    <3>2. QED
      BY <2>1, <3>1
  <2>3. Final(t) \subseteq closed
    <3>1. SUFFICES ASSUME NEW o \in Orders, Has(t, "finalize", o) PROVE o \in closed
      BY DEF Final
    <3>2. CASE Has(s, "finalize", o)
      BY <1>2, <3>2 DEF Final, WindowsSound
    <3>3. CASE c = <<"finalize", o>>
      BY <1>3, <2>1, <3>3
    <3>4. QED
      BY <2>2, <3>1, <3>2, <3>3
  <2>4. NoFurther(closed, s, t)
    BY <1>3, <2>1, <2>2 DEF NoFurther, RefundsOf
  <2> QED
    BY <1>3, <2>2, <2>3, <2>4 DEF Mine
<1>4. ASSUME NEW o \in Orders, Pay(o)
      PROVE  closed' = closed /\ Final(chain') \subseteq closed /\ NoFurther(closed, s, chain')
  BY <1>3, <1>4, TxMade DEF Pay
<1>5. ASSUME NEW o \in Orders, FinalizeOrder(o)
      PROVE  closed' = closed /\ Final(chain') \subseteq closed /\ NoFurther(closed, s, chain')
  BY <1>3, <1>5, TxMade DEF FinalizeOrder
<1>6. ASSUME NEW r \in Refunds, Refund(r)
      PROVE  closed' = closed /\ Final(chain') \subseteq closed /\ NoFurther(closed, s, chain')
  BY <1>3, <1>6, TxMade DEF Refund
<1>7. ASSUME NEW w \in Withdrawals, WithdrawMerchant(w)
      PROVE  closed' = closed /\ Final(chain') \subseteq closed /\ NoFurther(closed, s, chain')
  BY <1>3, <1>7, TxMade DEF WithdrawMerchant
<1>8. ASSUME NEW o \in Orders, WindowCloses(o)
      PROVE  closed \subseteq closed' /\ chain' = s
  BY <1>2, <1>8 DEF WindowCloses
<1>9. ASSUME Reorganise
      PROVE  closed' = closed /\ Final(chain') \subseteq closed /\ NoFurther(closed, s, chain')
  <2>1. PICK n \in 0..Len(s) : chain' = First(s, n)
    BY <1>2, <1>9 DEF Reorganise, First
  <2>2. PICK t : t = chain' /\ \A k, i : Has(t, k, i) => Has(s, k, i)
    BY <2>1, HasFirst
  <2> QED
    BY <1>2, <1>9, <2>2 DEF Reorganise, Final, NoFurther, WindowsSound
<1>10. NoFurther(closed, s, s) /\ Final(s) \subseteq closed
  BY <1>2 DEF NoFurther, WindowsSound
<1>11. /\ closed \subseteq closed' /\ NoFurther(closed, s, chain') /\ Final(chain') \subseteq closed'
  BY <1>4, <1>5, <1>6, <1>7, <1>8, <1>9, <1>10 DEF ChainNext
<1> QED
  BY <1>1, <1>2, <1>11

LEMMA WindowsInit ==
  ASSUME Init
  PROVE  WindowsSound
BY DEF Init, WindowsSound, Final, NoFurther, Has

LEMMA WindowsStep ==
  ASSUME ChainSound, WindowsSound, [Next]_vars
  PROVE  WindowsSound'
<1>1. PICK s \in Seq(Tx) : s = chain /\ Legal(s)
  BY DEF ChainSound
<1>2. ASSUME ChainNext PROVE WindowsSound'
  <2>1. /\ closed \subseteq closed' /\ applied' = applied
        /\ Final(chain') \subseteq closed' /\ NoFurther(closed, s, chain')
    BY <1>1, <1>2, ChainMoves
  <2>2. Final(applied) \subseteq closed /\ NoFurther(Final(applied), applied, s)
    BY <1>1 DEF WindowsSound
  <2>3. NoFurther(Final(applied), applied, chain')
    BY <2>1, <2>2 DEF NoFurther
  <2> QED
    BY <2>1, <2>2, <2>3 DEF WindowsSound
<1>3. ASSUME NEW n \in 0..Len(s), applied' = First(s, n), chain' = s, closed' = closed
      PROVE  WindowsSound'
  <2>1. PICK p : p = First(s, n)
    OBVIOUS
  <2>2. Final(p) \subseteq Final(s)
    BY <2>1, HasFirst DEF Final
  <2>3. NoFurther(Final(p), p, s)
    BY <1>1, <2>1, RefundFirst DEF NoFurther, Final
  <2>4. Final(s) \subseteq closed
    BY <1>1 DEF WindowsSound
  <2> QED
    BY <1>3, <2>1, <2>2, <2>3, <2>4 DEF WindowsSound
<1>4. IndexerNext => WindowsSound'
  BY <1>1, <1>3, ProjectedNext, ProjectsPrefix DEF IndexerNext
<1>5. RequestNext \/ UNCHANGED vars => WindowsSound'
  <2>1. RequestNext \/ UNCHANGED vars => UNCHANGED <<chain, closed, applied>>
    BY RequestsChangeRows DEF vars, chainVars, storeVars
  <2> QED
    BY <2>1 DEF WindowsSound
<1> QED
  BY <1>2, <1>4, <1>5 DEF Next

-----------------------------------------------------------------------------
(* Promises are covered                                                    *)

PromisesSound ==
  /\ Asked <= Worth(closed, chain) /\ Asked <= Worth(closed, applied)
  /\ reorgs = 0 => Asked <= MaturedBy(applied)

LEMMA WorthCloses ==
  ASSUME NEW s, Solid(s), NEW t, Solid(t), NEW D \in SUBSET Orders, NEW C \in SUBSET D,
         NoFurther(C, s, t)
  PROVE  Worth(C, s) \in Nat /\ Worth(D, t) \in Nat /\ Worth(C, s) <= Worth(D, t)
<1>1. \A o \in C : \A r \in RefundsOf(o) : Has(t, "refund", r) => Has(s, "refund", r)
  BY DEF NoFurther
<1> QED
  BY <1>1, WorthGrows, WorthType

\* What was asked for is covered at the end of a step that leaves it alone.
LEMMA PromisesKept ==
  ASSUME ChainSound, PromisesSound, ChainSound', Asked' = Asked,
         closed \subseteq closed', NoFurther(closed, chain, chain'),
         NoFurther(closed', chain', applied') \/ applied' = applied,
         reorgs' = 0 => reorgs = 0 /\ MaturedBy(applied) <= MaturedBy(applied')
  PROVE  PromisesSound'
<1>1. PICK s, t, a, b : /\ s = chain /\ t = chain' /\ a = applied /\ b = applied'
                        /\ Solid(s) /\ Solid(t) /\ Solid(a) /\ Solid(b)
  BY LegalNow DEF ChainSound
<1>2. PICK D \in SUBSET Orders : D = closed'
  BY DEF ChainSound
<1>3. PICK C \in SUBSET D : C = closed
  BY <1>2
<1>4. D = closed' /\ C = closed
  BY <1>2, <1>3
<1>5. Worth(C, s) \in Nat /\ Worth(D, t) \in Nat /\ Worth(C, s) <= Worth(D, t)
  BY <1>1, <1>4, WorthCloses
<1>6. PICK x \in Nat : x = Asked /\ x <= Worth(C, s) /\ x <= Worth(C, a)
  BY <1>1, <1>4, AskedType DEF PromisesSound
<1>7. x <= Worth(D, t)
  BY <1>5, <1>6
<1>8. x <= Worth(D, b)
  <2>1. CASE NoFurther(D, t, b)
    <3>1. Worth(D, t) \in Nat /\ Worth(D, b) \in Nat /\ Worth(D, t) <= Worth(D, b)
      BY <1>1, <2>1, WorthCloses
    <3> QED
      BY <1>7, <3>1
  <2>2. CASE a = b
    <3>1. NoFurther(C, a, b)
      BY <2>2 DEF NoFurther
    <3>2. Worth(C, a) \in Nat /\ Worth(D, b) \in Nat /\ Worth(C, a) <= Worth(D, b)
      BY <1>1, <3>1, WorthCloses
    <3> QED
      BY <1>6, <3>2
  <2> QED
    BY <1>1, <1>4, <2>1, <2>2
<1>9. ASSUME reorgs' = 0 PROVE x <= MaturedBy(b)
  <2>1. PICK y \in Nat, z \in Nat : y = MaturedBy(a) /\ z = MaturedBy(b)
    BY <1>1, MaturedType DEF Solid
  <2>2. x <= y /\ y <= z
    BY <1>1, <1>6, <1>9, <2>1 DEF PromisesSound
  <2> QED
    BY <2>1, <2>2
<1> QED
  BY <1>1, <1>4, <1>6, <1>7, <1>8, <1>9 DEF PromisesSound

\* Calls, reorganisations, rewinds and confirmations promise nothing new.
LEMMA AskedSame ==
  ASSUME \A q \in Withdrawals \cap Requests :
           rows'[q].status \in Reserved <=> rows[q].status \in Reserved
  PROVE  Asked' = Asked
<1>1. {q \in Withdrawals \cap Requests : rows'[q].status \in Reserved}
        = {q \in Withdrawals \cap Requests : rows[q].status \in Reserved}
  OBVIOUS
<1> QED
  BY <1>1 DEF Asked, Requested

LEMMA AskedByIndexer ==
  ASSUME ChainSound, RowsSound, IndexerNext
  PROVE  Asked' = Asked
<1>1. ASSUME NEW S, NEW h, Confirm(S, h) PROVE Asked' = Asked
  <2>1. ASSUME NEW q \in Requests
        PROVE  rows'[q].status \in Reserved <=> rows[q].status \in Reserved
    <3>1. q \in Bound(S, h) => rows[q].status \in Reserved
      BY BoundPending DEF Reserved
    <3>2. rows'[q] = IF q \in Bound(S, h) THEN [status |-> "confirmed", hash |-> h] ELSE rows[q]
      BY <1>1 DEF Confirm
    <3> QED
      BY <3>1, <3>2 DEF Reserved
  <2> QED
    BY <2>1, AskedSame
<1>2. ASSUME Rewind PROVE Asked' = Asked
  <2>1. ASSUME NEW q \in Requests
        PROVE  rows'[q].status \in Reserved <=> rows[q].status \in Reserved
    <3>1. PICK row \in RowType : row = rows[q]
      BY RowsByRequest
    <3>2. rows'[q] = IF Unconfirmed(Gone, q) THEN [row EXCEPT !.status = "orphaned"] ELSE row
      BY <1>2, <3>1 DEF Rewind, RewindTo
    <3>3. Unconfirmed(Gone, q) => row.status = "confirmed"
      BY <3>1 DEF Unconfirmed
    <3> QED
      BY <3>1, <3>2, <3>3 DEF RowType, Reserved, Pending
  <2> QED
    BY <2>1, AskedSame
<1>3. rows' = rows => Asked' = Asked
  BY AskedSame
<1>4. IndexerNext => Rewind \/ rows' = rows \/ \E S, h : Confirm(S, h)
  BY DEF IndexerNext, OrderPaid, OrderFinalized, OrderRefunded, MerchantWithdrawal
<1> QED
  BY <1>1, <1>2, <1>3, <1>4

LEMMA MaturedByCall ==
  ASSUME ChainSound, ChainSound', NEW kind, NEW id, NextIs(kind, id)
  PROVE  MaturedBy(applied) <= MaturedBy(applied')
<1>1. PICK s \in Seq(Tx), c \in Tx : /\ s = applied /\ c = <<kind, id>> /\ applied' = Append(s, c)
                                     /\ Callable(s, c) /\ Solid(s)
  BY NextCall DEF ChainSound
<1>2. PICK t : /\ t = applied' /\ Solid(t)
               /\ \A k, i : Has(t, k, i) <=> Has(s, k, i) \/ c = <<k, i>>
  <2>1. ASSUME NEW k, NEW i
        PROVE  Has(Append(s, c), k, i) <=> Has(s, k, i) \/ c = <<k, i>>
    BY <1>1, HasMore
  <2>2. Solid(applied')
    BY LegalNow DEF ChainSound
  <2> QED
    BY <1>1, <2>1, <2>2
<1>3. NoFurther(Final(s), s, t)
  <2>1. ASSUME NEW o \in Final(s), NEW r \in RefundsOf(o), c = <<"refund", r>> PROVE FALSE
    <3>1. ~Has(s, "finalize", OrderOf[r])
      BY <1>1, <2>1 DEF Callable
    <3> QED
      BY <2>1, <3>1 DEF Final, RefundsOf
  <2> QED
    BY <1>2, <2>1 DEF NoFurther
<1>4. PICK D \in SUBSET Orders : D = Final(t)
  BY DEF Final
<1>5. PICK C \in SUBSET D : C = Final(s)
  BY <1>2, <1>4 DEF Final
<1>6. D = Final(t) /\ C = Final(s)
  BY <1>4, <1>5
<1>7. Worth(C, s) <= Worth(D, t)
  BY <1>1, <1>2, <1>3, <1>6, WorthCloses
<1>8. MaturedBy(s) = Worth(C, s) /\ MaturedBy(t) = Worth(D, t)
  BY <1>1, <1>2, <1>6, WorthType
<1> QED
  BY <1>1, <1>2, <1>7, <1>8

LEMMA AskedMore ==
  ASSUME NEW w \in Withdrawals, w \in Requests, rows[w].status = "none",
         \A q \in Requests : rows'[q].status \in Reserved
                               <=> q = w \/ rows[q].status \in Reserved
  PROVE  Asked' = Asked + Amount[w]
<1>1. PICK S \in SUBSET (Refunds \cup Withdrawals) :
        S = {q \in Withdrawals \cap Requests : rows[q].status \in Reserved}
  OBVIOUS
<1>2. w \in (Refunds \cup Withdrawals) \ S
  BY <1>1 DEF Reserved, Pending
<1>3. {q \in Withdrawals \cap Requests : rows'[q].status \in Reserved} = S \cup {w}
  BY <1>1
<1>4. Total([r \in S \cup {w} |-> Amount[r]]) = Total([r \in S |-> Amount[r]]) + Amount[w]
  BY <1>2, SumMore
<1> QED
  BY <1>1, <1>3, <1>4 DEF Asked, Requested

\* What matured covers, the orders past their refund window cover.
LEMMA MaturedIsClosed ==
  ASSUME ChainSound, WindowsSound
  PROVE  /\ MaturedBy(applied) \in Nat
         /\ Worth(closed, applied) \in Nat /\ MaturedBy(applied) <= Worth(closed, applied)
         /\ Worth(closed, chain) \in Nat /\ MaturedBy(applied) <= Worth(closed, chain)
<1>1. PICK s, a : s = chain /\ a = applied /\ Solid(s) /\ Solid(a)
  BY LegalNow DEF ChainSound
<1>2. PICK D \in SUBSET Orders : D = closed
  BY DEF ChainSound
<1>3. PICK C \in SUBSET D : C = Final(a)
  BY <1>1, <1>2 DEF WindowsSound
<1>4. MaturedBy(a) = Worth(C, a)
  BY <1>1, <1>3, WorthType
<1>5. NoFurther(C, a, a) /\ NoFurther(C, a, s)
  BY <1>1, <1>3 DEF WindowsSound, NoFurther
<1>6. Worth(C, a) \in Nat /\ Worth(D, a) \in Nat /\ Worth(C, a) <= Worth(D, a)
  BY <1>1, <1>5, WorthCloses
<1>7. Worth(D, s) \in Nat /\ Worth(C, a) <= Worth(D, s)
  BY <1>1, <1>5, WorthCloses
<1> QED
  BY <1>1, <1>2, <1>4, <1>6, <1>7

\* A withdrawal is accepted when what matured covers all that was asked for.
LEMMA AcceptedIsCovered ==
  ASSUME Plain, ChainSound, BooksSound, RowsSound, CallsHeld, WithdrawnIsHistory,
         NEW w \in Withdrawals, CreateWithdrawal(w)
  PROVE  Asked + Amount[w] <= MaturedBy(applied)
<1>1. PICK p \in Nat, x \in Nat, d \in Nat, f \in Nat :
        p = Promised /\ x = Asked /\ d = WithdrawnBy(applied) /\ f = Spendable
  BY AskedType, WithdrawnType, SpendableIs
<1>2. PICK m \in Nat : m = Amount[w]
  BY AmountAssumption
<1>3. x = p + d
  BY <1>1, AskedParts, ConfirmedIsPaid
<1>4. p + m <= f
  BY <1>1, <1>2 DEF CreateWithdrawal
<1>5. MaturedBy(applied) = f + d
  BY <1>1, SpendableIs
<1>6. x + m <= f + d
  BY <1>3, <1>4
<1> QED
  BY <1>1, <1>2, <1>5, <1>6

LEMMA PromisesByRequest ==
  ASSUME Plain, ChainSound, BooksSound, RowsSound, CallsKnown, CallsHeld, WithdrawnIsHistory,
         WindowsSound, PromisesSound, RequestNext
  PROVE  PromisesSound'
<1>1. PICK r \in Requests, row \in RowType :
        /\ rows' = [rows EXCEPT ![r] = row]
        /\ row.status \in Pending /\ rows[r].status \notin {"confirmed", "orphaned"}
        /\ rows[r].status = "none" => \/ r \in Refunds /\ CreateRefund(r)
                                      \/ r \in Withdrawals /\ CreateWithdrawal(r)
  BY RequestRow
<1>2. \A q \in Requests : rows'[q] = IF q = r THEN row ELSE rows[q]
  BY <1>1, RowsByRequest
<1>3. rows[r].status \in {"none"} \cup Reserved
  BY RowsByRequest DEF RowType
<1>4. UNCHANGED <<chain, closed, reorgs, applied>>
  BY RequestsChangeRows DEF chainVars, storeVars
<1>5. CASE r \in Withdrawals /\ rows[r].status = "none"
  <2>1. CreateWithdrawal(r)
    BY <1>1, <1>5, NumberedAssumption
  <2>2. Asked' = Asked + Amount[r]
    BY <1>1, <1>2, <1>5, AskedMore DEF Reserved
  <2>3. Asked' <= MaturedBy(applied)
    BY <1>5, <2>1, <2>2, AcceptedIsCovered
  <2>4. PICK x \in Nat : x = Asked'
    BY <1>5, <2>2, AskedType, AmountAssumption
  <2>5. PICK m \in Nat, y \in Nat, z \in Nat :
          /\ m = MaturedBy(applied) /\ m <= y /\ m <= z
          /\ y = Worth(closed, applied) /\ z = Worth(closed, chain)
    BY MaturedIsClosed
  <2>6. x <= m /\ x <= y /\ x <= z
    BY <2>3, <2>4, <2>5
  <2> QED
    BY <1>4, <2>4, <2>5, <2>6 DEF PromisesSound
<1>6. CASE ~(r \in Withdrawals /\ rows[r].status = "none")
  <2>1. \A q \in Withdrawals \cap Requests :
          rows'[q].status \in Reserved <=> rows[q].status \in Reserved
    BY <1>1, <1>2, <1>3, <1>6 DEF Reserved
  <2>2. Asked' = Asked
    BY <2>1, AskedSame
  <2> QED
    BY <1>4, <2>2 DEF PromisesSound
<1> QED
  BY <1>5, <1>6

LEMMA PromisesByChain ==
  ASSUME ChainSound, ChainSound', WindowsSound, PromisesSound, ChainNext
  PROVE  PromisesSound'
<1>1. /\ closed \subseteq closed' /\ applied' = applied /\ rows' = rows
      /\ NoFurther(closed, chain, chain')
  BY ChainMoves
<1>2. Asked' = Asked
  BY <1>1, AskedSame
<1>3. MaturedBy(applied) \in Nat
  BY MaturedIsClosed
<1>4. MaturedBy(applied) <= MaturedBy(applied')
  BY <1>1, <1>3
<1>5. reorgs' = reorgs \/ reorgs' = reorgs + 1
  BY DEF ChainNext, Pay, Refund, FinalizeOrder, WithdrawMerchant, WindowCloses, Mine, Reorganise
<1>6. reorgs' = 0 => reorgs = 0
  BY <1>5 DEF ChainSound
<1> QED
  BY <1>1, <1>2, <1>4, <1>6, PromisesKept

LEMMA PromisesByIndexer ==
  ASSUME ChainSound, ChainSound', RowsSound, WindowsSound, PromisesSound, IndexerNext
  PROVE  PromisesSound'
<1>1. Rewind \/ (UNCHANGED chainVars /\ \E kind, id : NextIs(kind, id))
  BY ProjectedNext DEF IndexerNext
<1>2. /\ chain' = chain /\ closed' = closed /\ reorgs' = reorgs
      /\ \E n \in 0..Len(chain) : applied' = First(chain, n)
  BY <1>1, ProjectsPrefix
<1>3. PICK s, b : s = chain /\ b = applied' /\ \A kind, id : Has(b, kind, id) => Has(s, kind, id)
  BY <1>2, HasFirst DEF ChainSound
<1>4. NoFurther(closed, s, b) /\ NoFurther(closed, s, s)
  BY <1>3 DEF NoFurther
<1>5. Asked' = Asked
  BY AskedByIndexer
<1>6. reorgs = 0 => MaturedBy(applied) <= MaturedBy(applied')
  <2>1. Rewind => reorgs # 0
    BY DEF Rewind, ChainSound
  <2> QED
    BY <1>1, <2>1, MaturedByCall
<1>7. NoFurther(closed, chain, chain') /\ NoFurther(closed', chain', applied')
  BY <1>2, <1>3, <1>4
<1> QED
  BY <1>2, <1>5, <1>6, <1>7, PromisesKept

PInv == EInv /\ WindowsSound /\ (Plain /\ reorgs <= 1 => PromisesSound)

LEMMA PromisesInit ==
  ASSUME Init
  PROVE  PromisesSound
<1>1. Asked = 0
  <2>1. {q \in Withdrawals \cap Requests : rows[q].status \in Reserved} = {}
    BY DEF Init, Reserved, Pending
  <2>2. [r \in {} |-> Amount[r]] = [r \in {} |-> 0]
    OBVIOUS
  <2>3. Total([r \in {} |-> Amount[r]]) = 0
    BY <2>2, TotalZero
  <2> QED
    BY <2>1, <2>3 DEF Asked, Requested
<1>2. PICK m \in Nat, y \in Nat, z \in Nat :
        m = MaturedBy(applied) /\ y = Worth(closed, applied) /\ z = Worth(closed, chain)
  BY MaturedIsClosed, ChainInit, WindowsInit
<1> QED
  BY <1>1, <1>2 DEF PromisesSound

LEMMA PromisesInvariant ==
  ASSUME CreditsRead, CandidatesRead
  PROVE  Spec => []PInv
<1>1. Init => PInv
  BY WInvInit, CallsInit, WindowsInit, PromisesInit DEF PInv, EInv
<1>2. PInv /\ [Next]_vars => PInv'
  <2> SUFFICES ASSUME PInv, [Next]_vars PROVE PInv'
    OBVIOUS
  <2>1. EInv' /\ WindowsSound'
    BY CallsNext, WindowsStep DEF PInv, EInv, WInv, IInv
  <2>2. ASSUME Plain, reorgs' <= 1 PROVE PromisesSound'
    <3>1. reorgs <= 1
      BY <2>2, ReorgsGrow DEF PInv, EInv, WInv, IInv
    <3>2. /\ ChainSound /\ BooksSound /\ RowsSound /\ CallsKnown /\ CallsHeld
          /\ WithdrawnIsHistory /\ WindowsSound /\ PromisesSound
      BY <2>2, <3>1 DEF PInv, EInv, WInv, IInv, WithdrawnSound
    <3>3. ChainSound'
      BY <2>1 DEF EInv, WInv, IInv
    <3>4. UNCHANGED vars => PromisesSound'
      BY <3>2 DEF PromisesSound, Asked, Requested, vars, chainVars, storeVars
    <3> QED
      BY <2>2, <3>2, <3>3, <3>4, PromisesByChain, PromisesByRequest, PromisesByIndexer DEF Next
  <2> QED
    BY <2>1, <2>2 DEF PInv
<1> QED
  BY <1>1, <1>2, PTL DEF Spec

\* Then they are covered as long as the chain has not reorganised, and whenever
\* every order has matured again.
LEMMA CoveredNow ==
  ASSUME PInv, reorgs <= 1
  PROVE  PromisesCovered
<1> SUFFICES ASSUME Plain, reorgs = 0 \/ Matured = Orders
             PROVE  Promised <= Spendable
  BY DEF PromisesCovered, Plain
<1>1. /\ ChainSound /\ BooksSound /\ RowsSound /\ CallsHeld /\ WithdrawnIsHistory
      /\ WindowsSound /\ PromisesSound
  BY DEF PInv, EInv, WInv, IInv, WithdrawnSound
<1>2. PICK a : a = applied /\ Solid(a)
  BY <1>1, LegalNow DEF ChainSound
<1>3. Asked <= MaturedBy(a)
  <2>1. CASE reorgs = 0
    BY <1>1, <1>2, <2>1 DEF PromisesSound
  <2>2. CASE Matured = Orders
    <3>1. Final(a) = Orders
      BY <1>1, <1>2, <2>2 DEF BooksSound, ProjectionIsHistory, Final
    <3>2. closed = Orders
      BY <1>1, <1>2, <3>1 DEF WindowsSound, ChainSound
    <3>3. MaturedBy(a) = Worth(Orders, a)
      BY <1>2, <3>1, WorthType
    <3> QED
      BY <1>1, <1>2, <3>2, <3>3 DEF PromisesSound
  <2> QED
    BY <2>1, <2>2
<1>4. PICK p \in Nat, x \in Nat, d \in Nat, f \in Nat :
        p = Promised /\ x = Asked /\ d = WithdrawnBy(a) /\ f = Spendable
  BY <1>1, AskedType, WithdrawnType, SpendableIs
<1>5. x = p + d
  BY <1>1, <1>2, <1>4, AskedParts, ConfirmedIsPaid
<1>6. MaturedBy(a) = f + d
  BY <1>1, <1>2, <1>4, SpendableIs
<1>7. p <= f
  BY <1>3, <1>4, <1>5, <1>6
<1> QED
  BY <1>4, <1>7

\* Until the chain reorganises a second time, what is promised to withdrawals
\* under way is in the credits that matured: always before a reorganisation, and
\* again after it once every order has matured again.
THEOREM PromisesAreCovered ==
  ASSUME CreditsRead, CandidatesRead
  PROVE  Spec => [](reorgs <= 1 => PromisesCovered)
<1>1. PInv => (reorgs <= 1 => PromisesCovered)
  BY CoveredNow
<1> QED
  BY <1>1, PromisesInvariant, PTL

-----------------------------------------------------------------------------
(* After any number of reorganisations.  A rewind may forget what was      *)
(* withdrawn, and the projector then refuses withdrawals; but no step ever *)
(* writes more withdrawn than the contract paid out.                       *)

WithdrawnTotal == Total(WithdrawnOf(credits))

\* The credits never say more withdrawn than was paid, so what they leave free is
\* never less than what the contract still owes the merchant.
NothingWithheld ==
  /\ WithdrawnTotal <= WithdrawnBy(applied)
  /\ MaturedBy(applied) - WithdrawnBy(applied) <= Spendable

LEMMA WithdrawnTypes ==
  ASSUME BooksSound
  PROVE  /\ \A o \in Orders : credits[o] \in CreditRow /\ credits[o].withdrawn \in Nat
         /\ WithdrawnOf(credits) \in [Orders -> Nat] /\ WithdrawnTotal \in Nat
<1>1. \A o \in Orders : credits[o] \in CreditRow /\ credits[o].withdrawn \in Nat
  BY BooksByOrder, OrderTypes DEF CreditRow
<1>2. PICK f \in [Orders -> Nat] : f = WithdrawnOf(credits)
  BY <1>1 DEF WithdrawnOf
<1>3. Total(f) \in Nat
  BY FiniteAssumption, TotalType
<1> QED
  BY <1>1, <1>2, <1>3 DEF WithdrawnTotal

\* A withdrawal is either not applied or adds its amount to what is withdrawn,
\* however many credits are read.
LEMMA WithdrawalAdds ==
  ASSUME BooksSound, CreditsListed, NEW w \in Withdrawals, MerchantWithdrawal(w)
  PROVE  credits' = credits \/ Total(WithdrawnOf(credits')) = WithdrawnTotal + Amount[w]
<1> SUFFICES ASSUME credits' # credits
             PROVE  Total(WithdrawnOf(credits')) = WithdrawnTotal + Amount[w]
  OBVIOUS
<1>1. PICK L \in SUBSET Orders : L = {o \in Matured : Cardinality(Older(o, Matured)) < CreditLimit}
  BY DEF Matured
<1>2. \A o \in Orders : credits[o] \in CreditRow /\ credits[o].withdrawn \in Nat
  BY WithdrawnTypes
<1>3. \A o \in L : Free(o) \in Nat
  BY <1>1, <1>2 DEF Free, BooksSound, CreditSane, CreditRow
<1>4. PICK free \in [L -> Nat] : free = [o \in L |-> Free(o)]
  BY <1>3
<1>5. PICK x \in Nat : x = Amount[w]
  BY AmountAssumption
<1>6. /\ x <= Total(free)
      /\ credits' = [o \in Orders |->
           IF o \in L /\ Debit(free, o, x) > 0
           THEN Withdrawn(credits[o], credits[o].withdrawn + Debit(free, o, x))
           ELSE credits[o]]
  BY <1>1, <1>4, <1>5 DEF MerchantWithdrawal
<1>7. \A o \in L : Debit(free, o, x) \in Nat
  <2>1. \A o \in L : Debit(free, o, x) \in 0..free[o] /\ free[o] \in Nat
    BY DebitType
  <2> QED
    BY <2>1
<1>8. PICK f \in [Orders -> Nat] : f = [o \in Orders |-> IF o \in L THEN Debit(free, o, x) ELSE 0]
  BY <1>7
<1>9. Total(f) = x
  <2>1. \A o \in L : credits[o].status # "none"
    BY <1>1 DEF Matured
  <2>2. Total([o \in L |-> Debit(free, o, x)]) = x
    BY <1>6, <2>1, DebitsAddUp
  <2>3. [o \in L |-> f[o]] = [o \in L |-> Debit(free, o, x)]
    BY <1>8
  <2>4. Total([o \in L |-> f[o]]) = Total(f)
    BY <1>8, TotalOfSupport DEF ZeroOff
  <2> QED
    BY <2>2, <2>3, <2>4
<1>10. PICK g \in [Orders -> Nat] : g = [o \in Orders |-> credits[o].withdrawn]
  BY <1>2
<1>11. ASSUME NEW o \in Orders PROVE credits'[o].withdrawn = g[o] + f[o]
  <2>1. PICK y \in Nat, z \in Nat : y = g[o] /\ z = f[o]
    OBVIOUS
  <2>2. y = credits[o].withdrawn /\ credits[o] \in CreditRow
    BY <1>2, <1>10, <2>1
  <2>3. CASE o \in L /\ z > 0
    <3>1. credits'[o] = Withdrawn(credits[o], y + z)
      BY <1>6, <1>8, <2>1, <2>2, <2>3
    <3>2. credits[o] \in CreditRow /\ y + z \in Nat
      BY <2>2
    <3>3. Withdrawn(credits[o], y + z).withdrawn = y + z
      BY <3>2, WithdrawnCredit
    <3> QED
      BY <2>1, <3>1, <3>3
  <2>4. CASE ~(o \in L /\ z > 0)
    <3>1. z = 0
      BY <1>8, <2>1, <2>4
    <3>2. credits'[o] = credits[o]
      BY <1>6, <1>8, <2>1, <2>4
    <3> QED
      BY <2>1, <2>2, <3>1, <3>2
  <2> QED
    BY <2>3, <2>4
<1>12. PICK h \in [Orders -> Nat] : h = [o \in Orders |-> g[o] + f[o]]
  <2>1. \A o \in Orders : g[o] \in Nat /\ f[o] \in Nat /\ g[o] + f[o] \in Nat
    OBVIOUS
  <2> QED
    BY <2>1
<1>13. SumAt(Orders, g, f, h)
  BY <1>12, FiniteAssumption DEF SumAt
<1>14. Total(h) = Total(g) + Total(f)
  BY <1>13, TotalOfSums
<1>15. WithdrawnOf(credits) = g /\ WithdrawnOf(credits') = h
  BY <1>10, <1>11, <1>12 DEF WithdrawnOf
<1> QED
  BY <1>5, <1>9, <1>14, <1>15 DEF WithdrawnTotal

LEMMA WithheldByCall ==
  ASSUME ChainSound, BooksSound, WithdrawnTotal <= WithdrawnBy(applied),
         NEW kind, NEW id, NextIs(kind, id),
         \/ kind # "withdraw" /\ Total(WithdrawnOf(credits')) = WithdrawnTotal
         \/ /\ kind = "withdraw"
            /\ \/ Total(WithdrawnOf(credits')) = WithdrawnTotal
               \/ Total(WithdrawnOf(credits')) = WithdrawnTotal + Amount[id]
  PROVE  Total(WithdrawnOf(credits')) <= WithdrawnBy(applied')
<1>1. PICK s \in Seq(Tx) : s = applied
  BY DEF ChainSound
<1>2. PICK c \in Tx : c = <<kind, id>> /\ applied' = Append(s, c) /\ ~Has(s, kind, id)
  BY <1>1, NextCall DEF Callable
<1>3. PICK a \in Nat, b \in Nat : a = WithdrawnTotal /\ b = WithdrawnBy(s)
  BY WithdrawnTypes, WithdrawnType
<1>4. a <= b
  BY <1>1, <1>3
<1>5. CASE kind # "withdraw"
  <2>1. WithdrawnBy(applied') = b
    BY <1>2, <1>3, <1>5, WithdrawnMore
  <2> QED
    BY <1>3, <1>4, <1>5, <2>1
<1>6. CASE kind = "withdraw"
  <2>1. id \in Withdrawals
    BY <1>2, <1>6, TxShape
  <2>2. PICK x \in Nat : x = Amount[id]
    BY <2>1, AmountAssumption
  <2>3. WithdrawnBy(applied') = b + x
    BY <1>2, <1>3, <1>6, <2>2, WithdrawnMore
  <2> QED
    BY <1>3, <1>4, <1>6, <2>2, <2>3
<1> QED
  BY <1>5, <1>6

\* h is the part of f on S, with nothing elsewhere: it has the total of the part.
Padding(f, S, part, h) ==
  /\ f \in [Orders -> Nat] /\ S \subseteq Orders
  /\ part = [o \in S |-> f[o]]
  /\ h = [o \in Orders |-> IF o \in S THEN f[o] ELSE 0]

LEMMA PaddedTotal ==
  ASSUME NEW f, NEW S, NEW part, NEW h, Padding(f, S, part, h)
  PROVE  Total(part) = Total(h)
BY TotalPadded DEF Padding

\* A rebuild sets what is withdrawn of a credit to nothing, and a plan gives out
\* no more than the withdrawals that stay.
LEMMA WithheldByRewind ==
  ASSUME ChainSound, BooksSound, CreditsListed, WithdrawnTotal <= WithdrawnBy(applied), Rewind
  PROVE  Total(WithdrawnOf(credits')) <= WithdrawnBy(applied')
<1>1. PICK s \in Seq(Tx) : s = applied
  BY DEF ChainSound
<1>2. PICK k, g, c : Splits(s, k, g) /\ applied' = k /\ c = RebuiltCredits(k, g) /\ RewindTo(k, g, c)
  BY <1>1, RewindParts
<1>3. \A o \in Orders : RebuiltSane(k, o, c[o])
  BY <1>1, <1>2, RebuiltCreditsSane
<1>4. CASE WithdrawalLost(g)
  <2>1. credits' = Replanned(k, c) /\ PlanExists(k, c)
    BY <1>2, <1>4 DEF RewindTo
  <2>2. ASSUME NEW o \in Orders, c[o].status \in MaturedStatus PROVE credits[o].status # "none"
    <3>1. Has(k, "pay", o)
      BY <1>2, <1>3, <2>2 DEF RebuiltSane, Splits, Solid
    <3>2. Has(s, "pay", o)
      BY <1>2, <3>1 DEF Splits
    <3> QED
      BY <1>1, <3>2 DEF CreditsListed
  <2>3. Total(WithdrawnOf(credits')) = StillWithdrawn(k)
    BY <1>3, <2>1, <2>2, ReplannedTotal
  <2> QED
    BY <1>2, <2>3, StillWithdrawnType
<1>5. CASE ~WithdrawalLost(g)
  <2>1. credits' = c
    BY <1>2, <1>5 DEF RewindTo
  <2>2. PICK f \in [Orders -> Nat] : f = WithdrawnOf(credits)
    BY WithdrawnTypes
  <2>3. PICK S \in SUBSET Orders : S = {o \in Orders : ~Touched(g, o)}
    OBVIOUS
  <2>4. ASSUME NEW o \in Orders PROVE c[o].withdrawn = IF o \in S THEN f[o] ELSE 0
    <3>1. CASE o \in S
      BY <1>2, <2>2, <2>3, <3>1 DEF RebuiltCredits, WithdrawnOf
    <3>2. CASE o \notin S
      <4>1. c[o] = RebuiltCredit(k, o)
        BY <1>2, <2>3, <3>2 DEF RebuiltCredits
      <4>2. Quiet
        BY DEF BooksSound, Quiet
      <4>3. RebuiltCredit(k, o).withdrawn = 0
        BY <1>2, <4>2, RebuiltCreditTells
      <4> QED
        BY <3>2, <4>1, <4>3
    <3> QED
      BY <3>1, <3>2
  <2>5. PICK h, part : /\ h = [o \in Orders |-> IF o \in S THEN f[o] ELSE 0]
                       /\ part = [o \in S |-> f[o]]
    OBVIOUS
  <2>6. Total([o \in S |-> f[o]]) = Total(WithdrawnOf(credits'))
    <3>1. WithdrawnOf(credits') = h
      BY <2>1, <2>4, <2>5 DEF WithdrawnOf
    <3>2. Padding(f, S, part, h)
      BY <2>5 DEF Padding
    <3>3. Total(part) = Total(h)
      BY <3>2, PaddedTotal
    <3> QED
      BY <2>5, <3>1, <3>3
  <2>7. Total([o \in S |-> f[o]]) \in 0..Total(f)
    BY FiniteAssumption, TotalOfPart
  <2>8. WithdrawnBy(s) = WithdrawnBy(k)
    <3>1. \A w \in Withdrawals : Has(s, "withdraw", w) <=> Has(k, "withdraw", w)
      BY <1>2, <1>5 DEF Splits, WithdrawalLost
    <3> QED
      BY <3>1, SameWithdrawals
  <2>9. PICK a \in Nat, b \in Nat : a = Total(f) /\ b = WithdrawnBy(s) /\ a <= b
    BY <1>1, <2>2, WithdrawnTypes, WithdrawnType DEF WithdrawnTotal
  <2> QED
    BY <1>2, <2>6, <2>7, <2>8, <2>9
<1> QED
  BY <1>4, <1>5

\* The steps, and with them the invariant, without any condition.
OInv == IInv /\ CreditsListed /\ WithdrawnTotal <= WithdrawnBy(applied)

LEMMA WithheldSame ==
  ASSUME \A o \in Orders : credits'[o].withdrawn = credits[o].withdrawn
  PROVE  Total(WithdrawnOf(credits')) = WithdrawnTotal
<1>1. WithdrawnOf(credits') = WithdrawnOf(credits)
  BY DEF WithdrawnOf
<1> QED
  BY <1>1 DEF WithdrawnTotal

LEMMA WithheldStep ==
  ASSUME OInv, [Next]_vars
  PROVE  Total(WithdrawnOf(credits')) <= WithdrawnBy(applied')
<1>1. ChainSound /\ BooksSound /\ CreditsListed /\ WithdrawnTotal <= WithdrawnBy(applied)
  BY DEF OInv, IInv
<1>2. ASSUME UNCHANGED <<applied, credits>>
      PROVE  Total(WithdrawnOf(credits')) <= WithdrawnBy(applied')
  BY <1>1, <1>2 DEF WithdrawnTotal
<1>3. ASSUME NEW o \in Orders, OrderPaid(o)
      PROVE  Total(WithdrawnOf(credits')) <= WithdrawnBy(applied')
  <2>1. NextIs("pay", o)
    BY <1>3 DEF OrderPaid
  <2>2. Total(WithdrawnOf(credits')) = WithdrawnTotal
    BY <1>1, <1>3, PaidCredit, WithheldSame
  <2> QED
    BY <1>1, <2>1, <2>2, WithheldByCall
<1>4. ASSUME NEW o \in Orders, OrderFinalized(o)
      PROVE  Total(WithdrawnOf(credits')) <= WithdrawnBy(applied')
  <2>1. NextIs("finalize", o)
    BY <1>4 DEF OrderFinalized
  <2>2. Total(WithdrawnOf(credits')) = WithdrawnTotal
    BY <1>1, <1>4, FinalCredit, WithheldSame
  <2> QED
    BY <1>1, <2>1, <2>2, WithheldByCall
<1>5. ASSUME NEW r \in Refunds, OrderRefunded(r)
      PROVE  Total(WithdrawnOf(credits')) <= WithdrawnBy(applied')
  <2>1. NextIs("refund", r)
    BY <1>5 DEF OrderRefunded
  <2>2. Total(WithdrawnOf(credits')) = WithdrawnTotal
    BY <1>1, <1>5, RefundCredit, WithheldSame
  <2> QED
    BY <1>1, <2>1, <2>2, WithheldByCall
<1>6. ASSUME NEW w \in Withdrawals, MerchantWithdrawal(w)
      PROVE  Total(WithdrawnOf(credits')) <= WithdrawnBy(applied')
  <2>1. NextIs("withdraw", w)
    BY <1>6 DEF MerchantWithdrawal
  <2>2. \/ Total(WithdrawnOf(credits')) = WithdrawnTotal
        \/ Total(WithdrawnOf(credits')) = WithdrawnTotal + Amount[w]
    BY <1>1, <1>6, WithdrawalAdds DEF WithdrawnTotal
  <2> QED
    BY <1>1, <2>1, <2>2, WithheldByCall
<1>7. ASSUME Rewind PROVE Total(WithdrawnOf(credits')) <= WithdrawnBy(applied')
  BY <1>1, <1>7, WithheldByRewind
<1>8. ChainNext \/ RequestNext \/ UNCHANGED vars => UNCHANGED <<applied, credits>>
  BY ChainStepKeepsBooks, RequestsChangeRows DEF storeVars, vars
<1> QED
  BY <1>2, <1>3, <1>4, <1>5, <1>6, <1>7, <1>8 DEF Next, IndexerNext

LEMMA WithheldInvariant == Spec => []OInv
<1>1. Init => OInv
  <2> SUFFICES ASSUME Init PROVE OInv
    OBVIOUS
  <2>1. IInv /\ WithdrawnSound
    BY IInvInit, WithdrawnInit
  <2>2. WithdrawnTotal = WithdrawnBy(applied)
    BY <2>1 DEF WithdrawnSound, WithdrawnIsHistory, WithdrawnTotal, WithdrawnOf
  <2>3. WithdrawnBy(applied) \in Nat
    BY WithdrawnType
  <2> QED
    BY <2>1, <2>2, <2>3 DEF OInv, WithdrawnSound
<1>2. OInv /\ [Next]_vars => OInv'
  <2> SUFFICES ASSUME OInv, [Next]_vars PROVE OInv'
    OBVIOUS
  <2>1. IInv' /\ CreditsListed'
    BY IInvNext, ListStep DEF OInv, IInv
  <2>2. Total(WithdrawnOf(credits')) <= WithdrawnBy(applied')
    BY WithheldStep
  <2> QED
    BY <2>1, <2>2 DEF OInv, WithdrawnTotal
<1> QED
  BY <1>1, <1>2, PTL DEF Spec

\* However often the chain reorganises, and however many credits are read, a
\* merchant is never shown less free than the contract owes: what a rewind gets
\* wrong is that something paid is shown as free.
THEOREM NothingIsWithheld == Spec => []NothingWithheld
<1>1. OInv => NothingWithheld
  <2> SUFFICES ASSUME OInv PROVE NothingWithheld
    OBVIOUS
  <2>1. PICK a \in Nat, b \in Nat : a = WithdrawnTotal /\ b = WithdrawnBy(applied) /\ a <= b
    BY WithdrawnTypes, WithdrawnType DEF OInv, IInv
  <2>2. /\ Total([o \in Matured |-> credits[o].amount]) = MaturedBy(applied)
        /\ Total([o \in Matured |-> credits[o].withdrawn]) = Total(WithdrawnOf(credits))
        /\ Total([o \in Matured |-> credits[o].amount]) =
             Total([o \in Matured |-> credits[o].withdrawn]) + Total([o \in Matured |-> Free(o)])
        /\ \A o \in Matured : Free(o) \in Nat
    BY MaturedCredits DEF OInv, IInv
  <2>3. IsFiniteSet(Matured)
    BY FiniteAssumption, FS_Subset DEF Matured
  <2>4. PICK e \in [Matured -> Nat] : e = [o \in Matured |-> Free(o)]
    BY <2>2
  <2>5. PICK n \in Nat : n = Spendable
    BY <2>3, <2>4, TotalType DEF Spendable
  <2>6. MaturedBy(applied) = a + n
    BY <2>1, <2>2, <2>5 DEF Spendable, WithdrawnTotal
  <2>7. MaturedBy(applied) - b <= n
    BY <2>1, <2>5, <2>6
  <2> QED
    BY <2>1, <2>5, <2>7 DEF NothingWithheld
<1> QED
  BY <1>1, WithheldInvariant, PTL
=============================================================================
