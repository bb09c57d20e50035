---------------------------- MODULE SplitsProofs ----------------------------
(***************************************************************************)
(* Theorems about Splits, for any invitations, amounts, signatures,        *)
(* requests, faults and lag of the indexer.                                *)
(*                                                                         *)
(* The inductive invariant Agreed says what ConfirmedIsHistory does not:   *)
(* the contract uses a payment key once, every reimbursement carries the   *)
(* digest recorded for its payment, paid and revoked payments are those of *)
(* calls that are projected, and an operation that is left open beside the *)
(* event of its payment is one the event cannot tell.                      *)
(***************************************************************************)
EXTENDS Splits, AmountsProofs, SequenceTheorems

-----------------------------------------------------------------------------
(* Calls of the contract                                                   *)

\* No two calls for the same payment key.
KeysOnce(s) == \A m, n \in DOMAIN s : s[m][2] = s[n][2] => m = n

LEMMA CallShape ==
  ASSUME NEW c \in Calls0
  PROVE  /\ c[1] \in {"reimburse", "revoke"} /\ c[2] \in Invitations
         /\ c[1] = "reimburse" => c[3] \in Hashes /\ c[4] \in Digests
BY DEF Calls0

LEMMA Appended ==
  ASSUME NEW s \in Seq(Calls0), NEW c \in Calls0,
         KeysOnce(s), ~Reimbursed(s, c[2]), ~Revoked(s, c[2])
  PROVE  Append(s, c) \in Seq(Calls0) /\ KeysOnce(Append(s, c))
<1>1. /\ Append(s, c) \in Seq(Calls0) /\ Len(Append(s, c)) = Len(s) + 1
      /\ \A n \in 1..Len(s) : Append(s, c)[n] = s[n]
      /\ Append(s, c)[Len(s) + 1] = c /\ Len(s) \in Nat
  OBVIOUS
<1>2. \A n \in 1..Len(s) : s[n] \in Calls0
  BY ElementOfSeq
<1>3. \A n \in 1..Len(s) : s[n][2] # c[2]
  <2>1. ASSUME NEW n \in 1..Len(s), s[n][2] = c[2] PROVE FALSE
    <3>1. s[n][1] \in {"reimburse", "revoke"}
      BY <1>2, CallShape
    <3>2. n \in DOMAIN s
      BY LenProperties
    <3>3. QED
      BY <2>1, <3>1, <3>2 DEF Reimbursed, Revoked, Calls
  <2>2. QED
    BY <2>1
<1>4. DOMAIN s = 1..Len(s) /\ DOMAIN Append(s, c) = 1..(Len(s) + 1)
  BY <1>1, LenProperties
<1>5. ASSUME NEW m \in 1..(Len(s) + 1), NEW n \in 1..(Len(s) + 1),
             Append(s, c)[m][2] = Append(s, c)[n][2]
      PROVE  m = n
  <2>1. CASE m \in 1..Len(s) /\ n \in 1..Len(s)
    BY <1>1, <1>4, <1>5, <2>1 DEF KeysOnce
  <2>2. m \in 1..Len(s) \/ m = Len(s) + 1
    BY <1>1
  <2>3. n \in 1..Len(s) \/ n = Len(s) + 1
    BY <1>1
  <2>4. QED
    BY <1>1, <1>3, <1>5, <2>1, <2>2, <2>3
<1>6. QED
  BY <1>1, <1>4, <1>5 DEF KeysOnce

\* The first calls of a sequence.
LEMMA Cut ==
  ASSUME NEW s \in Seq(Calls0), NEW k \in 0..Len(s)
  PROVE  /\ SubSeq(s, 1, k) \in Seq(Calls0) /\ Len(SubSeq(s, 1, k)) = k
         /\ DOMAIN SubSeq(s, 1, k) = 1..k /\ DOMAIN s = 1..Len(s)
         /\ \A n \in 1..k : SubSeq(s, 1, k)[n] = s[n] /\ n \in DOMAIN s
         /\ KeysOnce(s) => KeysOnce(SubSeq(s, 1, k))
<1>1. k \in Int /\ \A n \in 1..k : n \in 1..Len(s) /\ s[n] \in Calls0
  BY LenProperties, ElementOfSeq
<1>2. /\ SubSeq(s, 1, k) \in Seq(Calls0) /\ Len(SubSeq(s, 1, k)) = k
      /\ \A n \in 1..k : SubSeq(s, 1, k)[n] = s[n]
  BY <1>1, SubSeqProperties
<1>3. DOMAIN SubSeq(s, 1, k) = 1..k /\ DOMAIN s = 1..Len(s)
  BY <1>2, LenProperties
<1>4. QED
  BY <1>1, <1>2, <1>3 DEF KeysOnce

LEMMA CallsOfCut ==
  ASSUME NEW s \in Seq(Calls0), NEW k \in 0..Len(s), NEW i
  PROVE  /\ Reimbursed(SubSeq(s, 1, k), i) <=> \E n \in 1..k : s[n][1] = "reimburse" /\ s[n][2] = i
         /\ Revoked(SubSeq(s, 1, k), i) <=> \E n \in 1..k : s[n][1] = "revoke" /\ s[n][2] = i
<1> DEFINE t == SubSeq(s, 1, k)
<1>1. DOMAIN t = 1..k /\ \A n \in 1..k : t[n] = s[n]
  BY Cut
<1> HIDE DEF t
<1>2. /\ Reimbursed(t, i) <=> \E n \in 1..k : s[n][1] = "reimburse" /\ s[n][2] = i
      /\ Revoked(t, i) <=> \E n \in 1..k : s[n][1] = "revoke" /\ s[n][2] = i
  BY <1>1 DEF Reimbursed, Revoked, Calls
<1>3. QED
  BY <1>2 DEF t

\* A shorter prefix of a sequence that agrees with another agrees with it too.
LEMMA CutOfCut ==
  ASSUME NEW s \in Seq(Calls0), NEW t \in Seq(Calls0), NEW k \in Nat, k <= Len(s), k <= Len(t),
         SubSeq(s, 1, k) = SubSeq(t, 1, k)
  PROVE  /\ \A n \in 1..k : s[n] = t[n]
         /\ \A m \in 0..k : SubSeq(s, 1, m) = SubSeq(t, 1, m)
<1>1. k \in 0..Len(s) /\ k \in 0..Len(t)
  BY LenProperties
<1>2. \A n \in 1..k : s[n] = t[n]
  BY <1>1, Cut
<1>3. ASSUME NEW m \in 0..k PROVE SubSeq(s, 1, m) = SubSeq(t, 1, m)
  <2>1. m \in 0..Len(s) /\ m \in 0..Len(t)
    BY <1>1, LenProperties
  <2>2. /\ SubSeq(s, 1, m) \in Seq(Calls0) /\ SubSeq(t, 1, m) \in Seq(Calls0)
        /\ Len(SubSeq(s, 1, m)) = m /\ Len(SubSeq(t, 1, m)) = m
        /\ \A n \in 1..m : SubSeq(s, 1, m)[n] = s[n] /\ SubSeq(t, 1, m)[n] = t[n]
    BY <2>1, Cut
  <2>3. \A n \in 1..m : SubSeq(s, 1, m)[n] = SubSeq(t, 1, m)[n]
    BY <1>2, <2>2
  <2>4. QED
    BY <2>2, <2>3, SeqEqual
<1>4. QED
  BY <1>2, <1>3

-----------------------------------------------------------------------------
(* What is paid                                                            *)

LEMMA WholeAmount == TotalBaseUnits \in Nat \ {0}
<1>1. PICK i \in Invitations : TRUE
  BY AmountAssumption
<1>2. Amount \in [Invitations -> Nat] /\ Amount[i] \in Nat \ {0}
  BY AmountAssumption
<1>3. Total(Amount) \in Nat
  BY <1>2, AmountAssumption, TotalType
<1>4. Amount[i] <= Total(Amount)
  BY <1>2, AmountAssumption, TotalUpdate
<1>5. QED
  BY <1>2, <1>3, <1>4 DEF TotalBaseUnits

LEMMA AmountOfType ==
  ASSUME NEW S \in SUBSET Invitations
  PROVE  AmountOf(S) \in 0..TotalBaseUnits
<1>1. Amount \in [Invitations -> Nat]
  BY AmountAssumption
<1>2. QED
  BY <1>1, AmountAssumption, TotalOfPart DEF AmountOf, TotalBaseUnits

LEMMA AmountOfMore ==
  ASSUME NEW S \in SUBSET Invitations, NEW i \in Invitations \ S
  PROVE  AmountOf(S \cup {i}) = AmountOf(S) + Amount[i] /\ AmountOf(S) + Amount[i] <= TotalBaseUnits
<1>1. Amount \in [Invitations -> Nat]
  BY AmountAssumption
<1>2. AmountOf(S \cup {i}) = AmountOf(S) + Amount[i]
  BY <1>1, AmountAssumption, TotalOfMore DEF AmountOf
<1>3. PICK T \in SUBSET Invitations : T = S \cup {i}
  OBVIOUS
<1>4. AmountOf(T) \in 0..TotalBaseUnits
  BY AmountOfType
<1>5. QED
  BY <1>2, <1>3, <1>4, WholeAmount

LEMMA AmountOfNone == AmountOf({}) = 0
<1>1. AmountOf({}) = Total([j \in {} |-> 0])
  BY DEF AmountOf
<1>2. QED
  BY <1>1, TotalZero

LEMMA NothingOf ==
  ASSUME NEW S \in SUBSET Invitations, AmountOf(S) = 0
  PROVE  S = {}
<1> DEFINE f == [j \in S |-> Amount[j]]
<1>1. SUFFICES ASSUME NEW i \in S PROVE FALSE
  OBVIOUS
<1>2. IsFiniteSet(S) /\ f \in [S -> Nat] /\ i \in S /\ f[i] \in Nat \ {0}
  BY AmountAssumption, FS_Subset
<1>3. Total(f) = 0
  BY DEF AmountOf
<1> HIDE DEF f
<1>4. f[i] <= Total(f)
  BY <1>2, TotalUpdate
<1>5. QED
  BY <1>2, <1>3, <1>4

-----------------------------------------------------------------------------
(* The invariant                                                           *)

\* A reimbursement carries the digest of its payment, which has an operation.
Called(s) == \A n \in DOMAIN s : s[n][1] = "reimburse" =>
  s[n][4] = payment[s[n][2]].digest /\ operation[s[n][2]] # <<>>

\* What a participant is given to sign stays what is recorded.
Signing == \A i \in Invitations :
  /\ tab[i] # "idle" \/ payment[i].digest # NoDigest => Issued(i)
  /\ tab[i] = "recorded" => payment[i].digest # NoDigest
  /\ held[i] \subseteq DOMAIN operation[i]
  /\ \A n \in DOMAIN operation[i] : operation[i][n].digest = payment[i].digest

\* Paid was reimbursed and is counted; revoked was revoked by a projected call, and a
\* split that is revoked has no other issued payment.
Followed == \A i \in Invitations :
  /\ payment[i].status = "paid" => Reimbursed(applied, i) /\ paidBy[i] # 0
  /\ payment[i].status = "revoked" => Revoked(applied, i)
  /\ split.status = "revoked" /\ Issued(i) => Revoked(applied, i)

\* Beside a projected reimbursement an operation is confirmed or untold, and only one
\* that is untold and registered stands between it and the rows.
Matched == \A i \in Invitations : Reimbursed(applied, i) =>
  /\ payment[i].status = "paid" \/ Mistaken(i)
  /\ paidBy[i] # 0 \/ Mistaken(i)
  /\ \A n \in DOMAIN operation[i] : operation[i][n].status = "confirmed" \/ Untold(i, n)

\* A request works on revocation operations that exist.
Requesting ==
  /\ \A i \in Invitations : Len(revocation[i]) <= MaxRevocations
  /\ \A r \in Requests, i \in Invitations :
       /\ request[r].seen[i] <= Len(revocation[i])
       /\ request[r].at \in {"starting", "sending"} /\ i \in request[r].on => request[r].seen[i] # 0

Counted == {i \in Invitations : paidBy[i] # 0}

Booked ==
  /\ split.confirmed = AmountOf(Counted)
  /\ split.status = "complete" <=> split.confirmed = TotalBaseUnits
  /\ split.status \in {"revoking", "revoked", "active"} => split.confirmed = 0
  /\ \A i \in Counted : paidBy[i] = Amount[i] /\ Reimbursed(applied, i)

Keys == KeysOnce(chain) /\ KeysOnce(applied) /\ Called(chain) /\ Called(applied)

Agreed ==
  TypeOK /\ Booked /\ refused = {} /\ Keys /\ Signing /\ Followed /\ Matched /\ Requesting

LEMMA InitAgreed == Init => Agreed
<1> SUFFICES ASSUME Init PROVE Agreed
  OBVIOUS
<1>1. ASSUME NEW i PROVE ~Reimbursed(<<>>, i)
  BY DEF Reimbursed, Calls
<1>2. TypeOK
  <2>1. /\ SubSeq(<<>>, 1, 0) = SubSeq(<<>>, 1, 0) /\ <<>> \in Seq(Calls0)
        /\ <<>> \in Seq([status: {"confirmed"} \cup Unfinished,
                         digest: Digests, hash: Hashes \cup {NoHash}])
    BY EmptySeq
  <2>2. 0 \in 0..TotalBaseUnits /\ 0 \in 0..MaxRevocations /\ 0 \in 0..MaxFaults
    BY WholeAmount, OtherAssumption
  <2>3. QED
    BY <2>1, <2>2 DEF Init, TypeOK, Statuses, Unfinished, Idle
<1>3. Booked
  <2>1. Counted = {}
    BY DEF Init, Counted
  <2>2. QED
    BY <2>1, AmountOfNone, WholeAmount DEF Init, Booked
<1>4. Keys /\ Signing /\ Followed /\ Matched
  BY <1>1 DEF Init, Keys, KeysOnce, Called, Signing, Followed, Matched
<1>5. Requesting
  BY OtherAssumption DEF Init, Requesting, Idle
<1>6. QED
  BY <1>2, <1>3, <1>4, <1>5 DEF Agreed, Init

-----------------------------------------------------------------------------
(* Steps of the contract                                                   *)

LEMMA Shape ==
  ASSUME Agreed
  PROVE  /\ chain \in Seq(Calls0) /\ applied \in Seq(Calls0)
         /\ agreed \in Nat /\ agreed <= Len(applied) /\ agreed <= Len(chain)
         /\ Len(applied) \in Nat /\ Len(chain) \in Nat
         /\ SubSeq(applied, 1, agreed) = SubSeq(chain, 1, agreed)
<1>1. /\ chain \in Seq(Calls0) /\ applied \in Seq(Calls0) /\ agreed \in 0..Len(applied)
      /\ agreed <= Len(chain) /\ SubSeq(applied, 1, agreed) = SubSeq(chain, 1, agreed)
  BY DEF Agreed, TypeOK
<1>2. QED
  BY <1>1, LenProperties

PaymentType == [status: Statuses, digest: Digests \cup {NoDigest}]
OperationType == [status: {"confirmed"} \cup Unfinished,
                  digest: Digests, hash: Hashes \cup {NoHash}]
RevocationType == [status: {"failed", "confirmed"} \cup Unfinished,
                   hash: {NoHash} \cup 1..MaxRevocations, sent: BOOLEAN]
RequestType == [at: {"idle", "looping", "starting", "sending"},
                left: SUBSET Invitations, on: SUBSET Invitations,
                seen: [Invitations -> 0..MaxRevocations]]
RowTypes ==
  /\ split \in [status: {"active", "revoking", "revoked", "partially_paid", "complete"},
                confirmed: 0..TotalBaseUnits, revokedAt: BOOLEAN]
  /\ invitation \in [Invitations -> Statuses \ {"none"}]
  /\ payment \in [Invitations -> PaymentType]
  /\ operation \in [Invitations -> Seq(OperationType)]
  /\ paidBy \in [Invitations -> Nat]
  /\ revocation \in [Invitations -> Seq(RevocationType)]
  /\ tab \in [Invitations -> {"idle", "signing", "recorded"}]
  /\ held \in [Invitations -> SUBSET (1..MaxOperations)]
  /\ request \in [Requests -> RequestType]

LEMMA RowShape ==
  ASSUME Agreed
  PROVE  RowTypes /\ faults \in 0..MaxFaults /\ MaxFaults \in Nat
BY OtherAssumption
   DEF Agreed, TypeOK, RowTypes, PaymentType, OperationType, RevocationType, RequestType

\* An operation carries the digest recorded for its payment.
LEMMA OperationSigned ==
  ASSUME Agreed, NEW i \in Invitations, NEW n \in DOMAIN operation[i]
  PROVE  /\ n \in 1..Len(operation[i]) /\ operation[i] # <<>>
         /\ operation[i][n] \in OperationType
         /\ operation[i][n].digest = payment[i].digest /\ operation[i][n].digest \in Digests
         /\ payment[i].digest # NoDigest /\ payment[i].status # "none"
<1>1. PICK s \in Seq(OperationType) : s = operation[i] /\ DOMAIN s = 1..Len(s)
  BY RowShape, LenProperties DEF RowTypes
<1>2. PICK c \in OperationType : c = s[n] /\ n \in 1..Len(s)
  BY <1>1, ElementOfSeq
<1>3. c.digest = payment[i].digest
  BY <1>1, <1>2 DEF Agreed, Signing
<1>4. c.digest \in Digests /\ c.digest # NoDigest
  BY <1>2, OtherAssumption DEF OperationType
<1>5. payment[i].status # "none"
  BY <1>3, <1>4 DEF Agreed, Signing, Issued
<1>6. s # <<>>
  BY <1>2, EmptySeq
<1>7. QED
  BY <1>1, <1>2, <1>3, <1>4, <1>5, <1>6

\* The digests recorded and the operations prepared stay, so Called does.
LEMMA CalledKept ==
  ASSUME NEW s \in Seq(Calls0), Called(s),
         \A i \in Invitations : payment[i].digest # NoDigest => payment'[i].digest = payment[i].digest,
         \A i \in Invitations : operation[i] # <<>> => operation'[i] # <<>>
  PROVE  \A n \in DOMAIN s : s[n][1] = "reimburse" =>
           s[n][4] = payment'[s[n][2]].digest /\ operation'[s[n][2]] # <<>>
<1> SUFFICES ASSUME NEW n \in DOMAIN s, s[n][1] = "reimburse"
             PROVE  s[n][4] = payment'[s[n][2]].digest /\ operation'[s[n][2]] # <<>>
  OBVIOUS
<1>1. s[n] \in Calls0
  BY LenProperties, ElementOfSeq
<1>2. s[n][2] \in Invitations /\ s[n][4] \in Digests
  BY <1>1, CallShape
<1>3. s[n][4] = payment[s[n][2]].digest /\ operation[s[n][2]] # <<>>
  BY DEF Called
<1>4. s[n][4] # NoDigest
  BY <1>2, OtherAssumption
<1>5. QED
  BY <1>2, <1>3, <1>4

LEMMA KeysKept ==
  ASSUME Agreed, UNCHANGED <<chain, applied>>,
         \A i \in Invitations : payment[i].digest # NoDigest => payment'[i].digest = payment[i].digest,
         \A i \in Invitations : operation[i] # <<>> => operation'[i] # <<>>
  PROVE  Keys'
<1>1. chain \in Seq(Calls0) /\ applied \in Seq(Calls0) /\ Keys
  BY Shape DEF Agreed
<1>2. Called(chain)' /\ Called(applied)'
  BY <1>1, CalledKept DEF Keys, Called
<1>3. KeysOnce(chain)' /\ KeysOnce(applied)'
  BY <1>1 DEF Keys, KeysOnce
<1>4. QED
  BY <1>2, <1>3 DEF Keys

\* The chain changes and the rows do not.
LEMMA ChainAgreed ==
  ASSUME Agreed, UNCHANGED <<applied, refused, people, rows>>, faults' \in 0..MaxFaults,
         chain' \in Seq(Calls0), KeysOnce(chain'), Called(chain'),
         agreed' \in 0..Len(applied), agreed' <= Len(chain'),
         SubSeq(applied, 1, agreed') = SubSeq(chain', 1, agreed')
  PROVE  Agreed'
<1>1. /\ applied' = applied /\ refused' = refused /\ tab' = tab /\ held' = held
      /\ request' = request /\ split' = split /\ invitation' = invitation /\ payment' = payment
      /\ operation' = operation /\ paidBy' = paidBy /\ revocation' = revocation
  BY DEF people, rows
<1>2. TypeOK'
  BY <1>1 DEF Agreed, TypeOK
<1>3. Booked' /\ Signing' /\ Followed' /\ Matched' /\ Requesting'
  BY <1>1 DEF Agreed, Booked, Counted, Signing, Followed, Matched, Mistaken, Untold, Requesting, Issued
<1>4. Keys'
  BY <1>1 DEF Agreed, Keys, KeysOnce, Called
<1>5. QED
  BY <1>1, <1>2, <1>3, <1>4 DEF Agreed

LEMMA MineAgreed ==
  ASSUME Agreed, NEW call \in Calls0, Mine(call), ~paymentKeyUsed(call[2]),
         call[1] = "reimburse" =>
           call[4] = payment[call[2]].digest /\ operation[call[2]] # <<>>
  PROVE  Agreed'
<1>1. /\ chain \in Seq(Calls0) /\ KeysOnce(chain) /\ Called(chain) /\ applied \in Seq(Calls0)
      /\ agreed \in 0..Len(applied) /\ agreed \in 0..Len(chain) /\ Len(chain) \in Nat
      /\ SubSeq(applied, 1, agreed) = SubSeq(chain, 1, agreed)
  BY Shape DEF Agreed, Keys
<1>2. chain' = Append(chain, call) /\ agreed' = agreed /\ faults' = faults
      /\ UNCHANGED <<applied, refused, people, rows>>
  BY DEF Mine, feed
<1>3. chain' \in Seq(Calls0) /\ KeysOnce(chain')
  BY <1>1, <1>2, Appended DEF paymentKeyUsed
<1>4. /\ Len(chain') = Len(chain) + 1 /\ chain'[Len(chain) + 1] = call
      /\ \A n \in 1..Len(chain) : chain'[n] = chain[n]
  BY <1>1, <1>2
<1>5. Called(chain')
  <2>1. DOMAIN chain' = 1..(Len(chain) + 1) /\ DOMAIN chain = 1..Len(chain)
    BY <1>1, <1>3, <1>4, LenProperties
  <2>2. \A n \in DOMAIN chain' : n \in DOMAIN chain \/ n = Len(chain) + 1
    BY <1>1, <2>1
  <2>3. ASSUME NEW n \in DOMAIN chain', chain'[n][1] = "reimburse"
        PROVE  chain'[n][4] = payment[chain'[n][2]].digest /\ operation[chain'[n][2]] # <<>>
    <3>1. CASE n = Len(chain) + 1
      <4>1. chain'[n] = call
        BY <1>4, <3>1
      <4>2. QED
        BY <2>3, <4>1
    <3>2. CASE n \in DOMAIN chain
      <4>1. chain'[n] = chain[n]
        BY <1>4, <2>1, <3>2
      <4>2. QED
        BY <1>1, <2>3, <3>2, <4>1 DEF Called
    <3>3. QED
      BY <2>2, <3>1, <3>2
  <2>4. QED
    BY <2>3 DEF Called
<1>6. SubSeq(applied, 1, agreed) = SubSeq(chain', 1, agreed)
  <2>1. agreed \in 0..Len(chain') /\ agreed \in Nat
    BY <1>1, <1>4
  <2>2. /\ SubSeq(chain, 1, agreed) \in Seq(Calls0) /\ SubSeq(chain', 1, agreed) \in Seq(Calls0)
        /\ Len(SubSeq(chain, 1, agreed)) = agreed /\ Len(SubSeq(chain', 1, agreed)) = agreed
        /\ \A n \in 1..agreed : /\ SubSeq(chain, 1, agreed)[n] = chain[n]
                                /\ SubSeq(chain', 1, agreed)[n] = chain'[n]
    BY <1>1, <1>3, <2>1, Cut
  <2>3. \A n \in 1..agreed : n \in 1..Len(chain)
    BY <1>1
  <2>4. PICK u, v \in Seq(Calls0) : u = SubSeq(chain, 1, agreed) /\ v = SubSeq(chain', 1, agreed)
    BY <2>2
  <2>5. Len(u) = agreed /\ Len(v) = agreed /\ \A n \in 1..agreed : u[n] = v[n]
    BY <1>4, <2>2, <2>3, <2>4
  <2>6. u = v
    BY <2>5, SeqEqual
  <2>7. QED
    BY <1>1, <2>4, <2>6
<1>7. faults' \in 0..MaxFaults /\ agreed' <= Len(chain')
  BY <1>1, <1>2, <1>4 DEF Agreed, TypeOK
<1>8. QED
  BY <1>1, <1>2, <1>3, <1>5, <1>6, <1>7, ChainAgreed

LEMMA ReorganiseAgreed ==
  ASSUME Agreed, Reorganise
  PROVE  Agreed'
<1>1. /\ chain \in Seq(Calls0) /\ KeysOnce(chain) /\ Called(chain) /\ applied \in Seq(Calls0)
      /\ agreed \in Nat /\ agreed <= Len(applied) /\ agreed <= Len(chain)
      /\ Len(chain) \in Nat /\ Len(applied) \in Nat
      /\ SubSeq(applied, 1, agreed) = SubSeq(chain, 1, agreed)
      /\ faults \in 0..MaxFaults
  BY Shape DEF Agreed, Keys, TypeOK
<1>2. PICK n \in 0..(Len(chain) - 1) :
        chain' = SubSeq(chain, 1, n) /\ agreed' = IF n < agreed THEN n ELSE agreed
  BY DEF Reorganise
<1>3. faults' \in 0..MaxFaults /\ UNCHANGED <<applied, refused, people, rows>>
  BY <1>1, OtherAssumption DEF Reorganise, Fault
<1>4. n \in 0..Len(chain) /\ n \in Nat
  BY <1>1
<1>5. /\ chain' \in Seq(Calls0) /\ Len(chain') = n /\ DOMAIN chain' = 1..n
      /\ \A k \in 1..n : chain'[k] = chain[k] /\ k \in DOMAIN chain
      /\ KeysOnce(chain')
  BY <1>1, <1>2, <1>4, Cut
<1>6. Called(chain')
  BY <1>1, <1>5 DEF Called
<1>7. agreed' \in 0..agreed /\ agreed' <= n
  BY <1>1, <1>2, <1>4
<1>8. PICK a \in 0..agreed : a = agreed' /\ a <= n
  BY <1>7
<1>9. SubSeq(applied, 1, a) = SubSeq(chain', 1, a)
  <2>1. SubSeq(applied, 1, a) = SubSeq(chain, 1, a)
    BY <1>1, CutOfCut
  <2>2. SubSeq(chain', 1, n) = SubSeq(chain, 1, n)
    BY <1>2, <1>5, SubSeqFull
  <2>3. a \in 0..n
    BY <1>1, <1>4, <1>8
  <2>4. SubSeq(chain', 1, a) = SubSeq(chain, 1, a)
    BY <1>1, <1>4, <1>5, <2>2, <2>3, CutOfCut
  <2>5. QED
    BY <2>1, <2>4
<1>10. agreed' \in 0..Len(applied) /\ agreed' <= Len(chain')
  BY <1>1, <1>5, <1>7
<1>11. QED
  BY <1>3, <1>5, <1>6, <1>8, <1>9, <1>10, ChainAgreed

LEMMA ContractAgreed ==
  ASSUME Agreed, ContractNext
  PROVE  Agreed'
<1>1. ASSUME NEW i \in Invitations, NEW n \in held[i], NEW h \in Hashes, Reimburse(i, n, h)
      PROVE  Agreed'
  <2>1. n \in DOMAIN operation[i]
    BY DEF Agreed, Signing
  <2>2. /\ operation[i][n].digest \in Digests /\ operation[i] # <<>>
        /\ operation[i][n].digest = payment[i].digest
    BY <2>1, OperationSigned
  <2>3. <<"reimburse", i, h, operation[i][n].digest>> \in Calls0
    BY <2>2 DEF Calls0
  <2>4. QED
    BY <1>1, <2>1, <2>2, <2>3, MineAgreed DEF Reimburse
<1>2. ASSUME NEW i \in Invitations, NEW n \in DOMAIN revocation[i], RevokePaymentKey(i, n)
      PROVE  Agreed'
  <2>1. /\ revocation[i] \in Seq([status: {"failed", "confirmed"} \cup Unfinished,
                                  hash: {NoHash} \cup 1..MaxRevocations, sent: BOOLEAN])
        /\ Len(revocation[i]) <= MaxRevocations
    BY DEF Agreed, TypeOK, Requesting
  <2>2. n \in 1..MaxRevocations
    BY <2>1, LenProperties, OtherAssumption
  <2>3. <<"revoke", i, n>> \in Calls0
    BY <2>2 DEF Calls0
  <2>4. QED
    BY <1>2, <2>3, MineAgreed DEF RevokePaymentKey
<1>3. QED
  BY <1>1, <1>2, ReorganiseAgreed DEF ContractNext

-----------------------------------------------------------------------------
(* Steps of the participants                                               *)

\* The rows change, the chain and what is projected of it do not.
LEMMA RowsAgreed ==
  ASSUME Agreed, UNCHANGED <<chain, feed>>, faults' \in 0..MaxFaults, RowTypes', Booked',
         Signing', Followed', Matched', Requesting',
         \A i \in Invitations : payment[i].digest # NoDigest => payment'[i].digest = payment[i].digest,
         \A i \in Invitations : operation[i] # <<>> => operation'[i] # <<>>
  PROVE  Agreed'
<1>1. chain' = chain /\ applied' = applied /\ agreed' = agreed /\ refused' = refused
  BY DEF feed
<1>2. TypeOK'
  BY <1>1 DEF Agreed, TypeOK, RowTypes, PaymentType, OperationType, RevocationType, RequestType
<1>3. Keys'
  BY <1>1, KeysKept
<1>4. QED
  BY <1>1, <1>2, <1>3 DEF Agreed

\* The participants and the revocation of a split do not change what is booked.
LEMMA ParticipantAgreed ==
  ASSUME Agreed, UNCHANGED <<chain, feed, split, paidBy, revocation, request>>,
         faults' \in 0..MaxFaults,
         invitation' \in [Invitations -> Statuses \ {"none"}],
         payment' \in [Invitations -> PaymentType], operation' \in [Invitations -> Seq(OperationType)],
         tab' \in [Invitations -> {"idle", "signing", "recorded"}],
         held' \in [Invitations -> SUBSET (1..MaxOperations)],
         Signing', Followed', Matched',
         \A i \in Invitations : payment[i].digest # NoDigest => payment'[i].digest = payment[i].digest,
         \A i \in Invitations : operation[i] # <<>> => operation'[i] # <<>>
  PROVE  Agreed'
<1>1. RowTypes'
  BY RowShape DEF RowTypes
<1>2. Booked' /\ Requesting'
  BY DEF Agreed, Booked, Counted, Requesting, feed
<1>3. QED
  BY <1>1, <1>2, RowsAgreed

\* A step that leaves the operations alone and takes no payment from paid.
LEMMA MatchedKept ==
  ASSUME Agreed, UNCHANGED <<applied, operation, paidBy>>,
         \A i \in Invitations : payment[i].status = "paid" => payment'[i].status = "paid"
  PROVE  Matched'
BY DEF Agreed, Matched, Mistaken, Untold

\* A payment whose reimbursement is projected has an operation.
LEMMA ReimbursedHasOperation ==
  ASSUME Agreed, NEW i \in Invitations, Reimbursed(applied, i)
  PROVE  operation[i] # <<>>
BY DEF Agreed, Keys, Called, Reimbursed, Calls

LEMMA PrepareAgreed ==
  ASSUME Agreed, NEW i \in Invitations, PrepareSplitPayment(i)
  PROVE  Agreed'
<1>1. /\ payment \in [Invitations -> PaymentType] /\ tab \in [Invitations -> {"idle", "signing", "recorded"}]
      /\ Signing /\ Followed
  BY RowShape DEF RowTypes, Agreed
<1>2. /\ tab' = [tab EXCEPT ![i] = "signing"] /\ applied' = applied
      /\ UNCHANGED <<chain, feed, split, paidBy, revocation, request, faults, invitation, operation, held>>
  BY DEF PrepareSplitPayment, feed
<1>3. /\ payment' \in [Invitations -> PaymentType]
      /\ \A j \in Invitations : payment'[j].digest = payment[j].digest
      /\ \A j \in Invitations :
           \/ payment'[j].status = payment[j].status /\ (j = i => payment[j].status # "none")
           \/ /\ payment[j].status = "none" /\ payment'[j].status = "unpaid"
              /\ split.status = "active"
    <2>1. CASE Issued(i)
      BY <1>1, <2>1 DEF PrepareSplitPayment, Issued
    <2>2. CASE ~Issued(i)
      <3>1. payment' = [payment EXCEPT ![i].status = "unpaid"] /\ split.status = "active"
            /\ payment[i].status = "none" /\ "unpaid" \in Statuses
        BY <2>2 DEF PrepareSplitPayment, Issued, Payable, Statuses
      <3>2. QED
        BY <1>1, <3>1 DEF PaymentType
    <2>3. QED
      BY <2>1, <2>2
<1>4. Signing'
  BY <1>1, <1>2, <1>3 DEF Signing, Issued
<1>5. Followed'
  BY <1>1, <1>2, <1>3 DEF Followed, Issued
<1>6. Matched'
  BY <1>2, <1>3, MatchedKept
<1>7. QED
  BY <1>1, <1>2, <1>3, <1>4, <1>5, <1>6, RowShape, ParticipantAgreed DEF RowTypes

LEMMA RecordIntentAgreed ==
  ASSUME Agreed, NEW i \in Invitations, NEW d \in Digests, RecordSplitIntent(i, d)
  PROVE  Agreed'
<1>1. /\ payment \in [Invitations -> PaymentType] /\ tab \in [Invitations -> {"idle", "signing", "recorded"}]
      /\ Signing /\ Followed /\ d # NoDigest /\ tab[i] = "signing"
  BY RowShape, OtherAssumption DEF RowTypes, Agreed, RecordSplitIntent
<1>2. /\ applied' = applied
      /\ UNCHANGED <<chain, feed, split, paidBy, revocation, request, faults, invitation, operation, held>>
  BY DEF RecordSplitIntent, feed
<1>3. /\ payment' \in [Invitations -> PaymentType]
      /\ tab' \in [Invitations -> {"idle", "signing", "recorded"}]
      /\ \A j \in Invitations : /\ payment'[j].status = payment[j].status
                                /\ j # i => tab'[j] = tab[j]
                                /\ j # i \/ payment[j].digest # NoDigest =>
                                     payment'[j].digest = payment[j].digest
      /\ tab'[i] = "recorded" => payment'[i].digest = d
  <2>1. CASE MayRecord(i, d)
    <3>1. payment' = [payment EXCEPT ![i].digest = d] /\ tab' = [tab EXCEPT ![i] = "recorded"]
          /\ payment[i].digest \in {NoDigest, d}
      BY <2>1 DEF RecordSplitIntent, MayRecord
    <3>2. QED
      BY <1>1, <3>1 DEF PaymentType
  <2>2. CASE ~MayRecord(i, d)
    BY <1>1, <2>2 DEF RecordSplitIntent
  <2>3. QED
    BY <2>1, <2>2
<1>4. Signing'
  <2>1. ASSUME NEW j \in Invitations, NEW n \in DOMAIN operation[j]
        PROVE  operation[j][n].digest = payment'[j].digest
    BY <1>3, OperationSigned
  <2>2. QED
    BY <1>1, <1>2, <1>3, <2>1 DEF Signing, Issued
<1>5. Followed'
  BY <1>1, <1>2, <1>3 DEF Followed, Issued
<1>6. Matched'
  BY <1>2, <1>3, MatchedKept
<1>7. QED
  BY <1>1, <1>2, <1>3, <1>4, <1>5, <1>6, RowShape, ParticipantAgreed DEF RowTypes

\* A sequence of operations with one more.
LEMMA OneMore ==
  ASSUME NEW s \in Seq(OperationType), NEW y \in OperationType
  PROVE  /\ Append(s, y) \in Seq(OperationType) /\ Append(s, y) # <<>>
         /\ Len(Append(s, y)) = Len(s) + 1 /\ Len(s) \in Nat
         /\ DOMAIN Append(s, y) = 1..(Len(s) + 1) /\ DOMAIN s = 1..Len(s)
         /\ Append(s, y)[Len(s) + 1] = y /\ \A n \in 1..Len(s) : Append(s, y)[n] = s[n]
<1>1. /\ Append(s, y) \in Seq(OperationType) /\ Len(Append(s, y)) = Len(s) + 1 /\ Len(s) \in Nat
      /\ Append(s, y)[Len(s) + 1] = y /\ \A n \in 1..Len(s) : Append(s, y)[n] = s[n]
  OBVIOUS
<1>2. DOMAIN Append(s, y) = 1..(Len(s) + 1) /\ DOMAIN s = 1..Len(s)
  BY <1>1, LenProperties
<1>3. Append(s, y) # <<>>
  BY <1>1, EmptySeq
<1>4. QED
  BY <1>1, <1>2, <1>3

\* A second operation makes every operation of the payment untold.
LEMMA OperationAgreed ==
  ASSUME Agreed, NEW i \in Invitations, NEW n \in 1..MaxOperations, NEW answered \in BOOLEAN,
         PrepareOperation(i, n, answered)
  PROVE  Agreed'
<1>1. RowTypes /\ Signing /\ Followed /\ Matched /\ tab[i] = "recorded"
  BY RowShape DEF Agreed, PrepareOperation
<1>2. /\ applied' = applied /\ UNCHANGED <<chain, feed, split, paidBy, revocation, request, invitation, payment>>
      /\ tab' = [tab EXCEPT ![i] = "idle"]
      /\ held' = [held EXCEPT ![i] = IF answered THEN @ \cup {n} ELSE @]
  BY DEF PrepareOperation, feed
<1>3. faults' \in 0..MaxFaults
  BY RowShape DEF PrepareOperation, Fault, NoFault
<1>4. PICK s \in Seq(OperationType) : s = operation[i]
  BY <1>1 DEF RowTypes
<1>5. payment[i].digest \in Digests
  BY <1>1 DEF Signing, RowTypes, PaymentType
<1>6. PICK y \in OperationType :
        y = [status |-> "prepared", digest |-> payment[i].digest, hash |-> NoHash]
  BY <1>5 DEF OperationType, Unfinished
<1>7. /\ operation' \in [Invitations -> Seq(OperationType)] /\ n \in DOMAIN operation'[i]
      /\ operation' = operation \/ operation' = [operation EXCEPT ![i] = Append(s, y)]
  <2>1. CASE n \in DOMAIN operation[i] /\ operation' = operation
    BY <1>1, <2>1 DEF RowTypes
  <2>2. CASE n = Len(operation[i]) + 1 /\ operation' = [operation EXCEPT ![i] = Append(s, y)]
    BY <1>1, <1>4, <2>2, OneMore DEF RowTypes
  <2>3. QED
    BY <1>4, <1>6, <2>1, <2>2 DEF PrepareOperation
<1>8. ASSUME NEW j \in Invitations
      PROVE  /\ operation[j] # <<>> => operation'[j] # <<>>
             /\ DOMAIN operation[j] \subseteq DOMAIN operation'[j]
             /\ \A m \in DOMAIN operation[j] : operation'[j][m] = operation[j][m]
             /\ \A m \in DOMAIN operation'[j] : operation'[j][m].digest = payment[j].digest
             /\ operation'[j] = operation[j]
                \/ (Len(operation'[j]) = Len(operation[j]) + 1 /\ Len(operation[j]) \in Nat)
  <2>1. CASE operation'[j] = operation[j]
    BY <1>1, <2>1 DEF Signing
  <2>2. CASE j = i /\ operation' = [operation EXCEPT ![i] = Append(s, y)]
    <3>1. operation'[j] = Append(s, y) /\ operation[j] = s
      BY <1>1, <1>4, <2>2 DEF RowTypes
    <3>2. \A m \in 1..(Len(s) + 1) : m \in 1..Len(s) \/ m = Len(s) + 1
      BY OneMore
    <3>3. \A m \in 1..Len(s) : m \in 1..(Len(s) + 1)
      BY OneMore
    <3>4. \A m \in DOMAIN s : s[m].digest = payment[j].digest
      BY <1>1, <3>1 DEF Signing
    <3>5. y.digest = payment[j].digest
      BY <1>6, <2>2
    <3>6. QED
      BY <3>1, <3>2, <3>3, <3>4, <3>5, OneMore
  <2>3. QED
    BY <1>1, <1>7, <2>1, <2>2 DEF RowTypes
<1>9. /\ tab' \in [Invitations -> {"idle", "signing", "recorded"}]
      /\ held' \in [Invitations -> SUBSET (1..MaxOperations)]
      /\ \A j \in Invitations : tab'[j] \in {tab[j], "idle"}
      /\ \A j \in Invitations : held'[j] = held[j] \/ (j = i /\ held'[j] = held[j] \cup {n})
  BY <1>1, <1>2 DEF RowTypes
<1>10. Signing'
  <2>1. ASSUME NEW j \in Invitations PROVE held'[j] \subseteq DOMAIN operation'[j]
    <3>1. held[j] \subseteq DOMAIN operation'[j]
      BY <1>1, <1>8 DEF Signing
    <3>2. QED
      BY <1>7, <1>9, <3>1
  <2>2. QED
    BY <1>1, <1>2, <1>8, <1>9, <2>1 DEF Signing, Issued
<1>11. Followed'
  BY <1>1, <1>2 DEF Followed, Issued
<1>12. Matched'
  <2>1. ASSUME NEW j \in Invitations, Reimbursed(applied, j), operation[j] # <<>>
        PROVE  /\ payment[j].status = "paid" \/ Mistaken(j)'
               /\ paidBy[j] # 0 \/ Mistaken(j)'
               /\ \A m \in DOMAIN operation'[j] :
                    operation'[j][m].status = "confirmed" \/ Untold(j, m)'
    <3>1. CASE operation'[j] = operation[j]
      BY <1>1, <1>2, <2>1, <3>1 DEF Matched, Mistaken, Untold
    <3>2. CASE operation'[j] # operation[j]
      <4>1. Len(operation'[j]) > 1
        BY <1>1, <1>8, <2>1, <3>2, EmptySeq, LenProperties DEF RowTypes
      <4>2. \A m \in DOMAIN operation'[j] : Untold(j, m)'
        BY <4>1 DEF Untold
      <4>3. Mistaken(j) => Mistaken(j)'
        BY <1>8, <4>2 DEF Mistaken
      <4>4. QED
        BY <1>1, <2>1, <4>2, <4>3 DEF Matched
    <3>3. QED
      BY <3>1, <3>2
  <2>2. ASSUME NEW j \in Invitations, Reimbursed(applied, j) PROVE operation[j] # <<>>
    BY <2>2, ReimbursedHasOperation
  <2>3. QED
    BY <1>2, <2>1, <2>2 DEF Matched
<1>13. QED
  BY <1>1, <1>2, <1>3, <1>7, <1>8, <1>9, <1>10, <1>11, <1>12, ParticipantAgreed DEF RowTypes

LEMMA EndRequestAgreed ==
  ASSUME Agreed, NEW i \in Invitations, EndRequest(i)
  PROVE  Agreed'
<1>1. RowTypes /\ Signing /\ Followed
  BY RowShape DEF Agreed
<1>2. /\ applied' = applied /\ tab' = [tab EXCEPT ![i] = "idle"]
      /\ UNCHANGED <<chain, feed, split, paidBy, revocation, request, invitation, payment, operation, held>>
  BY DEF EndRequest, feed, rows
<1>3. faults' \in 0..MaxFaults
  BY RowShape DEF EndRequest, Fault
<1>4. Signing' /\ Followed'
  BY <1>1, <1>2 DEF RowTypes, Signing, Followed, Issued
<1>5. Matched'
  BY <1>2, MatchedKept
<1>6. QED
  BY <1>1, <1>2, <1>3, <1>4, <1>5, ParticipantAgreed DEF RowTypes

LEMMA StatusChanged ==
  \A p \in [Invitations -> PaymentType], i \in Invitations, x \in Statuses :
    LET q == [p EXCEPT ![i].status = x] IN
    /\ q \in [Invitations -> PaymentType] /\ q[i].status = x
    /\ \A j \in Invitations : q[j].digest = p[j].digest /\ (j # i => q[j] = p[j])
BY DEF PaymentType

\* Replacing one element of one sequence.
LEMMA ElementSet ==
  ASSUME NEW T, NEW f \in [Invitations -> Seq(T)], NEW i \in Invitations, NEW n \in 1..Len(f[i]),
         NEW y \in T, NEW g, g = [f EXCEPT ![i][n] = y]
  PROVE  /\ g \in [Invitations -> Seq(T)] /\ g[i][n] = y
         /\ \A j \in Invitations :
              /\ Len(g[j]) = Len(f[j]) /\ DOMAIN g[j] = DOMAIN f[j]
              /\ \A m \in DOMAIN f[j] : j # i \/ m # n => g[j][m] = f[j][m]
<1>1. PICK s \in Seq(T) : s = f[i] /\ n \in 1..Len(s) /\ DOMAIN s = 1..Len(s)
  <2>1. f[i] \in Seq(T)
    OBVIOUS
  <2>2. QED
    BY <2>1, LenProperties
<1>2. PICK t \in Seq(T) : t = [s EXCEPT ![n] = y] /\ Len(t) = Len(s)
  <2>1. [s EXCEPT ![n] = y] \in Seq(T) /\ Len([s EXCEPT ![n] = y]) = Len(s)
    BY <1>1, ExceptSeq
  <2>2. QED
    BY <2>1
<1>3. DOMAIN t = DOMAIN s /\ t[n] = y /\ \A m \in DOMAIN s : m # n => t[m] = s[m]
  BY <1>1, <1>2
<1>4. g = [f EXCEPT ![i] = t]
  BY <1>1, <1>2
<1>5. g \in [Invitations -> Seq(T)] /\ g[i] = t /\ \A j \in Invitations : j # i => g[j] = f[j]
  BY <1>4
<1>6. QED
  BY <1>1, <1>2, <1>3, <1>5

\* A registration takes a payment from paid only with an operation that its event does
\* not tell.
LEMMA RegisterAgreed ==
  ASSUME Agreed, NEW i \in Invitations, NEW n \in held[i],
         NEW status \in Reports \cup {"submission_started"}, NEW h \in Hashes \cup {NoHash},
         RegisterOperation(i, n, status, h)
  PROVE  Agreed'
<1>1. /\ RowTypes /\ Signing /\ Followed /\ Matched
      /\ status \in {"submitted", "submitted_unknown", "submission_started"}
  BY RowShape, OtherAssumption DEF Agreed
<1>2. PICK c \in OperationType : c = operation[i][n] /\ n \in 1..Len(operation[i])
  BY <1>1, OperationSigned DEF Signing
<1>3. /\ c.status # "confirmed"
      /\ h # NoHash => c.hash \in {NoHash, h}
  <2>1. status = c.status => c.status # "confirmed"
    BY <1>1
  <2>2. c.status \in MayBecome(status) => c.status # "confirmed"
    BY <1>1 DEF MayBecome
  <2>3. QED
    BY <1>2, <2>1, <2>2 DEF RegisterOperation
<1>4. PICK y \in OperationType :
        /\ y = [c EXCEPT !.status = status, !.hash = IF h = NoHash THEN @ ELSE h]
        /\ y.status = status /\ y.digest = c.digest
        /\ y.hash = c.hash \/ c.hash = NoHash
  <2>1. status \in {"confirmed"} \cup Unfinished
    BY <1>1 DEF Unfinished
  <2>2. [c EXCEPT !.status = status, !.hash = IF h = NoHash THEN @ ELSE h] \in OperationType
    BY <2>1 DEF OperationType
  <2>3. QED
    BY <1>3, <2>2 DEF OperationType
<1>5. PICK o \in [Invitations -> Seq(OperationType)] :
        /\ o = [operation EXCEPT ![i][n] = y] /\ o[i][n] = y
        /\ \A j \in Invitations :
             /\ Len(o[j]) = Len(operation[j]) /\ DOMAIN o[j] = DOMAIN operation[j]
             /\ \A m \in DOMAIN operation[j] : j # i \/ m # n => o[j][m] = operation[j][m]
  <2>1. PICK f \in [Invitations -> Seq(OperationType)] : f = operation /\ n \in 1..Len(f[i])
    BY <1>1, <1>2 DEF RowTypes
  <2>2. PICK g : g = [f EXCEPT ![i][n] = y]
    OBVIOUS
  <2>3. /\ g \in [Invitations -> Seq(OperationType)] /\ g[i][n] = y
        /\ \A j \in Invitations :
             /\ Len(g[j]) = Len(f[j]) /\ DOMAIN g[j] = DOMAIN f[j]
             /\ \A m \in DOMAIN f[j] : j # i \/ m # n => g[j][m] = f[j][m]
    BY <2>1, <2>2, ElementSet
  <2>4. QED
    BY <2>1, <2>2, <2>3
<1>6. /\ applied' = applied /\ UNCHANGED <<chain, feed, split, paidBy, revocation, request, faults, tab, held>>
      /\ operation' = o
      /\ payment' = [payment EXCEPT ![i].status = AsPayment(status)]
      /\ invitation' = [invitation EXCEPT ![i] = AsPayment(status)]
  <2>1. operation' = [operation EXCEPT ![i][n] = y]
    BY <1>2, <1>4 DEF RegisterOperation
  <2>2. QED
    BY <1>5, <2>1 DEF RegisterOperation, feed, people
<1>7. AsPayment(status) \in {"confirming", "submitted_unknown", "submission_started"}
  BY <1>1 DEF AsPayment
<1>8. PICK x \in {"confirming", "submitted_unknown", "submission_started"} : x = AsPayment(status)
  BY <1>7
<1>9. x \in Statuses \ {"none"}
  BY DEF Statuses
<1>10. /\ payment' \in [Invitations -> PaymentType]
       /\ \A j \in Invitations : payment'[j].digest = payment[j].digest
       /\ \A j \in Invitations : j # i => payment'[j] = payment[j]
       /\ payment'[i].status = x
  <2>1. /\ payment \in [Invitations -> PaymentType] /\ x \in Statuses
        /\ payment' = [payment EXCEPT ![i].status = x]
    BY <1>1, <1>6, <1>8, <1>9 DEF RowTypes
  <2>2. PICK p \in [Invitations -> PaymentType] : p = payment
    BY <2>1
  <2>3. PICK q : q = [p EXCEPT ![i].status = x]
    OBVIOUS
  <2>4. /\ q \in [Invitations -> PaymentType] /\ q[i].status = x
        /\ \A j \in Invitations : q[j].digest = p[j].digest /\ (j # i => q[j] = p[j])
    BY <2>1, <2>3 DEF PaymentType
  <2>5. QED
    BY <2>1, <2>2, <2>3, <2>4
<1>11. invitation' \in [Invitations -> Statuses \ {"none"}]
  BY <1>1, <1>6, <1>8, <1>9 DEF RowTypes
<1>12. /\ operation' \in [Invitations -> Seq(OperationType)]
       /\ \A j \in Invitations :
            /\ DOMAIN operation'[j] = DOMAIN operation[j]
            /\ Len(operation'[j]) = Len(operation[j])
            /\ operation[j] # <<>> => operation'[j] # <<>>
            /\ \A m \in DOMAIN operation[j] : operation'[j][m].digest = operation[j][m].digest
  <2>1. ASSUME NEW j \in Invitations, operation[j] # <<>> PROVE o[j] # <<>>
    <3>1. operation[j] \in Seq(OperationType) /\ Len(o[j]) = Len(operation[j])
      BY <1>1, <1>5 DEF RowTypes
    <3>2. QED
      BY <2>1, <3>1, EmptySeq
  <2>2. ASSUME NEW j \in Invitations, NEW m \in DOMAIN operation[j]
        PROVE  o[j][m].digest = operation[j][m].digest
    BY <1>2, <1>4, <1>5
  <2>3. QED
    BY <1>5, <1>6, <2>1, <2>2
<1>13. Signing'
  <2>1. payment[i].status # "none"
    BY <1>1, OperationSigned DEF Signing
  <2>2. ASSUME NEW j \in Invitations
        PROVE  /\ tab[j] # "idle" \/ payment'[j].digest # NoDigest => payment'[j].status # "none"
               /\ tab[j] = "recorded" => payment'[j].digest # NoDigest
               /\ held[j] \subseteq DOMAIN operation'[j]
               /\ \A m \in DOMAIN operation'[j] : operation'[j][m].digest = payment'[j].digest
    <3>1. payment'[j].digest = payment[j].digest
      BY <1>10
    <3>2. payment[j].status # "none" => payment'[j].status # "none"
      BY <1>8, <1>10
    <3>3. /\ tab[j] # "idle" \/ payment[j].digest # NoDigest => payment[j].status # "none"
          /\ tab[j] = "recorded" => payment[j].digest # NoDigest
          /\ held[j] \subseteq DOMAIN operation[j]
      BY <1>1 DEF Signing, Issued
    <3>4. held[j] \subseteq DOMAIN operation'[j]
      BY <1>12, <3>3
    <3>5. ASSUME NEW m \in DOMAIN operation'[j] PROVE operation'[j][m].digest = payment'[j].digest
      <4>1. m \in DOMAIN operation[j] /\ operation'[j][m].digest = operation[j][m].digest
        BY <1>12
      <4>2. QED
        BY <3>1, <4>1, OperationSigned
    <3>6. QED
      BY <3>1, <3>2, <3>3, <3>4, <3>5
  <2>3. QED
    BY <1>6, <2>2 DEF Signing, Issued
<1>14. Followed'
  <2>1. payment[i].status # "none"
    BY <1>1, OperationSigned DEF Signing
  <2>2. QED
    BY <1>1, <1>6, <1>10, <2>1 DEF Followed, Issued
<1>15. Matched'
  <2>1. ASSUME NEW j \in Invitations, Reimbursed(applied, j)
        PROVE  /\ payment'[j].status = "paid" \/ Mistaken(j)'
               /\ paidBy[j] # 0 \/ Mistaken(j)'
               /\ \A m \in DOMAIN operation'[j] :
                    operation'[j][m].status = "confirmed" \/ Untold(j, m)'
    <3>1. CASE j # i
      <4>1. \A m \in DOMAIN operation[j] : operation'[j][m] = operation[j][m]
        BY <1>5, <1>6, <3>1
      <4>2. \A m \in DOMAIN operation[j] : Untold(j, m) => Untold(j, m)'
        BY <1>6, <1>12, <4>1 DEF Untold
      <4>3. Mistaken(j) => Mistaken(j)'
        BY <1>12, <4>1, <4>2 DEF Mistaken
      <4>4. QED
        BY <1>1, <1>10, <1>12, <2>1, <3>1, <4>1, <4>2, <4>3 DEF Matched
    <3>2. CASE j = i
      <4>1. operation[i][n].status # "confirmed" /\ n \in DOMAIN operation[i]
        BY <1>1, <1>2, <1>3 DEF Signing
      <4>2. Untold(i, n)
        BY <1>1, <2>1, <3>2, <4>1 DEF Matched
      <4>3. Untold(i, n)'
        <5>1. operation'[i][n].hash = operation[i][n].hash \/ operation[i][n].hash = NoHash
          BY <1>2, <1>4, <1>5, <1>6
        <5>2. QED
          BY <1>6, <1>12, <4>2, <5>1 DEF Untold
      <4>4. Mistaken(i)'
        <5>1. operation'[i][n].status = status /\ n \in DOMAIN operation'[i]
          BY <1>4, <1>5, <1>6, <1>12, <4>1
        <5>2. QED
          BY <1>1, <4>3, <5>1 DEF Mistaken
      <4>5. ASSUME NEW m \in DOMAIN operation'[i]
            PROVE  operation'[i][m].status = "confirmed" \/ Untold(i, m)'
        <5>1. CASE m = n
          BY <4>3, <5>1
        <5>2. CASE m # n
          <6>1. operation'[i][m] = operation[i][m] /\ m \in DOMAIN operation[i]
            BY <1>5, <1>6, <1>12, <5>2
          <6>2. Untold(i, m) => Untold(i, m)'
            BY <1>6, <1>12, <6>1 DEF Untold
          <6>3. QED
            BY <1>1, <2>1, <3>2, <6>1, <6>2 DEF Matched
        <5>3. QED
          BY <5>1, <5>2
      <4>6. QED
        BY <3>2, <4>4, <4>5
    <3>3. QED
      BY <3>1, <3>2
  <2>2. QED
    BY <1>6, <2>1 DEF Matched
<1>16. faults' \in 0..MaxFaults
  BY <1>6, RowShape
<1>17. QED
  BY <1>1, <1>6, <1>10, <1>11, <1>12, <1>13, <1>14, <1>15, <1>16, ParticipantAgreed DEF RowTypes

LEMMA RegisterPaymentAgreed ==
  ASSUME Agreed, NEW i \in Invitations, NEW status \in Reports,
         RegisterSplitPaymentSubmission(i, status)
  PROVE  Agreed'
<1>1. RowTypes /\ Signing /\ Followed /\ status \in {"submitted", "submitted_unknown"}
  BY RowShape, OtherAssumption DEF Agreed
<1>2. /\ applied' = applied
      /\ UNCHANGED <<chain, feed, split, paidBy, revocation, request, faults, tab, held, invitation, operation>>
      /\ payment[i].status = "submission_started"
      /\ payment' = [payment EXCEPT ![i].status = AsPayment(status)]
  BY DEF RegisterSplitPaymentSubmission, feed, people
<1>3. AsPayment(status) \in {"confirming", "submitted_unknown"}
  BY <1>1 DEF AsPayment
<1>4. /\ payment' \in [Invitations -> PaymentType]
      /\ \A j \in Invitations : payment'[j].digest = payment[j].digest
      /\ \A j \in Invitations : j # i => payment'[j] = payment[j]
      /\ payment'[i].status = AsPayment(status)
  BY <1>1, <1>2, <1>3 DEF RowTypes, PaymentType, Statuses
<1>5. Signing'
  BY <1>1, <1>2, <1>3, <1>4 DEF Signing, Issued
<1>6. Followed'
  BY <1>1, <1>2, <1>3, <1>4 DEF Followed, Issued
<1>7. faults' \in 0..MaxFaults
  BY <1>2, RowShape
<1>8. Matched'
  BY <1>2, <1>4, MatchedKept
<1>9. QED
  BY <1>1, <1>2, <1>4, <1>5, <1>6, <1>7, <1>8, ParticipantAgreed DEF RowTypes

LEMMA ParticipantsAgreed ==
  ASSUME Agreed, ParticipantNext
  PROVE  Agreed'
BY PrepareAgreed, EndRequestAgreed, RecordIntentAgreed, OperationAgreed, RegisterAgreed,
   RegisterPaymentAgreed DEF ParticipantNext

-----------------------------------------------------------------------------
(* Steps of the creator                                                    *)

LEMMA LatestShape ==
  ASSUME Agreed, NEW i \in Invitations
  PROVE  Latest(i) \in 0..Len(revocation[i])
<1> DEFINE alive == {n \in DOMAIN revocation[i] : revocation[i][n].status # "failed"}
<1>1. PICK k \in Nat : k = Len(revocation[i]) /\ DOMAIN revocation[i] = 1..k
  BY RowShape, LenProperties DEF RowTypes
<1>2. PICK S \in SUBSET (1..k) : S = alive
  BY <1>1
<1>3. Latest(i) = IF S = {} THEN 0 ELSE CHOOSE n \in S : \A m \in S : m <= n
  BY <1>2 DEF Latest
<1> HIDE DEF alive
<1>4. CASE S = {}
  BY <1>1, <1>3, <1>4
<1>5. CASE S # {}
  <2>1. \E n \in S : \A m \in S : m <= n
    BY <1>5, GreatestOf
  <2>2. Latest(i) \in S
    BY <1>3, <1>5, <2>1
  <2>3. QED
    BY <1>1, <2>2
<1>6. QED
  BY <1>4, <1>5

\* A step of a request on the revocation operations.
LEMMA RequestAgreed ==
  ASSUME Agreed, UNCHANGED onlyRevocation, faults' \in 0..MaxFaults,
         revocation' \in [Invitations -> Seq(RevocationType)], NEW r \in Requests,
         NEW x \in RequestType, request' = [request EXCEPT ![r] = x],
         \A i \in Invitations : /\ Len(revocation[i]) <= Len(revocation'[i])
                                /\ Len(revocation'[i]) <= MaxRevocations
                                /\ x.seen[i] <= Len(revocation'[i])
                                /\ x.at \in {"starting", "sending"} /\ i \in x.on => x.seen[i] # 0
  PROVE  Agreed'
<1>1. RowTypes /\ Requesting
  BY RowShape DEF Agreed
<1>2. request' \in [Requests -> RequestType] /\ request'[r] = x
      /\ \A q \in Requests : q # r => request'[q] = request[q]
  BY <1>1 DEF RowTypes
<1>3. Requesting'
  <2>1. ASSUME NEW q \in Requests, NEW i \in Invitations
        PROVE  /\ request'[q].seen[i] <= Len(revocation'[i])
               /\ request'[q].at \in {"starting", "sending"} /\ i \in request'[q].on =>
                    request'[q].seen[i] # 0
    <3>1. CASE q = r
      BY <1>2, <3>1
    <3>2. CASE q # r
      <4>1. request'[q] = request[q] /\ request[q].seen[i] \in Nat
        BY <1>1, <1>2, <3>2 DEF RowTypes, RequestType
      <4>2. /\ Len(revocation[i]) \in Nat /\ Len(revocation'[i]) \in Nat
            /\ Len(revocation[i]) <= Len(revocation'[i])
        BY <1>1, LenProperties DEF RowTypes
      <4>3. QED
        BY <1>1, <4>1, <4>2 DEF Requesting
    <3>3. QED
      BY <3>1, <3>2
  <2>2. QED
    BY <2>1 DEF Requesting
<1>4. /\ UNCHANGED <<chain, feed>> /\ applied' = applied /\ tab' = tab /\ held' = held
      /\ split' = split /\ invitation' = invitation /\ payment' = payment
      /\ operation' = operation /\ paidBy' = paidBy
  BY DEF onlyRevocation, feed
<1>5. RowTypes'
  BY <1>1, <1>2, <1>4 DEF RowTypes
<1>6. Booked' /\ Signing' /\ Followed' /\ Matched'
  BY <1>4 DEF Agreed, Booked, Counted, Signing, Followed, Matched, Mistaken, Untold, Issued
<1>7. QED
  BY <1>3, <1>4, <1>5, <1>6, RowsAgreed

LEMMA RequestShape ==
  ASSUME Agreed, NEW r \in Requests
  PROVE  /\ request \in [Requests -> RequestType] /\ request[r] \in RequestType
         /\ request[r].at \in {"idle", "looping", "starting", "sending"}
         /\ request[r].left \subseteq Invitations /\ request[r].on \subseteq Invitations
         /\ request[r].seen \in [Invitations -> 0..MaxRevocations]
         /\ revocation \in [Invitations -> Seq(RevocationType)]
         /\ MaxRevocations \in Nat /\ faults \in 0..MaxFaults
         /\ \A i \in Invitations :
              /\ Len(revocation[i]) \in Nat /\ Len(revocation[i]) <= MaxRevocations
              /\ request[r].seen[i] <= Len(revocation[i]) /\ request[r].seen[i] \in Nat
              /\ request[r].at \in {"starting", "sending"} /\ i \in request[r].on =>
                   request[r].seen[i] # 0
<1>1. /\ request \in [Requests -> RequestType] /\ request[r] \in RequestType
      /\ revocation \in [Invitations -> Seq(RevocationType)] /\ faults \in 0..MaxFaults
  BY RowShape DEF RowTypes
<1>2. \A i \in Invitations : Len(revocation[i]) \in Nat
  BY <1>1, LenProperties
<1>3. /\ request[r].at \in {"idle", "looping", "starting", "sending"}
      /\ request[r].left \subseteq Invitations /\ request[r].on \subseteq Invitations
      /\ request[r].seen \in [Invitations -> 0..MaxRevocations]
  BY <1>1 DEF RequestType
<1>4. \A i \in Invitations : request[r].seen[i] \in Nat
  <2>1. PICK seen \in [Invitations -> 0..MaxRevocations] : seen = request[r].seen
    BY <1>3
  <2>2. \A i \in Invitations : seen[i] \in 0..MaxRevocations
    OBVIOUS
  <2>3. QED
    BY <2>1, <2>2
<1>5. \A i \in Invitations :
        /\ Len(revocation[i]) <= MaxRevocations
        /\ request[r].seen[i] <= Len(revocation[i])
        /\ request[r].at \in {"starting", "sending"} /\ i \in request[r].on =>
             request[r].seen[i] # 0
  BY DEF Agreed, Requesting
<1>6. QED
  BY <1>1, <1>2, <1>3, <1>4, <1>5, OtherAssumption

LEMMA RevocationSet ==
  \A f \in [Invitations -> Seq(RevocationType)], i \in Invitations, y \in RevocationType :
    \A n \in 1..Len(f[i]) :
      LET g == [f EXCEPT ![i][n] = y] IN
      /\ g \in [Invitations -> Seq(RevocationType)]
      /\ \A j \in Invitations : Len(g[j]) = Len(f[j])
<1> SUFFICES ASSUME NEW f \in [Invitations -> Seq(RevocationType)], NEW i \in Invitations,
                    NEW y \in RevocationType, NEW n \in 1..Len(f[i])
             PROVE  LET g == [f EXCEPT ![i][n] = y] IN
                    /\ g \in [Invitations -> Seq(RevocationType)]
                    /\ \A j \in Invitations : Len(g[j]) = Len(f[j])
  OBVIOUS
<1>1. PICK t \in Seq(RevocationType) : t = [f[i] EXCEPT ![n] = y] /\ Len(t) = Len(f[i])
  <2>1. PICK s \in Seq(RevocationType) : s = f[i] /\ n \in 1..Len(s)
    OBVIOUS
  <2>2. [s EXCEPT ![n] = y] \in Seq(RevocationType) /\ Len([s EXCEPT ![n] = y]) = Len(s)
    BY <2>1, ExceptSeq
  <2>3. QED
    BY <2>1, <2>2
<1>2. [f EXCEPT ![i][n] = y] = [f EXCEPT ![i] = t]
  BY <1>1
<1>3. QED
  BY <1>1, <1>2

LEMMA IdleShape ==
  Idle \in RequestType /\ Idle.at = "idle" /\ \A i \in Invitations : Idle.seen[i] = 0
BY OtherAssumption DEF Idle, RequestType

LEMMA WithoutShape ==
  ASSUME Agreed, NEW r \in Requests, NEW i \in Invitations
  PROVE  /\ Without(r, i) \in RequestType /\ Without(r, i).at = "looping"
         /\ \A j \in Invitations : Without(r, i).seen[j] <= Len(revocation[j])
<1>1. PICK x \in RequestType : x = request[r] /\ \A j \in Invitations : x.seen[j] <= Len(revocation[j])
  BY RequestShape
<1>2. Without(r, i) = [x EXCEPT !.at = "looping", !.on = {}, !.left = @ \ {i}, !.seen[i] = 0]
  BY <1>1 DEF Without
<1>3. PICK seen \in [Invitations -> 0..MaxRevocations] :
        seen = [x.seen EXCEPT ![i] = 0]
  <2>1. PICK f \in [Invitations -> 0..MaxRevocations] : f = x.seen
    BY DEF RequestType
  <2>2. [f EXCEPT ![i] = 0] \in [Invitations -> 0..MaxRevocations]
    BY OtherAssumption
  <2>3. QED
    BY <2>1, <2>2
<1>4. Without(r, i) = [at |-> "looping", left |-> x.left \ {i}, on |-> {}, seen |-> seen]
  BY <1>2, <1>3 DEF RequestType
<1>5. Without(r, i) \in RequestType /\ Without(r, i).at = "looping" /\ Without(r, i).seen = seen
  BY <1>4 DEF RequestType
<1>6. \A j \in Invitations : seen[j] <= Len(revocation[j])
  <2>1. \A j \in Invitations : Len(revocation[j]) \in Nat
    BY RequestShape
  <2>2. \A j \in Invitations : seen[j] = x.seen[j] \/ seen[j] = 0
    BY <1>3 DEF RequestType
  <2>3. QED
    BY <1>1, <2>1, <2>2
<1>7. QED
  BY <1>5, <1>6

\* Changing fields of what a request knows.
LEMMA SeenUpdate ==
  ASSUME NEW f \in [Invitations -> 0..MaxRevocations], NEW i \in Invitations, NEW m \in 0..MaxRevocations
  PROVE  \E g \in [Invitations -> 0..MaxRevocations] :
           g = [f EXCEPT ![i] = m] /\ \A j \in Invitations : g[j] = IF j = i THEN m ELSE f[j]
<1>1. /\ [f EXCEPT ![i] = m] \in [Invitations -> 0..MaxRevocations]
      /\ \A j \in Invitations : [f EXCEPT ![i] = m][j] = IF j = i THEN m ELSE f[j]
  OBVIOUS
<1>2. QED
  BY <1>1

LEMMA SeenSet ==
  ASSUME NEW z \in RequestType, NEW i \in Invitations, NEW m \in 0..MaxRevocations
  PROVE  \E x \in RequestType :
           /\ x = [z EXCEPT !.seen[i] = m] /\ x.at = z.at /\ x.on = z.on
           /\ \A j \in Invitations : x.seen[j] = IF j = i THEN m ELSE z.seen[j]
<1>1. PICK f \in [Invitations -> 0..MaxRevocations] : f = z.seen
  BY DEF RequestType
<1>2. PICK g \in [Invitations -> 0..MaxRevocations] :
        g = [f EXCEPT ![i] = m] /\ \A j \in Invitations : g[j] = IF j = i THEN m ELSE f[j]
  BY SeenUpdate
<1>3. [z EXCEPT !.seen[i] = m] = [z EXCEPT !.seen = g]
  BY <1>1, <1>2
<1>4. /\ [z EXCEPT !.seen = g] \in RequestType /\ [z EXCEPT !.seen = g].seen = g
      /\ [z EXCEPT !.seen = g].at = z.at /\ [z EXCEPT !.seen = g].on = z.on
  BY DEF RequestType
<1>5. QED
  BY <1>1, <1>2, <1>3, <1>4

LEMMA PlaceSet ==
  ASSUME NEW z \in RequestType, NEW S \in SUBSET Invitations
  PROVE  /\ \E x \in RequestType : /\ x = [z EXCEPT !.at = "starting", !.on = S]
                                  /\ x.at = "starting" /\ x.on = S /\ x.seen = z.seen
         /\ \E x \in RequestType : /\ x = [z EXCEPT !.at = "sending", !.on = S]
                                  /\ x.at = "sending" /\ x.on = S /\ x.seen = z.seen
<1> DEFINE a == [z EXCEPT !.at = "starting", !.on = S]
           b == [z EXCEPT !.at = "sending", !.on = S]
<1>1. a \in RequestType /\ a.at = "starting" /\ a.on = S /\ a.seen = z.seen
  BY DEF RequestType
<1>2. b \in RequestType /\ b.at = "sending" /\ b.on = S /\ b.seen = z.seen
  BY DEF RequestType
<1>3. a = [z EXCEPT !.at = "starting", !.on = S] /\ b = [z EXCEPT !.at = "sending", !.on = S]
  OBVIOUS
<1> HIDE DEF a, b
<1>4. QED
  BY <1>1, <1>2, <1>3

LEMMA CreateRevocationAgreed ==
  ASSUME Agreed, NEW r \in Requests, NEW i \in Invitations, PrepareRevocation(r, i)
  PROVE  Agreed'
<1> DEFINE row == [status |-> "prepared", hash |-> NoHash, sent |-> FALSE]
<1>1. PICK y \in RequestType : y = request[r]
  BY RequestShape
<1>2. PICK k \in Nat : k = Len(revocation[i]) /\ k < MaxRevocations
  BY RequestShape DEF PrepareRevocation
<1>3. PICK z \in RequestType :
        /\ z = [y EXCEPT !.at = "starting", !.on = {i}]
        /\ z.at = "starting" /\ z.on = {i} /\ z.seen = y.seen
  <2>1. PICK S \in SUBSET Invitations : S = {i}
    OBVIOUS
  <2>2. \E z \in RequestType : z = [y EXCEPT !.at = "starting", !.on = S]
                                 /\ z.at = "starting" /\ z.on = S /\ z.seen = y.seen
    BY PlaceSet
  <2>3. QED
    BY <2>1, <2>2
<1>4. PICK x \in RequestType :
        /\ x = [z EXCEPT !.seen[i] = k + 1] /\ x.at = "starting" /\ x.on = {i}
        /\ \A j \in Invitations : x.seen[j] = IF j = i THEN k + 1 ELSE z.seen[j]
  <2>1. PICK m \in 0..MaxRevocations : m = k + 1
    BY <1>2, OtherAssumption
  <2>2. \E x \in RequestType : /\ x = [z EXCEPT !.seen[i] = m] /\ x.at = z.at /\ x.on = z.on
                                 /\ \A j \in Invitations : x.seen[j] = IF j = i THEN m ELSE z.seen[j]
    BY SeenSet
  <2>3. PICK x \in RequestType : /\ x = [z EXCEPT !.seen[i] = m] /\ x.at = z.at /\ x.on = z.on
                                 /\ \A j \in Invitations : x.seen[j] = IF j = i THEN m ELSE z.seen[j]
    BY <2>2
  <2>4. x.at = "starting" /\ x.on = {i}
    BY <1>3, <2>3
  <2>5. /\ x = [z EXCEPT !.seen[i] = k + 1]
        /\ \A j \in Invitations : x.seen[j] = IF j = i THEN k + 1 ELSE z.seen[j]
    BY <2>1, <2>3
  <2>6. QED
    BY <2>4, <2>5
<1>5. request' = [request EXCEPT ![r] = x]
  <2>1. request' = [request EXCEPT ![r] = [y EXCEPT !.at = "starting", !.on = {i}, !.seen[i] = k + 1]]
    BY <1>1, <1>2 DEF PrepareRevocation, SetRequest
  <2>2. [y EXCEPT !.at = "starting", !.on = {i}, !.seen[i] = k + 1] = x
    BY <1>3, <1>4
  <2>3. QED
    BY <2>1, <2>2
<1>6. row \in RevocationType
  BY DEF RevocationType, Unfinished
<1>7. PICK t \in Seq(RevocationType) : t = Append(revocation[i], row) /\ Len(t) = k + 1
  <2>1. revocation[i] \in Seq(RevocationType)
    BY RequestShape
  <2> HIDE DEF row
  <2>2. Append(revocation[i], row) \in Seq(RevocationType) /\ Len(Append(revocation[i], row)) = k + 1
    BY <1>2, <1>6, <2>1
  <2>3. QED
    BY <2>2
<1>8. revocation' = [revocation EXCEPT ![i] = t]
  BY <1>7 DEF PrepareRevocation
<1>9. revocation' \in [Invitations -> Seq(RevocationType)] /\ revocation'[i] = t
      /\ \A j \in Invitations : j # i => revocation'[j] = revocation[j]
  BY <1>7, <1>8, RequestShape
<1>10. ASSUME NEW j \in Invitations
       PROVE  /\ Len(revocation[j]) <= Len(revocation'[j])
              /\ Len(revocation'[j]) <= MaxRevocations
              /\ x.seen[j] <= Len(revocation'[j])
              /\ x.at \in {"starting", "sending"} /\ j \in x.on => x.seen[j] # 0
  <2>1. CASE j = i
    BY <1>2, <1>4, <1>7, <1>9, <2>1, OtherAssumption
  <2>2. CASE j # i
    <3>1. x.seen[j] = request[r].seen[j] /\ j \notin x.on
      BY <1>1, <1>3, <1>4, <2>2
    <3>2. QED
      BY <1>9, <2>2, <3>1, RequestShape
  <2>3. QED
    BY <2>1, <2>2
<1>11. faults' \in 0..MaxFaults /\ UNCHANGED onlyRevocation
  BY RequestShape DEF PrepareRevocation, NoFault
<1>12. QED
  BY <1>5, <1>9, <1>10, <1>11, RequestAgreed

\* A step that changes one revocation operation, or none, and the request.
LEMMA SetAgreed ==
  ASSUME Agreed, NEW r \in Requests, NEW i \in Invitations, NEW n \in 1..Len(revocation[i]),
         NEW y \in RevocationType, NEW x \in RequestType,
         SetRevocation(i, n, y) \/ revocation' = revocation,
         request' = [request EXCEPT ![r] = x], UNCHANGED onlyRevocation, faults' \in 0..MaxFaults,
         \A j \in Invitations : /\ x.seen[j] <= Len(revocation[j])
                                /\ x.at \in {"starting", "sending"} /\ j \in x.on => x.seen[j] # 0
  PROVE  Agreed'
<1>1. revocation' \in [Invitations -> Seq(RevocationType)]
      /\ \A j \in Invitations : Len(revocation'[j]) = Len(revocation[j])
  <2>1. CASE revocation' = revocation
    BY <2>1, RequestShape
  <2>2. CASE SetRevocation(i, n, y)
    BY <2>2, RequestShape, RevocationSet DEF SetRevocation
  <2>3. QED
    BY <2>1, <2>2
<1>2. \A j \in Invitations : Len(revocation[j]) \in Nat /\ Len(revocation[j]) <= MaxRevocations
  BY RequestShape
<1>3. \A j \in Invitations :
        /\ Len(revocation[j]) <= Len(revocation'[j]) /\ Len(revocation'[j]) <= MaxRevocations
        /\ x.seen[j] <= Len(revocation'[j])
        /\ x.at \in {"starting", "sending"} /\ j \in x.on => x.seen[j] # 0
  BY <1>1, <1>2
<1>4. QED
  BY <1>1, <1>3, RequestAgreed

LEMMA SeenOperation ==
  ASSUME Agreed, NEW r \in Requests, NEW i \in Invitations, request[r].seen[i] # 0
  PROVE  /\ request[r].seen[i] \in 1..Len(revocation[i])
         /\ revocation[i][request[r].seen[i]] \in RevocationType
<1>1. request[r].seen[i] \in 1..Len(revocation[i]) /\ revocation[i] \in Seq(RevocationType)
  BY RequestShape
<1>2. QED
  BY <1>1, ElementOfSeq

LEMMA StatusSet ==
  \A y \in RevocationType, s \in {"failed", "confirmed"} \cup Unfinished :
    [y EXCEPT !.status = s] \in RevocationType
BY DEF RevocationType

\* A fault is counted within the bound.
LEMMA FaultCounted ==
  ASSUME Agreed, Fault
  PROVE  faults' \in 0..MaxFaults
<1>1. PICK f \in Nat, m \in Nat : f = faults /\ m = MaxFaults
  BY RowShape
<1>2. f < m /\ faults' = f + 1
  BY <1>1 DEF Fault
<1> QED
  BY <1>1, <1>2

LEMMA OverdueAgreed ==
  ASSUME Agreed, NEW r \in Requests, NEW i \in Invitations, FailOverdue(r, i)
  PROVE  Agreed'
<1>1. request[r].seen[i] # 0 /\ request[r].at = "looping"
  BY DEF FailOverdue
<1>2. PICK n \in 1..Len(revocation[i]) : n = request[r].seen[i] /\ revocation[i][n] \in RevocationType
  BY <1>1, SeenOperation
<1>3. PICK y \in RevocationType : y = [revocation[i][n] EXCEPT !.status = "failed"]
  BY <1>2, StatusSet
<1>4. PICK z \in RequestType : z = request[r]
  BY RequestShape
<1>5. PICK x \in RequestType :
        /\ x = [z EXCEPT !.seen[i] = 0] /\ x.at = z.at
        /\ \A j \in Invitations : x.seen[j] = IF j = i THEN 0 ELSE z.seen[j]
  <2>1. 0 \in 0..MaxRevocations
    BY OtherAssumption
  <2>2. QED
    BY <2>1, SeenSet
<1>8. request' = [request EXCEPT ![r] = x]
  BY <1>4, <1>5 DEF FailOverdue, SetRequest
<1>9. x.at = "looping" /\ \A j \in Invitations : x.seen[j] <= Len(revocation[j])
  <2>1. \A j \in Invitations : x.seen[j] = 0 \/ x.seen[j] = request[r].seen[j]
    BY <1>4, <1>5
  <2>2. \A j \in Invitations : Len(revocation[j]) \in Nat /\ request[r].seen[j] <= Len(revocation[j])
    BY RequestShape
  <2>3. QED
    BY <1>1, <1>4, <1>5, <2>1, <2>2
<1>10. SetRevocation(i, n, y) /\ faults' \in 0..MaxFaults /\ UNCHANGED onlyRevocation
  <2>1. SetRevocation(i, request[r].seen[i],
                      [revocation[i][request[r].seen[i]] EXCEPT !.status = "failed"])
    BY DEF FailOverdue
  <2>2. SetRevocation(i, n, y)
    BY <1>2, <1>3, <2>1
  <2>3. faults' = faults /\ UNCHANGED onlyRevocation
    BY DEF FailOverdue, NoFault
  <2> QED
    BY <2>2, <2>3, RequestShape
<1>11. QED
  BY <1>8, <1>9, <1>10, SetAgreed

LEMMA StartAgreed ==
  ASSUME Agreed, NEW r \in Requests, NEW i \in Invitations, StartRevocation(r, i)
  PROVE  Agreed'
<1>1. request[r].seen[i] # 0
  BY RequestShape DEF StartRevocation
<1>2. PICK n \in 1..Len(revocation[i]) : n = request[r].seen[i] /\ revocation[i][n] \in RevocationType
  BY <1>1, SeenOperation
<1>3. faults' \in 0..MaxFaults /\ UNCHANGED onlyRevocation
  BY RequestShape DEF StartRevocation, NoFault
<1>4. CASE revocation[i][n].status \in {"prepared", "submission_started"}
  <2>1. PICK y \in RevocationType : y = [revocation[i][n] EXCEPT !.status = "submission_started"]
    BY <1>2, StatusSet DEF Unfinished
  <2>2. PICK z \in RequestType : z = request[r]
    BY RequestShape
  <2>3. PICK x \in RequestType :
          x = [z EXCEPT !.at = "sending", !.on = {i}] /\ x.on = {i} /\ x.seen = z.seen
    <3>1. PICK S \in SUBSET Invitations : S = {i}
      OBVIOUS
    <3>2. \E x \in RequestType : x = [z EXCEPT !.at = "sending", !.on = S]
                                   /\ x.at = "sending" /\ x.on = S /\ x.seen = z.seen
      BY PlaceSet
    <3>3. QED
      BY <3>1, <3>2
  <2>4. request' = [request EXCEPT ![r] = x] /\ SetRevocation(i, n, y)
    BY <1>2, <1>4, <2>1, <2>2, <2>3 DEF StartRevocation, SetRequest
  <2>5. \A j \in Invitations : x.seen[j] <= Len(revocation[j]) /\ (j \in x.on => x.seen[j] # 0)
    <3>1. x.seen = request[r].seen /\ x.on = {i}
      BY <2>2, <2>3
    <3>2. QED
      BY <1>1, <3>1, RequestShape
  <2>6. QED
    BY <1>3, <2>4, <2>5, SetAgreed
<1>5. CASE revocation[i][n].status \notin {"prepared", "submission_started"}
  <2>1. PICK x \in RequestType : /\ x = Without(r, i) /\ x.at = "looping"
                                 /\ \A j \in Invitations : x.seen[j] <= Len(revocation[j])
    BY WithoutShape
  <2>2. request' = [request EXCEPT ![r] = x] /\ revocation' = revocation
    BY <1>2, <1>5, <2>1 DEF StartRevocation, SetRequest
  <2>3. QED
    BY <1>2, <1>3, <2>1, <2>2, SetAgreed
<1>6. QED
  BY <1>4, <1>5

LEMMA SendAgreed ==
  ASSUME Agreed, NEW r \in Requests, NEW i \in Invitations, SendRevocation(r, i)
  PROVE  Agreed'
<1>1. request[r].at = "sending" /\ request[r].on = {i} /\ request[r].seen[i] # 0
  BY RequestShape DEF SendRevocation
<1>2. PICK n \in 1..Len(revocation[i]) : n = request[r].seen[i] /\ revocation[i][n] \in RevocationType
  BY <1>1, SeenOperation
<1>3. PICK y \in RevocationType : y = [revocation[i][n] EXCEPT !.sent = TRUE]
  BY <1>2 DEF RevocationType
<1>4. PICK x \in RequestType : x = request[r]
  BY RequestShape
<1>5. request' = [request EXCEPT ![r] = x]
  BY <1>4, RequestShape DEF SendRevocation
<1>6. SetRevocation(i, n, y) /\ faults' \in 0..MaxFaults /\ UNCHANGED onlyRevocation
  BY <1>2, <1>3, RequestShape DEF SendRevocation
<1>7. \A j \in Invitations : /\ x.seen[j] <= Len(revocation[j])
                             /\ x.at \in {"starting", "sending"} /\ j \in x.on => x.seen[j] # 0
  BY <1>4, RequestShape
<1>8. QED
  BY <1>5, <1>6, <1>7, SetAgreed

LEMMA RecordRevocationAgreed ==
  ASSUME Agreed, NEW r \in Requests, NEW i \in Invitations, NEW status \in Reports,
         NEW h \in {NoHash} \cup 1..MaxRevocations, RecordRevocation(r, i, status, h)
  PROVE  Agreed'
<1>1. request[r].at = "sending" /\ request[r].on = {i} /\ request[r].seen[i] # 0
  BY RequestShape DEF RecordRevocation
<1>2. PICK n \in 1..Len(revocation[i]) : n = request[r].seen[i] /\ revocation[i][n] \in RevocationType
  BY <1>1, SeenOperation
<1>3. PICK y \in RevocationType : y = [revocation[i][n] EXCEPT !.status = status, !.hash = h]
  <2>1. status \in Unfinished
    BY OtherAssumption DEF Unfinished
  <2>2. QED
    BY <1>2, <2>1 DEF RevocationType
<1>4. PICK x \in RequestType : /\ x = Without(r, i) /\ x.at = "looping"
                               /\ \A j \in Invitations : x.seen[j] <= Len(revocation[j])
  BY WithoutShape
<1>5. /\ request' = [request EXCEPT ![r] = x] /\ SetRevocation(i, n, y)
      /\ faults' \in 0..MaxFaults /\ UNCHANGED onlyRevocation
  BY <1>2, <1>3, <1>4, RequestShape DEF RecordRevocation, SetRequest, NoFault
<1>6. QED
  BY <1>4, <1>5, SetAgreed

LEMMA FailAgreed ==
  ASSUME Agreed, NEW r \in Requests, NEW i \in Invitations, FailRevocation(r, i)
  PROVE  Agreed'
<1>1. request[r].at = "sending" /\ request[r].on = {i} /\ request[r].seen[i] # 0
  BY RequestShape DEF FailRevocation
<1>2. PICK n \in 1..Len(revocation[i]) : n = request[r].seen[i] /\ revocation[i][n] \in RevocationType
  BY <1>1, SeenOperation
<1>3. PICK y \in RevocationType : y = [revocation[i][n] EXCEPT !.status = "failed"]
  BY <1>2, StatusSet
<1>4. PICK x \in RequestType : x = Idle /\ x.at = "idle" /\ \A j \in Invitations : x.seen[j] = 0
  BY IdleShape
<1>5. /\ request' = [request EXCEPT ![r] = x] /\ SetRevocation(i, n, y)
      /\ faults' \in 0..MaxFaults /\ UNCHANGED onlyRevocation
  <2>1. SetRevocation(i, request[r].seen[i],
                      [revocation[i][request[r].seen[i]] EXCEPT !.status = "failed"])
    BY DEF FailRevocation
  <2>2. SetRevocation(i, n, y)
    BY <1>2, <1>3, <2>1
  <2>3. Fault /\ UNCHANGED onlyRevocation
    BY DEF FailRevocation
  <2>4. request' = [request EXCEPT ![r] = x]
    BY <1>4 DEF FailRevocation, SetRequest
  <2> QED
    BY <2>2, <2>3, <2>4, FaultCounted
<1>6. \A j \in Invitations : x.seen[j] <= Len(revocation[j])
  BY <1>4, RequestShape
<1>7. QED
  BY <1>4, <1>5, <1>6, SetAgreed

LEMMA LeaveAgreed ==
  ASSUME Agreed, NEW r \in Requests, LeaveRequest(r)
  PROVE  Agreed'
<1>1. PICK x \in RequestType : x = Idle /\ x.at = "idle" /\ \A j \in Invitations : x.seen[j] = 0
  BY IdleShape
<1>2. request' = [request EXCEPT ![r] = x] /\ revocation' = revocation /\ UNCHANGED onlyRevocation
  BY <1>1 DEF LeaveRequest, SetRequest, onlyRevocation, rows
<1>3. faults' \in 0..MaxFaults
  BY RequestShape, OtherAssumption DEF LeaveRequest, Fault, NoFault
<1>4. \A j \in Invitations :
        /\ Len(revocation[j]) <= Len(revocation'[j]) /\ Len(revocation'[j]) <= MaxRevocations
        /\ x.seen[j] <= Len(revocation'[j])
  BY <1>1, <1>2, RequestShape
<1>5. revocation' \in [Invitations -> Seq(RevocationType)]
  BY <1>2, RequestShape
<1>6. QED
  BY <1>1, <1>2, <1>3, <1>4, <1>5, RequestAgreed

LEMMA AskRevocationAgreed ==
  ASSUME Agreed, NEW r \in Requests, PrepareSplitRevocation(r)
  PROVE  Agreed'
<1>1. RowTypes /\ Booked /\ Signing /\ Followed /\ Matched /\ Requesting
  BY RowShape DEF Agreed
<1>2. /\ UNCHANGED <<chain, feed, tab, held, payment, operation, paidBy, revocation>>
      /\ applied' = applied /\ split.confirmed = 0
      /\ split.status \notin {"revoked", "complete"}
  BY DEF PrepareSplitRevocation, feed
<1>3. faults' \in 0..MaxFaults
  BY RowShape DEF PrepareSplitRevocation, Fault, NoFault
<1>4. 0 # TotalBaseUnits /\ Matched'
  BY <1>2, WholeAmount, MatchedKept
<1>5. CASE \E i \in Invitations : Issued(i)
  <2>1. PICK seen \in [Invitations -> 0..MaxRevocations] :
          /\ seen = [i \in Invitations |-> IF ToRevoke(i) THEN Latest(i) ELSE 0]
          /\ \A i \in Invitations : seen[i] <= Len(revocation[i])
    <3> DEFINE f == [i \in Invitations |-> IF ToRevoke(i) THEN Latest(i) ELSE 0]
    <3>1. ASSUME NEW i \in Invitations PROVE f[i] \in 0..MaxRevocations /\ f[i] <= Len(revocation[i])
      BY LatestShape, RequestShape
    <3> HIDE DEF f
    <3>2. f \in [Invitations -> 0..MaxRevocations]
      BY <3>1 DEF f
    <3>3. QED
      BY <3>1, <3>2 DEF f
  <2>2. PICK x \in RequestType :
          x = [at |-> "looping", on |-> {}, left |-> {i \in Invitations : ToRevoke(i)}, seen |-> seen]
    BY DEF RequestType
  <2>3. /\ request' = [request EXCEPT ![r] = x] /\ invitation' = invitation
        /\ split' = [split EXCEPT !.status = "revoking"]
    BY <1>5, <2>1, <2>2 DEF PrepareSplitRevocation, SetRequest
  <2>4. request' \in [Requests -> RequestType] /\ request'[r] = x
        /\ \A q \in Requests : q # r => request'[q] = request[q]
    BY <1>1, <2>3 DEF RowTypes
  <2>5. Requesting'
    BY <1>1, <1>2, <2>1, <2>2, <2>4 DEF Requesting
  <2>6. /\ split' \in [status: {"active", "revoking", "revoked", "partially_paid", "complete"},
                       confirmed: 0..TotalBaseUnits, revokedAt: BOOLEAN]
        /\ split'.status = "revoking" /\ split'.confirmed = split.confirmed
    BY <1>1, <2>3 DEF RowTypes
  <2>7. RowTypes'
    BY <1>1, <1>2, <2>3, <2>4, <2>6 DEF RowTypes
  <2>8. Booked' /\ Followed' /\ Signing'
    BY <1>1, <1>2, <1>4, <2>6 DEF Booked, Counted, Followed, Signing, Issued
  <2>9. QED
    BY <1>2, <1>3, <1>4, <2>5, <2>7, <2>8, RowsAgreed
<1>6. CASE \A i \in Invitations : ~Issued(i)
  <2>1. /\ request' = request
        /\ split' = [split EXCEPT !.status = "revoked", !.revokedAt = TRUE]
        /\ invitation' = [i \in Invitations |->
             IF invitation[i] = "unpaid" THEN "revoked" ELSE invitation[i]]
    BY <1>6 DEF PrepareSplitRevocation
  <2>2. /\ split' \in [status: {"active", "revoking", "revoked", "partially_paid", "complete"},
                       confirmed: 0..TotalBaseUnits, revokedAt: BOOLEAN]
        /\ split'.status = "revoked" /\ split'.confirmed = split.confirmed
    BY <1>1, <2>1 DEF RowTypes
  <2>3. invitation' \in [Invitations -> Statuses \ {"none"}]
    BY <1>1, <2>1 DEF RowTypes, Statuses
  <2>4. RowTypes' /\ Requesting'
    BY <1>1, <1>2, <2>1, <2>2, <2>3 DEF RowTypes, Requesting
  <2>5. Booked' /\ Followed' /\ Signing'
    BY <1>1, <1>2, <1>4, <1>6, <2>2 DEF Booked, Counted, Followed, Signing, Issued
  <2>6. QED
    BY <1>2, <1>3, <1>4, <2>4, <2>5, RowsAgreed
<1>7. QED
  BY <1>5, <1>6

LEMMA CreatorsAgreed ==
  ASSUME Agreed, CreatorNext
  PROVE  Agreed'
BY AskRevocationAgreed, LeaveAgreed, CreateRevocationAgreed, OverdueAgreed, StartAgreed, SendAgreed,
   FailAgreed, RecordRevocationAgreed DEF CreatorNext


-----------------------------------------------------------------------------
(* Steps of the projector                                                  *)

LEMMA SameRange ==
  \A m, k \in Nat : 1..m = 1..k => m = k
<1> SUFFICES ASSUME NEW m \in Nat, NEW k \in Nat, 1..m = 1..k PROVE m = k
  OBVIOUS
<1>1. \A j \in Nat \ {0} : j <= m <=> j <= k
  OBVIOUS
<1>2. m # 0 => m <= k
  BY <1>1
<1>3. k # 0 => k <= m
  BY <1>1
<1>4. QED
  BY <1>2, <1>3

\* What the event confirms of the operations of its payment.
LEMMA ConfirmedShape ==
  ASSUME NEW T, NEW s \in Seq(T), NEW h,
         \A y \in T : [y EXCEPT !.status = "confirmed", !.hash = h] \in T
  PROVE  /\ Confirmed(s, h) \in Seq(T) /\ Len(Confirmed(s, h)) = Len(s)
<1>1. DOMAIN s = 1..Len(s) /\ Len(s) \in Nat /\ \A n \in 1..Len(s) : s[n] \in T
  BY LenProperties, ElementOfSeq
<1>2. PICK f \in [1..Len(s) -> T] : f = Confirmed(s, h)
  BY <1>1 DEF Confirmed
<1>3. f \in Seq(T) /\ Len(f) = Len(s)
  <2>1. PICK k \in Nat : k = Len(s) /\ f \in [1..k -> T]
    BY <1>1
  <2>2. f \in Seq(T)
    BY <2>1, SeqDef
  <2>3. PICK m \in Nat : m = Len(f) /\ 1..m = 1..k
    BY <2>1, <2>2, LenProperties
  <2>4. m = k
    BY <2>3, SameRange
  <2>5. QED
    BY <2>1, <2>2, <2>3, <2>4
<1>4. QED
  BY <1>2, <1>3

\* The only operation of a payment is confirmed by the event, or has another hash.
LEMMA SoleOperation ==
  ASSUME NEW s \in Seq(OperationType), Len(s) = 1, NEW h \in Hashes, NEW n \in DOMAIN s
  PROVE  Confirmed(s, h)[n].status = "confirmed" \/ Confirmed(s, h)[n].hash \notin {NoHash, h}
<1>1. DOMAIN s = {1} /\ n = 1
  BY LenProperties
<1>2. PICK c \in OperationType : c = s[1]
  BY <1>1, ElementOfSeq
<1>3. Confirmed(s, h)[1] =
        IF 1 \in Selected(s, h) THEN [c EXCEPT !.status = "confirmed", !.hash = h] ELSE c
  BY <1>1, <1>2 DEF Confirmed
<1>4. CASE c.status \notin Unfinished
  BY <1>1, <1>3, <1>4 DEF OperationType
<1>5. CASE c.status \in Unfinished /\ c.hash = h
  <2>1. {k \in {m \in DOMAIN s : s[m].status \in Unfinished} : s[k].hash = h} = {1}
    BY <1>1, <1>2, <1>5
  <2>2. 1 \in Selected(s, h)
    BY <2>1 DEF Selected
  <2>3. QED
    BY <1>1, <1>3, <2>2 DEF OperationType
<1>6. CASE c.status \in Unfinished /\ c.hash = NoHash /\ h # NoHash
  <2>1. /\ {k \in {m \in DOMAIN s : s[m].status \in Unfinished} : s[k].hash = h} = {}
        /\ {m \in DOMAIN s : s[m].status \in Unfinished} = {1}
    BY <1>1, <1>2, <1>6
  <2>2. 1 \in Selected(s, h)
    BY <1>2, <1>6, <2>1 DEF Selected
  <2>3. QED
    BY <1>1, <1>3, <2>2 DEF OperationType
<1>7. CASE c.hash \notin {NoHash, h}
  BY <1>1, <1>3, <1>7 DEF OperationType
<1>8. QED
  BY <1>4, <1>5, <1>6, <1>7

LEMMA NextFacts ==
  ASSUME Agreed, NEW call, NextIs(call)
  PROVE  /\ call \in Calls0 /\ ~Reimbursed(applied, call[2]) /\ ~Revoked(applied, call[2])
         /\ applied' \in Seq(Calls0) /\ KeysOnce(applied') /\ Called(applied')
         /\ agreed' \in 0..Len(applied') /\ agreed' <= Len(chain)
         /\ SubSeq(applied', 1, agreed') = SubSeq(chain, 1, agreed')
         /\ call[1] = "reimburse" =>
              call[4] = payment[call[2]].digest /\ operation[call[2]] # <<>>
         /\ call[1] = "reimburse" => Told(applied', call[2]) = {call[3]}
         /\ \A i : i # call[2] => Told(applied', i) = Told(applied, i)
         /\ \A i : Reimbursed(applied', i) <=>
                     Reimbursed(applied, i) \/ (call[1] = "reimburse" /\ call[2] = i)
         /\ \A i : Revoked(applied', i) <=>
                     Revoked(applied, i) \/ (call[1] = "revoke" /\ call[2] = i)
<1>1. /\ chain \in Seq(Calls0) /\ applied \in Seq(Calls0) /\ Keys
      /\ agreed \in Nat /\ agreed = Len(applied) /\ agreed < Len(chain) /\ Len(chain) \in Nat
      /\ SubSeq(applied, 1, agreed) = SubSeq(chain, 1, agreed)
      /\ chain[agreed + 1] = call
      /\ applied' = Append(applied, call) /\ agreed' = agreed + 1
  BY Shape DEF Agreed, NextIs
<1>2. PICK k \in 1..Len(chain) : k = agreed + 1
  BY <1>1
<1>3. call \in Calls0 /\ chain[k] = call
  BY <1>1, <1>2, ElementOfSeq
<1>4. /\ Len(applied') = k /\ applied'[k] = call
      /\ \A n \in 1..agreed : applied'[n] = applied[n]
      /\ applied' \in Seq(Calls0)
  BY <1>1, <1>2, <1>3
<1>5. \A n \in 1..agreed : applied[n] = chain[n]
  BY <1>1, CutOfCut
<1>6. /\ DOMAIN chain = 1..Len(chain) /\ DOMAIN applied = 1..agreed /\ DOMAIN applied' = 1..k
  BY <1>1, <1>4, LenProperties
<1>7. \A n \in 1..k : n \in 1..agreed \/ n = k
  BY <1>1, <1>2
<1>8. \A n \in 1..k : applied'[n] = chain[n] /\ n \in DOMAIN chain
  BY <1>2, <1>3, <1>4, <1>5, <1>6, <1>7
<1>9. KeysOnce(applied') /\ Called(applied')
  BY <1>1, <1>6, <1>8 DEF Keys, KeysOnce, Called
<1>10. SubSeq(applied', 1, k) = SubSeq(chain, 1, k)
  <2>1. k \in 0..Len(applied') /\ k \in 0..Len(chain)
    BY <1>2, <1>4
  <2>2. /\ SubSeq(applied', 1, k) \in Seq(Calls0) /\ SubSeq(chain, 1, k) \in Seq(Calls0)
        /\ Len(SubSeq(applied', 1, k)) = k /\ Len(SubSeq(chain, 1, k)) = k
        /\ \A n \in 1..k : SubSeq(applied', 1, k)[n] = applied'[n] /\ SubSeq(chain, 1, k)[n] = chain[n]
    BY <1>1, <1>4, <2>1, Cut
  <2>3. PICK u, v \in Seq(Calls0) : u = SubSeq(applied', 1, k) /\ v = SubSeq(chain, 1, k)
    BY <2>2
  <2>4. Len(u) = k /\ Len(v) = k /\ \A n \in 1..k : u[n] = v[n]
    BY <1>8, <2>2, <2>3
  <2>5. u = v
    BY <2>4, SeqEqual
  <2>6. QED
    BY <2>3, <2>5
<1>11. ASSUME NEW n \in DOMAIN applied PROVE applied[n][2] # call[2]
  <2>1. n \in 1..agreed /\ n \in DOMAIN chain /\ k \in DOMAIN chain /\ n # k
    BY <1>1, <1>2, <1>6
  <2>2. applied[n] = chain[n]
    BY <1>5, <2>1
  <2>3. QED
    BY <1>1, <1>3, <2>1, <2>2 DEF Keys, KeysOnce
<1>12. ~Reimbursed(applied, call[2]) /\ ~Revoked(applied, call[2])
  BY <1>11 DEF Reimbursed, Revoked, Calls
<1>13. call[1] = "reimburse" => call[4] = payment[call[2]].digest /\ operation[call[2]] # <<>>
  BY <1>1, <1>2, <1>3, <1>6 DEF Keys, Called
<1>14. ASSUME NEW i
       PROVE  /\ Reimbursed(applied', i) <=>
                   Reimbursed(applied, i) \/ (call[1] = "reimburse" /\ call[2] = i)
              /\ Revoked(applied', i) <=>
                   Revoked(applied, i) \/ (call[1] = "revoke" /\ call[2] = i)
  <2>1. \A n \in 1..agreed : n \in 1..k
    BY <1>1, <1>2
  <2>2. k \in 1..k
    BY <1>2
  <2>3. QED
    BY <1>4, <1>6, <1>7, <2>1, <2>2 DEF Reimbursed, Revoked, Calls
<1>15. agreed' \in 0..Len(applied') /\ agreed' <= Len(chain) /\ agreed' = k
  BY <1>1, <1>2, <1>4
<1>16. ASSUME NEW i
       PROVE  Calls(applied', "reimburse", i) =
                IF call[1] = "reimburse" /\ call[2] = i THEN {k} ELSE Calls(applied, "reimburse", i)
  <2>1. \A n \in 1..agreed : n \in 1..k /\ n # k
    BY <1>1, <1>2
  <2>2. k \in 1..k
    BY <1>2
  <2>3. CASE call[1] = "reimburse" /\ call[2] = i
    BY <1>4, <1>6, <1>7, <1>11, <2>2, <2>3 DEF Calls
  <2>4. CASE ~ (call[1] = "reimburse" /\ call[2] = i)
    BY <1>4, <1>6, <1>7, <2>1, <2>4 DEF Calls
  <2>5. QED
    BY <2>3, <2>4
<1>17. call[1] = "reimburse" => Told(applied', call[2]) = {call[3]}
  BY <1>4, <1>16 DEF Told
<1>18. ASSUME NEW i, i # call[2] PROVE Told(applied', i) = Told(applied, i)
  <2>1. Calls(applied', "reimburse", i) = Calls(applied, "reimburse", i)
    BY <1>16, <1>18
  <2>2. \A m \in Calls(applied, "reimburse", i) : applied'[m] = applied[m]
    BY <1>4, <1>6 DEF Calls
  <2>3. QED
    BY <2>1, <2>2 DEF Told
<1>19. QED
  BY <1>3, <1>4, <1>9, <1>10, <1>12, <1>13, <1>14, <1>15, <1>17, <1>18

\* A call is projected and the rows follow.
LEMMA FeedAgreed ==
  ASSUME Agreed, NEW call, NextIs(call), UNCHANGED <<chain, faults, refused>>,
         RowTypes', Booked', Signing', Followed', Matched', Requesting',
         \A i \in Invitations : payment[i].digest # NoDigest => payment'[i].digest = payment[i].digest,
         \A i \in Invitations : operation[i] # <<>> => operation'[i] # <<>>
  PROVE  Agreed'
<1>1. /\ applied' \in Seq(Calls0) /\ KeysOnce(applied') /\ Called(applied')
      /\ agreed' \in 0..Len(applied') /\ agreed' <= Len(chain)
      /\ SubSeq(applied', 1, agreed') = SubSeq(chain, 1, agreed')
  BY NextFacts
<1>2. TypeOK'
  BY <1>1 DEF Agreed, TypeOK, RowTypes, PaymentType, OperationType, RevocationType, RequestType
<1>3. Called(applied)'
  BY <1>1, CalledKept DEF Called
<1>4. Called(chain)'
  <2>1. chain \in Seq(Calls0) /\ Called(chain)
    BY Shape DEF Agreed, Keys
  <2>2. QED
    BY <2>1, CalledKept DEF Called
<1>5. Keys'
  BY <1>1, <1>3, <1>4 DEF Agreed, Keys, KeysOnce
<1>6. QED
  BY <1>2, <1>5 DEF Agreed


\* The contract reimburses only what the application recognises.
LEMMA ReimbursedAgreed ==
  ASSUME Agreed, NEW i \in Invitations, NEW h \in Hashes, NEW d \in Digests,
         SplitReimbursed(i, h, d)
  PROVE  Agreed'
<1> DEFINE call == <<"reimburse", i, h, d>>
           sum == split.confirmed + Amount[i]
<1>1. RowTypes /\ Booked /\ Signing /\ Followed /\ Matched /\ Requesting
  BY RowShape DEF Agreed
<1>2. NextIs(call) /\ call[1] = "reimburse" /\ call[2] = i /\ call[3] = h /\ call[4] = d
  BY DEF SplitReimbursed
<1>3. /\ ~Reimbursed(applied, i) /\ payment[i].digest = d /\ operation[i] # <<>>
      /\ Told(applied', i) = {h} /\ \A j : j # i => Told(applied', j) = Told(applied, j)
      /\ \A j : Reimbursed(applied', j) <=> Reimbursed(applied, j) \/ j = i
      /\ \A j : Revoked(applied', j) <=> Revoked(applied, j)
  <2> HIDE DEF call
  <2>1. QED
    BY <1>2, NextFacts
<1>4. i \notin Counted /\ Counted \subseteq Invitations
  BY <1>1, <1>3 DEF Booked, Counted
<1>5. /\ sum = AmountOf(Counted \cup {i}) /\ sum \in 0..TotalBaseUnits /\ sum # 0
      /\ sum <= TotalBaseUnits
  <2>1. PICK S \in SUBSET Invitations : S = Counted /\ i \in Invitations \ S
    BY <1>4
  <2>2. PICK a \in Nat : a = AmountOf(S)
    BY AmountOfType, WholeAmount
  <2>3. AmountOf(S \cup {i}) = a + Amount[i] /\ a + Amount[i] <= TotalBaseUnits
    BY <2>1, <2>2, AmountOfMore
  <2>4. split.confirmed = a /\ Amount[i] \in Nat \ {0}
    BY <1>1, <2>1, <2>2, AmountAssumption DEF Booked
  <2>5. QED
    BY <2>1, <2>3, <2>4, WholeAmount
<1>6. payment[i].status # "paid"
  BY <1>1, <1>3 DEF Followed
<1>7. /\ payment' = [payment EXCEPT ![i].status = "paid"]
      /\ invitation' = [invitation EXCEPT ![i] = "paid"]
      /\ paidBy' = [paidBy EXCEPT ![i] = Amount[i]]
      /\ split' = [split EXCEPT !.confirmed = sum,
           !.status = IF sum = TotalBaseUnits THEN "complete" ELSE "partially_paid"]
      /\ operation' = [operation EXCEPT ![i] = Confirmed(operation[i], h)]
      /\ refused' = refused
      /\ UNCHANGED <<chain, faults, tab, held, request, revocation>>
  BY <1>3, <1>5, <1>6 DEF SplitReimbursed, people
<1> HIDE DEF call, sum
<1>8. /\ payment' \in [Invitations -> PaymentType] /\ payment'[i].status = "paid"
      /\ \A j \in Invitations : payment'[j].digest = payment[j].digest /\ (j # i => payment'[j] = payment[j])
  <2>1. payment \in [Invitations -> PaymentType] /\ "paid" \in Statuses
    BY <1>1 DEF RowTypes, Statuses
  <2>2. QED
    BY <1>7, <2>1, StatusChanged
<1>9. PICK s \in Seq(OperationType) : s = operation[i] /\ s # <<>> /\ DOMAIN s = 1..Len(s) /\ Len(s) \in Nat
  BY <1>1, <1>3, LenProperties DEF RowTypes
<1>10. /\ Confirmed(s, h) \in Seq(OperationType) /\ Len(Confirmed(s, h)) = Len(s)
       /\ DOMAIN Confirmed(s, h) = DOMAIN s
       /\ \A n \in DOMAIN s : Confirmed(s, h)[n].digest = s[n].digest
  <2>1. \A y \in OperationType : [y EXCEPT !.status = "confirmed", !.hash = h] \in OperationType
    BY DEF OperationType
  <2>2. Confirmed(s, h) \in Seq(OperationType) /\ Len(Confirmed(s, h)) = Len(s)
    BY <2>1, ConfirmedShape
  <2>5. DOMAIN Confirmed(s, h) = DOMAIN s
    BY DEF Confirmed
  <2>3. ASSUME NEW n \in DOMAIN s PROVE Confirmed(s, h)[n].digest = s[n].digest
    <3>1. PICK c \in OperationType : c = s[n]
      BY <1>9, ElementOfSeq
    <3>2. [c EXCEPT !.status = "confirmed", !.hash = h].digest = c.digest
      BY DEF OperationType
    <3>3. Confirmed(s, h)[n] \in {s[n], [s[n] EXCEPT !.status = "confirmed", !.hash = h]}
      BY DEF Confirmed
    <3>4. QED
      BY <3>1, <3>2, <3>3
  <2>4. QED
    BY <2>2, <2>3, <2>5
<1>11. /\ operation' \in [Invitations -> Seq(OperationType)] /\ operation'[i] = Confirmed(s, h)
       /\ \A j \in Invitations : j # i => operation'[j] = operation[j]
  BY <1>1, <1>7, <1>9, <1>10 DEF RowTypes
<1>12. invitation' \in [Invitations -> Statuses \ {"none"}]
  BY <1>1, <1>7 DEF RowTypes, Statuses
<1>13. /\ paidBy' \in [Invitations -> Nat] /\ paidBy'[i] = Amount[i] /\ Amount[i] # 0
       /\ \A j \in Invitations : j # i => paidBy'[j] = paidBy[j]
  BY <1>1, <1>7, AmountAssumption DEF RowTypes
<1>14. /\ split' \in [status: {"active", "revoking", "revoked", "partially_paid", "complete"},
                      confirmed: 0..TotalBaseUnits, revokedAt: BOOLEAN]
       /\ split'.confirmed = sum
       /\ split'.status \in {"complete", "partially_paid"}
       /\ split'.status = "complete" <=> sum = TotalBaseUnits
  BY <1>1, <1>5, <1>7 DEF RowTypes
<1>15. RowTypes'
  BY <1>1, <1>7, <1>8, <1>11, <1>12, <1>13, <1>14 DEF RowTypes
<1>16. Booked'
  <2>1. Counted' = Counted \cup {i}
    BY <1>13 DEF Counted
  <2>2. \A j \in Counted' : paidBy'[j] = Amount[j] /\ Reimbursed(applied', j)
    BY <1>1, <1>3, <1>13, <2>1 DEF Booked, Counted
  <2>3. QED
    BY <1>5, <1>14, <2>1, <2>2 DEF Booked
<1>17. ASSUME NEW j \in Invitations
       PROVE  /\ DOMAIN operation'[j] = DOMAIN operation[j]
              /\ operation[j] # <<>> => operation'[j] # <<>>
              /\ \A n \in DOMAIN operation[j] : operation'[j][n].digest = operation[j][n].digest
  <2>1. CASE j = i
    <3>1. Confirmed(s, h) # <<>>
      BY <1>9, <1>10, EmptySeq
    <3>2. QED
      BY <1>9, <1>10, <1>11, <2>1, <3>1
  <2>2. CASE j # i
    BY <1>11, <2>2
  <2>3. QED
    BY <2>1, <2>2
<1>18. Signing'
  BY <1>1, <1>7, <1>8, <1>17 DEF Signing, Issued
<1>19. Followed'
  BY <1>1, <1>3, <1>8, <1>13, <1>14 DEF Followed
<1>20. Matched'
  <2>1. ASSUME NEW n \in DOMAIN operation'[i]
        PROVE  operation'[i][n].status = "confirmed" \/ Untold(i, n)'
    <3>1. n \in DOMAIN s /\ Len(operation'[i]) = Len(s)
      BY <1>10, <1>11
    <3>2. CASE Len(s) > 1
      BY <3>1, <3>2 DEF Untold
    <3>3. CASE Len(s) = 1
      <4>1. Confirmed(s, h)[n].status = "confirmed" \/ Confirmed(s, h)[n].hash \notin {NoHash, h}
        BY <3>1, <3>3, SoleOperation
      <4>2. QED
        BY <1>3, <1>11, <4>1 DEF Untold
    <3>4. PICK k \in Nat : k = Len(s) /\ k # 0
      BY <1>9, EmptySeq
    <3>5. k > 1 \/ k = 1
      BY <3>4
    <3>6. QED
      BY <3>2, <3>3, <3>4, <3>5
  <2>2. ASSUME NEW j \in Invitations, j # i, Reimbursed(applied', j)
        PROVE  /\ payment'[j].status = "paid" \/ Mistaken(j)'
               /\ paidBy'[j] # 0 \/ Mistaken(j)'
               /\ \A n \in DOMAIN operation'[j] :
                    operation'[j][n].status = "confirmed" \/ Untold(j, n)'
    <3>1. /\ payment'[j] = payment[j] /\ paidBy'[j] = paidBy[j] /\ operation'[j] = operation[j]
          /\ Told(applied', j) = Told(applied, j) /\ Reimbursed(applied, j)
      BY <1>3, <1>8, <1>11, <1>13, <2>2
    <3>2. Mistaken(j)' <=> Mistaken(j)
      BY <3>1 DEF Mistaken, Untold
    <3>3. \A n : Untold(j, n)' <=> Untold(j, n)
      BY <3>1 DEF Untold
    <3>4. QED
      BY <1>1, <3>1, <3>2, <3>3 DEF Matched
  <2>3. QED
    BY <1>8, <1>13, <2>1, <2>2 DEF Matched
<1>21. Requesting'
  BY <1>1, <1>7 DEF Requesting
<1>22. QED
  BY <1>2, <1>7, <1>8, <1>15, <1>16, <1>17, <1>18, <1>19, <1>20, <1>21, FeedAgreed

\* A revoked key was never paid with, and the last one revokes the split.
LEMMA PaymentRevokedAgreed ==
  ASSUME Agreed, NEW i \in Invitations, NEW n \in DOMAIN revocation[i], SplitPaymentRevoked(i, n)
  PROVE  Agreed'
<1> DEFINE call == <<"revoke", i, n>>
           after == [payment EXCEPT ![i].status = "revoked"]
           over == Remaining(after) = {}
<1>1. RowTypes /\ Booked /\ Signing /\ Followed /\ Matched /\ Requesting
  BY RowShape DEF Agreed
<1>2. NextIs(call) /\ call[1] = "revoke" /\ call[2] = i
  BY DEF SplitPaymentRevoked
<1>3. /\ ~Reimbursed(applied, i)
      /\ \A j : j # i => Told(applied', j) = Told(applied, j)
      /\ \A j : Reimbursed(applied', j) <=> Reimbursed(applied, j)
      /\ \A j : Revoked(applied', j) <=> Revoked(applied, j) \/ j = i
  <2> HIDE DEF call
  <2>1. QED
    BY <1>2, NextFacts
<1>4. split.confirmed \in 0..TotalBaseUnits
  BY <1>1 DEF RowTypes
<1>5. payment[i].status # "paid"
  BY <1>1, <1>3 DEF Followed
<1>6. /\ payment' = after
      /\ invitation' = [j \in Invitations |->
           IF j = i \/ (over /\ invitation[j] # "paid") THEN "revoked" ELSE invitation[j]]
      /\ split' = IF over /\ split.confirmed = 0
                  THEN [split EXCEPT !.status = "revoked", !.revokedAt = TRUE] ELSE split
      /\ revocation' = [revocation EXCEPT ![i] = Confirmed(revocation[i], n)]
      /\ refused' = refused
      /\ UNCHANGED <<chain, faults, tab, held, request, operation, paidBy>>
  BY <1>5 DEF SplitPaymentRevoked, people
<1>7. /\ payment' \in [Invitations -> PaymentType] /\ payment'[i].status = "revoked"
      /\ \A j \in Invitations : payment'[j].digest = payment[j].digest /\ (j # i => payment'[j] = payment[j])
  <2>1. payment \in [Invitations -> PaymentType] /\ "revoked" \in Statuses
    BY <1>1 DEF RowTypes, Statuses
  <2>2. QED
    BY <1>6, <2>1, StatusChanged
<1>8. over => \A j \in Invitations : payment'[j].status \in {"none", "paid", "revoked"}
  <2>1. over => \A j \in Invitations : payment'[j].status \notin
          {"unpaid", "submission_started", "submitted_unknown", "confirming"}
    BY <1>6 DEF Remaining
  <2>2. \A j \in Invitations : payment'[j].status \in Statuses
    BY <1>7 DEF PaymentType
  <2>3. QED
    BY <2>1, <2>2 DEF Statuses
<1> HIDE DEF call, over, after
<1>9. invitation' \in [Invitations -> Statuses \ {"none"}]
  BY <1>1, <1>6 DEF RowTypes, Statuses
<1>10. /\ split' \in [status: {"active", "revoking", "revoked", "partially_paid", "complete"},
                      confirmed: 0..TotalBaseUnits, revokedAt: BOOLEAN]
       /\ split'.confirmed = split.confirmed
       /\ split' = split \/ (over /\ split.confirmed = 0 /\ split'.status = "revoked")
  BY <1>1, <1>6 DEF RowTypes
<1>11. /\ Confirmed(revocation[i], n) \in Seq(RevocationType)
       /\ Len(Confirmed(revocation[i], n)) = Len(revocation[i])
  <2>1. PICK s \in Seq(RevocationType) : s = revocation[i] /\ DOMAIN s = 1..Len(s)
    BY <1>1, LenProperties DEF RowTypes
  <2>2. PICK k \in 1..MaxRevocations : k = n
    <3>1. Len(revocation[i]) <= MaxRevocations /\ n \in 1..Len(revocation[i])
      BY <1>1, <2>1 DEF Requesting
    <3>2. QED
      BY <3>1, OtherAssumption, LenProperties, <2>1
  <2>3. \A y \in RevocationType : [y EXCEPT !.status = "confirmed", !.hash = k] \in RevocationType
    BY DEF RevocationType
  <2>4. Confirmed(s, k) \in Seq(RevocationType) /\ Len(Confirmed(s, k)) = Len(s)
    BY <2>3, ConfirmedShape
  <2>5. QED
    BY <2>1, <2>2, <2>4
<1>12. /\ revocation' \in [Invitations -> Seq(RevocationType)]
       /\ \A j \in Invitations : Len(revocation'[j]) = Len(revocation[j])
  BY <1>1, <1>6, <1>11 DEF RowTypes
<1>13. RowTypes'
  BY <1>1, <1>6, <1>7, <1>9, <1>10, <1>12 DEF RowTypes
<1>14. Booked'
  <2>1. Counted' = Counted /\ \A j \in Counted : paidBy'[j] = Amount[j] /\ Reimbursed(applied', j)
    BY <1>1, <1>3, <1>6 DEF Booked, Counted
  <2>2. CASE split' = split
    BY <1>1, <2>1, <2>2 DEF Booked
  <2>3. CASE split.confirmed = 0 /\ split'.status = "revoked"
    BY <1>1, <1>10, <2>1, <2>3, WholeAmount DEF Booked
  <2>4. QED
    BY <1>10, <2>2, <2>3
<1>15. Signing'
  BY <1>1, <1>6, <1>7 DEF Signing, Issued
<1>16. Followed'
  <2>1. \A j \in Invitations :
          /\ payment'[j].status = "paid" => Reimbursed(applied', j) /\ paidBy'[j] # 0
          /\ payment'[j].status = "revoked" => Revoked(applied', j)
    BY <1>1, <1>3, <1>6, <1>7 DEF Followed
  <2>2. ASSUME NEW j \in Invitations, split'.status = "revoked", payment'[j].status # "none"
        PROVE  Revoked(applied', j)
    <3>1. CASE split' = split
      BY <1>1, <1>3, <1>7, <2>2, <3>1 DEF Followed, Issued
    <3>2. CASE over /\ split.confirmed = 0
      <4>1. PICK S \in SUBSET Invitations : S = Counted
        BY DEF Counted
      <4>2. AmountOf(S) = 0
        BY <1>1, <3>2, <4>1 DEF Booked
      <4>3. paidBy[j] = 0
        BY <4>1, <4>2, NothingOf DEF Counted
      <4>4. payment'[j].status = "revoked"
        BY <1>6, <1>8, <2>1, <2>2, <3>2, <4>3
      <4>5. QED
        BY <2>1, <4>4
    <3>3. QED
      BY <1>10, <3>1, <3>2
  <2>3. QED
    BY <2>1, <2>2 DEF Followed, Issued
<1>19. Matched'
  <2>1. ASSUME NEW j \in Invitations, Reimbursed(applied', j)
        PROVE  /\ payment'[j].status = "paid" \/ Mistaken(j)'
               /\ paidBy'[j] # 0 \/ Mistaken(j)'
               /\ \A m \in DOMAIN operation'[j] :
                    operation'[j][m].status = "confirmed" \/ Untold(j, m)'
    <3>1. /\ payment'[j] = payment[j] /\ paidBy'[j] = paidBy[j] /\ operation'[j] = operation[j]
          /\ Told(applied', j) = Told(applied, j) /\ Reimbursed(applied, j)
      BY <1>3, <1>6, <1>7, <2>1
    <3>2. Mistaken(j)' <=> Mistaken(j)
      BY <3>1 DEF Mistaken, Untold
    <3>3. \A m : Untold(j, m)' <=> Untold(j, m)
      BY <3>1 DEF Untold
    <3>4. QED
      BY <1>1, <3>1, <3>2, <3>3 DEF Matched
  <2>2. QED
    BY <2>1 DEF Matched
<1>17. Requesting'
  BY <1>1, <1>6, <1>12 DEF Requesting
<1>18. QED
  BY <1>2, <1>6, <1>7, <1>13, <1>14, <1>15, <1>16, <1>17, <1>19, FeedAgreed


-----------------------------------------------------------------------------
(* The rewind                                                              *)

\* Confirmed operations whose event is gone.
LEMMA OrphanedShape ==
  ASSUME NEW T, NEW s \in Seq(T), NEW i, NEW name, NEW t, t = Orphaned(s, i, name),
         \A y \in T : [y EXCEPT !.status = "orphaned"] \in T
  PROVE  t \in Seq(T) /\ Len(t) = Len(s)
<1>1. DOMAIN s = 1..Len(s) /\ Len(s) \in Nat /\ \A n \in 1..Len(s) : s[n] \in T
  BY LenProperties, ElementOfSeq
<1>2. PICK f \in [1..Len(s) -> T] : f = t
  BY <1>1 DEF Orphaned
<1>3. f \in Seq(T) /\ Len(f) = Len(s)
  <2>1. PICK k \in Nat : k = Len(s) /\ f \in [1..k -> T]
    BY <1>1
  <2>2. f \in Seq(T)
    BY <2>1, SeqDef
  <2>3. PICK m \in Nat : m = Len(f) /\ 1..m = 1..k
    BY <2>1, <2>2, LenProperties
  <2>4. m = k
    BY <2>3, SameRange
  <2>5. QED
    BY <2>1, <2>2, <2>3, <2>4
<1>4. QED
  BY <1>2, <1>3

\* A payment key is used by one call: when that is gone, nothing of it is kept.
LEMMA RewindFacts ==
  ASSUME Agreed
  PROVE  /\ Kept \in Seq(Calls0) /\ Len(Kept) = agreed /\ KeysOnce(Kept) /\ Called(Kept)
         /\ SubSeq(Kept, 1, agreed) = SubSeq(chain, 1, agreed)
         /\ \A i \in Invitations :
              IF GoneFor(i) # {} THEN ~Reimbursed(Kept, i) /\ ~Revoked(Kept, i)
              ELSE /\ Reimbursed(Kept, i) <=> Reimbursed(applied, i)
                   /\ Revoked(Kept, i) <=> Revoked(applied, i)
                   /\ Told(Kept, i) = Told(applied, i)
<1>1. /\ chain \in Seq(Calls0) /\ applied \in Seq(Calls0) /\ KeysOnce(applied) /\ Called(applied)
      /\ agreed \in 0..Len(applied) /\ agreed \in Nat /\ Len(applied) \in Nat
      /\ SubSeq(applied, 1, agreed) = SubSeq(chain, 1, agreed)
  BY Shape DEF Agreed, Keys
<1>2. /\ Kept \in Seq(Calls0) /\ Len(Kept) = agreed /\ KeysOnce(Kept)
      /\ DOMAIN Kept = 1..agreed /\ DOMAIN applied = 1..Len(applied)
      /\ \A n \in 1..agreed : Kept[n] = applied[n] /\ n \in DOMAIN applied
  BY <1>1, Cut DEF Kept
<1>3. Called(Kept)
  BY <1>1, <1>2 DEF Called
<1>4. SubSeq(Kept, 1, agreed) = SubSeq(chain, 1, agreed)
  <2>1. SubSeq(Kept, 1, agreed) = Kept
    BY <1>2, SubSeqFull
  <2>2. QED
    BY <1>1, <2>1 DEF Kept
<1>5. ASSUME NEW i \in Invitations, GoneFor(i) # {}
      PROVE  ~Reimbursed(Kept, i) /\ ~Revoked(Kept, i)
  <2>1. PICK m \in (agreed + 1)..Len(applied) : applied[m][2] = i
    BY <1>5 DEF GoneFor, Gone
  <2>2. m \in DOMAIN applied /\ \A n \in 1..agreed : n # m
    BY <1>1, <1>2, <2>1
  <2>3. \A n \in 1..agreed : Kept[n][2] # i
    BY <1>1, <1>2, <2>1, <2>2 DEF KeysOnce
  <2>4. QED
    BY <1>2, <2>3 DEF Reimbursed, Revoked, Calls
<1>6. ASSUME NEW i \in Invitations, GoneFor(i) = {}
      PROVE  /\ Reimbursed(Kept, i) <=> Reimbursed(applied, i)
             /\ Revoked(Kept, i) <=> Revoked(applied, i)
             /\ Told(Kept, i) = Told(applied, i)
  <2>1. \A n \in (agreed + 1)..Len(applied) : applied[n][2] # i
    BY <1>6 DEF GoneFor, Gone
  <2>2. \A n \in 1..Len(applied) : n \in 1..agreed \/ n \in (agreed + 1)..Len(applied)
    BY <1>1
  <2>3. \A n \in DOMAIN applied : applied[n][2] = i => n \in DOMAIN Kept
    BY <1>2, <2>1, <2>2
  <2>4. Calls(Kept, "reimburse", i) = Calls(applied, "reimburse", i)
    BY <1>2, <2>3 DEF Calls
  <2>5. Calls(Kept, "revoke", i) = Calls(applied, "revoke", i)
    BY <1>2, <2>3 DEF Calls
  <2>6. \A m \in Calls(Kept, "reimburse", i) : Kept[m] = applied[m]
    BY <1>2 DEF Calls
  <2>7. QED
    BY <2>4, <2>5, <2>6 DEF Reimbursed, Revoked, Told
<1>7. QED
  BY <1>2, <1>3, <1>4, <1>5, <1>6

\* What the two updates of splits compute from the payments p.
LEMMA Rebuilt ==
  ASSUME Agreed, NEW p \in [Invitations -> PaymentType], NEW o
  PROVE  /\ RebuiltSplit(p, o) \in
              [status: {"active", "revoking", "revoked", "partially_paid", "complete"},
               confirmed: 0..TotalBaseUnits, revokedAt: BOOLEAN]
         /\ RebuiltSplit(p, o).confirmed = PaidAmount(p)
         /\ RebuiltSplit(p, o).status = "complete" <=> PaidAmount(p) = TotalBaseUnits
         /\ RebuiltSplit(p, o).status \in {"revoking", "revoked", "active"} => PaidAmount(p) = 0
         /\ RebuiltSplit(p, o).status = "revoked" =>
              \A i \in Invitations : p[i].status \in {"none", "revoked"}
<1> DEFINE paid == PaidAmount(p)
           issued == {i \in Invitations : p[i].status # "none"}
           allGone == issued # {} /\ \A i \in issued : p[i].status = "revoked"
           underway == \E i \in issued : \E n \in DOMAIN o[i] : o[i][n].status \in Unfinished
           at == IF issued = {} THEN split.revokedAt ELSE allGone /\ paid = 0
           status == IF paid = 0 /\ allGone THEN "revoked"
                     ELSE IF paid = 0 /\ underway THEN "revoking"
                     ELSE IF split.revokedAt /\ issued = {} THEN "revoked"
                     ELSE IF paid = 0 THEN "active"
                     ELSE IF paid = TotalBaseUnits THEN "complete" ELSE "partially_paid"
<1>1. RebuiltSplit(p, o) = [confirmed |-> paid, revokedAt |-> at, status |-> status]
  BY DEF RebuiltSplit
<1>2. paid \in 0..TotalBaseUnits /\ 0 # TotalBaseUnits
  <2>1. PICK S \in SUBSET Invitations : S = {i \in Invitations : p[i].status = "paid"}
    OBVIOUS
  <2>2. AmountOf(S) \in 0..TotalBaseUnits
    BY AmountOfType
  <2>3. QED
    BY <2>1, <2>2, WholeAmount DEF PaidAmount
<1>3. issued = {} => paid = 0
  <2>1. issued = {} => {i \in Invitations : p[i].status = "paid"} = {}
    OBVIOUS
  <2>2. QED
    BY <2>1, AmountOfNone DEF PaidAmount
<1>4. split.revokedAt \in BOOLEAN
  BY RowShape DEF RowTypes
<1>5. allGone \/ issued = {} => \A i \in Invitations : p[i].status \in {"none", "revoked"}
  OBVIOUS
<1>6. allGone \in BOOLEAN /\ underway \in BOOLEAN
  OBVIOUS
<1>12. paid = PaidAmount(p)
  OBVIOUS
<1> HIDE DEF paid, issued, allGone, underway
<1>7. at \in BOOLEAN
  BY <1>4, <1>6
<1>8. /\ status \in {"active", "revoking", "revoked", "partially_paid", "complete"}
      /\ status = "complete" <=> paid = TotalBaseUnits
      /\ status \in {"revoking", "revoked", "active"} => paid = 0
      /\ status = "revoked" => allGone \/ issued = {}
  BY <1>2, <1>3, <1>4, <1>6
<1> HIDE DEF at, status
<1>9. RebuiltSplit(p, o) \in
        [status: {"active", "revoking", "revoked", "partially_paid", "complete"},
         confirmed: 0..TotalBaseUnits, revokedAt: BOOLEAN]
  BY <1>1, <1>2, <1>7, <1>8
<1>10. RebuiltSplit(p, o).confirmed = paid /\ RebuiltSplit(p, o).status = status
  BY <1>1
<1>11. QED
  BY <1>5, <1>8, <1>9, <1>10, <1>12

\* A payment whose event is gone is no longer paid; what is left of the operations and
\* their hashes is what it was.
LEMMA RewindAgreed ==
  ASSUME Agreed, Rewind
  PROVE  Agreed'
<1> DEFINE p == [i \in Invitations |-> Unpaid(i)]
           o == [i \in Invitations |-> Orphaned(revocation[i], i, "revoke")]
<1>1. RowTypes /\ Booked /\ Signing /\ Followed /\ Matched /\ Requesting /\ refused = {}
  BY RowShape DEF Agreed
<1>2. RewindTo(p, o) /\ faults' \in 0..MaxFaults
  BY RowShape DEF Rewind, Fault, NoFault
<1>3. p \in [Invitations -> PaymentType]
  <2>1. \A y \in PaymentType : [y EXCEPT !.status = "confirming"] \in PaymentType
    BY DEF PaymentType, Statuses
  <2>2. ASSUME NEW i \in Invitations PROVE Unpaid(i) \in PaymentType
    <3>1. payment[i] \in PaymentType
      BY <1>1 DEF RowTypes
    <3>2. QED
      BY <2>1, <3>1 DEF Unpaid
  <2>3. QED
    BY <2>2
<1>4. ASSUME NEW i \in Invitations
      PROVE  /\ p[i].digest = payment[i].digest
             /\ GoneFor(i) # {} => p[i].status = "confirming"
             /\ GoneFor(i) = {} => p[i] = payment[i]
  BY <1>1 DEF RowTypes, PaymentType, Unpaid
<1>5. ASSUME NEW i \in Invitations
      PROVE  o[i] \in Seq(RevocationType) /\ Len(o[i]) = Len(revocation[i])
  <2>1. PICK s \in Seq(RevocationType) : s = revocation[i]
    BY <1>1 DEF RowTypes
  <2>2. \A y \in RevocationType : [y EXCEPT !.status = "orphaned"] \in RevocationType
    BY DEF RevocationType, Unfinished
  <2>3. PICK t : t = Orphaned(s, i, "revoke")
    OBVIOUS
  <2>4. t \in Seq(RevocationType) /\ Len(t) = Len(s)
    BY <2>2, <2>3, OrphanedShape
  <2>5. QED
    BY <2>1, <2>3, <2>4
<1>6. o \in [Invitations -> Seq(RevocationType)]
  BY <1>5
<1> HIDE DEF p, o
<1>7. /\ applied' = Kept /\ refused' = {} /\ payment' = p /\ revocation' = o
      /\ invitation' = [i \in Invitations |-> IF GoneFor(i) # {} THEN "confirming" ELSE invitation[i]]
      /\ operation' = [i \in Invitations |-> Orphaned(operation[i], i, "reimburse")]
      /\ paidBy' = [i \in Invitations |-> IF p[i].status = "paid" THEN Amount[i] ELSE 0]
      /\ split' = RebuiltSplit(p, o)
      /\ UNCHANGED <<chain, agreed, tab, held, request>>
  BY <1>1, <1>2 DEF RewindTo, people
<1>8. /\ Kept \in Seq(Calls0) /\ Len(Kept) = agreed /\ KeysOnce(Kept) /\ Called(Kept)
      /\ SubSeq(Kept, 1, agreed) = SubSeq(chain, 1, agreed)
  BY RewindFacts
<1>9. ASSUME NEW i \in Invitations
      PROVE  /\ p[i].status = "paid" => Reimbursed(Kept, i)
             /\ p[i].status = "revoked" => Revoked(Kept, i)
             /\ Reimbursed(Kept, i) =>
                  GoneFor(i) = {} /\ Reimbursed(applied, i) /\ Told(Kept, i) = Told(applied, i)
  <2>1. CASE GoneFor(i) # {}
    BY <1>4, <2>1, RewindFacts
  <2>2. CASE GoneFor(i) = {}
    BY <1>1, <1>4, <2>2, RewindFacts DEF Followed
  <2>3. QED
    BY <2>1, <2>2
<1>10. /\ split' \in [status: {"active", "revoking", "revoked", "partially_paid", "complete"},
                      confirmed: 0..TotalBaseUnits, revokedAt: BOOLEAN]
       /\ split'.confirmed = PaidAmount(p)
       /\ split'.status = "complete" <=> PaidAmount(p) = TotalBaseUnits
       /\ split'.status \in {"revoking", "revoked", "active"} => PaidAmount(p) = 0
       /\ split'.status = "revoked" => \A i \in Invitations : p[i].status \in {"none", "revoked"}
  BY <1>3, <1>7, Rebuilt
<1>11. ASSUME NEW i \in Invitations
       PROVE  /\ operation'[i] \in Seq(OperationType) /\ Len(operation'[i]) = Len(operation[i])
              /\ DOMAIN operation'[i] = DOMAIN operation[i]
              /\ operation[i] # <<>> => operation'[i] # <<>>
              /\ \A n \in DOMAIN operation[i] : operation'[i][n].digest = operation[i][n].digest
              /\ GoneFor(i) = {} =>
                   \A n \in DOMAIN operation[i] : operation'[i][n] = operation[i][n]
  <2>1. PICK s \in Seq(OperationType) : s = operation[i]
    BY <1>1 DEF RowTypes
  <2>2. PICK t : t = Orphaned(s, i, "reimburse") /\ t = operation'[i]
    BY <1>7, <2>1
  <2>3. \A y \in OperationType : [y EXCEPT !.status = "orphaned"] \in OperationType
    BY DEF OperationType, Unfinished
  <2>4. t \in Seq(OperationType) /\ Len(t) = Len(s)
    BY <2>2, <2>3, OrphanedShape
  <2>5. /\ DOMAIN t = DOMAIN s
        /\ \A n \in DOMAIN s : t[n] \in {s[n], [s[n] EXCEPT !.status = "orphaned"]}
        /\ GoneFor(i) = {} => \A n \in DOMAIN s : t[n] = s[n]
    BY <2>2 DEF Orphaned
  <2>6. ASSUME NEW n \in DOMAIN s PROVE t[n].digest = s[n].digest
    <3>1. PICK c \in OperationType : c = s[n]
      BY LenProperties, ElementOfSeq
    <3>2. [c EXCEPT !.status = "orphaned"].digest = c.digest
      BY DEF OperationType
    <3>3. QED
      BY <2>5, <3>1, <3>2
  <2>7. s # <<>> => t # <<>>
    BY <2>2, <2>4, EmptySeq
  <2>8. QED
    BY <2>1, <2>2, <2>4, <2>5, <2>6, <2>7
<1>12. operation' \in [Invitations -> Seq(OperationType)]
  <2>1. PICK g : g = operation' /\ g = [i \in Invitations |-> Orphaned(operation[i], i, "reimburse")]
    BY <1>7
  <2>2. \A i \in Invitations : g[i] \in Seq(OperationType)
    BY <1>11, <2>1
  <2>3. QED
    BY <2>1, <2>2
<1>13. invitation' \in [Invitations -> Statuses \ {"none"}]
  BY <1>1, <1>7 DEF RowTypes, Statuses
<1>14. /\ paidBy' \in [Invitations -> Nat]
       /\ \A i \in Invitations : paidBy'[i] # 0 <=> p[i].status = "paid"
       /\ \A i \in Invitations : paidBy'[i] # 0 => paidBy'[i] = Amount[i]
  BY <1>7, AmountAssumption
<1>15. RowTypes'
  BY <1>1, <1>3, <1>6, <1>7, <1>10, <1>12, <1>13, <1>14 DEF RowTypes
<1>16. TypeOK'
  <2>1. agreed \in 0..Len(Kept) /\ agreed <= Len(chain) /\ chain \in Seq(Calls0)
    BY <1>8, Shape
  <2>2. QED
    BY <1>2, <1>7, <1>8, <1>15, <2>1
       DEF TypeOK, RowTypes, PaymentType, OperationType, RevocationType, RequestType
<1>17. Booked'
  <2>1. Counted' = {i \in Invitations : p[i].status = "paid"}
    BY <1>14 DEF Counted
  <2>2. \A i \in Counted' : paidBy'[i] = Amount[i] /\ Reimbursed(applied', i)
    BY <1>7, <1>9, <1>14, <2>1
  <2>3. split'.confirmed = AmountOf(Counted')
    BY <1>10, <2>1 DEF PaidAmount
  <2>4. QED
    BY <1>10, <2>2, <2>3 DEF Booked
<1>18. Keys'
  <2>1. \A i \in Invitations : payment'[i].digest = payment[i].digest
    BY <1>4, <1>7
  <2>2. chain \in Seq(Calls0) /\ Called(chain) /\ KeysOnce(chain)
    BY Shape DEF Agreed, Keys
  <2>3. ASSUME NEW s \in Seq(Calls0), Called(s)
        PROVE  \A n \in DOMAIN s : s[n][1] = "reimburse" =>
                 s[n][4] = payment'[s[n][2]].digest /\ operation'[s[n][2]] # <<>>
    BY <1>11, <2>1, <2>3, CalledKept
  <2>4. Called(chain)' /\ Called(applied)'
    <3>1. PICK s \in Seq(Calls0) : s = chain /\ Called(s)
      BY <2>2
    <3>2. PICK k \in Seq(Calls0) : k = Kept /\ Called(k)
      BY <1>8
    <3>3. chain' = s /\ applied' = k
      BY <1>7, <3>1, <3>2
    <3>4. Called(chain)'
      BY <2>3, <3>1, <3>3 DEF Called
    <3>5. Called(applied)'
      BY <2>3, <3>2, <3>3 DEF Called
    <3>6. QED
      BY <3>4, <3>5
  <2>5. QED
    BY <1>7, <1>8, <2>2, <2>4 DEF Keys, KeysOnce
<1>19. Signing'
  <2>1. ASSUME NEW i \in Invitations
        PROVE  /\ tab'[i] # "idle" \/ payment'[i].digest # NoDigest => payment'[i].status # "none"
               /\ tab'[i] = "recorded" => payment'[i].digest # NoDigest
               /\ held'[i] \subseteq DOMAIN operation'[i]
               /\ \A n \in DOMAIN operation'[i] : operation'[i][n].digest = payment'[i].digest
    <3>1. payment'[i] = p[i] /\ tab'[i] = tab[i] /\ held'[i] = held[i]
      BY <1>7
    <3>2. /\ payment'[i].digest = payment[i].digest
          /\ payment[i].status # "none" => payment'[i].status # "none"
      BY <1>4, <3>1
    <3>3. /\ tab[i] # "idle" \/ payment[i].digest # NoDigest => payment[i].status # "none"
          /\ tab[i] = "recorded" => payment[i].digest # NoDigest
          /\ held[i] \subseteq DOMAIN operation[i]
          /\ \A n \in DOMAIN operation[i] : operation[i][n].digest = payment[i].digest
      BY <1>1 DEF Signing, Issued
    <3>4. held'[i] \subseteq DOMAIN operation'[i]
      BY <1>11, <3>1, <3>3
    <3>5. \A n \in DOMAIN operation'[i] : operation'[i][n].digest = payment'[i].digest
      BY <1>11, <3>2, <3>3
    <3>6. QED
      BY <3>1, <3>2, <3>3, <3>4, <3>5
  <2>2. QED
    BY <2>1 DEF Signing, Issued
<1>20. Followed'
  <2>1. ASSUME NEW i \in Invitations
        PROVE  /\ payment'[i].status = "paid" => Reimbursed(applied', i) /\ paidBy'[i] # 0
               /\ payment'[i].status = "revoked" => Revoked(applied', i)
               /\ split'.status = "revoked" /\ payment'[i].status # "none" => Revoked(applied', i)
    <3>1. payment'[i] = p[i] /\ applied' = Kept
      BY <1>7
    <3>2. /\ p[i].status = "paid" => Reimbursed(Kept, i) /\ paidBy'[i] # 0
          /\ p[i].status = "revoked" => Revoked(Kept, i)
      BY <1>9, <1>14
    <3>3. split'.status = "revoked" => p[i].status \in {"none", "revoked"}
      BY <1>10
    <3>4. QED
      BY <3>1, <3>2, <3>3
  <2>2. QED
    BY <2>1 DEF Followed, Issued
<1>21. Matched'
  <2>1. ASSUME NEW i \in Invitations, Reimbursed(Kept, i)
        PROVE  /\ payment'[i].status = "paid" \/ Mistaken(i)'
               /\ paidBy'[i] # 0 \/ Mistaken(i)'
               /\ \A n \in DOMAIN operation'[i] :
                    operation'[i][n].status = "confirmed" \/ Untold(i, n)'
    <3>1. /\ GoneFor(i) = {} /\ Reimbursed(applied, i) /\ Told(applied', i) = Told(applied, i)
          /\ payment'[i] = payment[i] /\ paidBy'[i] # 0 <=> payment[i].status = "paid"
      BY <1>4, <1>7, <1>9, <1>14, <2>1
    <3>2. /\ Len(operation'[i]) = Len(operation[i]) /\ DOMAIN operation'[i] = DOMAIN operation[i]
          /\ \A n \in DOMAIN operation[i] : operation'[i][n] = operation[i][n]
      BY <1>11, <3>1
    <3>3. \A n \in DOMAIN operation[i] : Untold(i, n)' <=> Untold(i, n)
      BY <3>1, <3>2 DEF Untold
    <3>4. Mistaken(i) => Mistaken(i)'
      BY <3>2, <3>3 DEF Mistaken
    <3>5. /\ payment[i].status = "paid" \/ Mistaken(i)
          /\ \A n \in DOMAIN operation[i] : operation[i][n].status = "confirmed" \/ Untold(i, n)
      BY <1>1, <3>1 DEF Matched
    <3>6. QED
      BY <3>1, <3>2, <3>3, <3>4, <3>5
  <2>2. QED
    BY <1>7, <2>1 DEF Matched
<1>22. Requesting'
  BY <1>1, <1>5, <1>7 DEF Requesting
<1>23. QED
  BY <1>7, <1>16, <1>17, <1>18, <1>19, <1>20, <1>21, <1>22 DEF Agreed

-----------------------------------------------------------------------------
(* The theorems                                                            *)

LEMMA IndexersAgreed ==
  ASSUME Agreed, IndexerNext
  PROVE  Agreed'
BY ReimbursedAgreed, PaymentRevokedAgreed, RewindAgreed DEF IndexerNext

LEMMA AgreedStep == Agreed /\ [Next]_vars => Agreed'
<1> SUFFICES ASSUME Agreed, [Next]_vars PROVE Agreed'
  OBVIOUS
<1>1. CASE Next
  BY <1>1, ContractAgreed, ParticipantsAgreed, CreatorsAgreed, IndexersAgreed DEF Next
<1>2. CASE UNCHANGED vars
  <2>1. /\ UNCHANGED <<chain, agreed, applied, refused, faults>>
        /\ UNCHANGED <<tab, held, request>>
        /\ UNCHANGED <<split, invitation, payment, operation, paidBy, revocation>>
    BY <1>2 DEF vars, feed, people, rows
  <2>2. TypeOK'
    BY <2>1 DEF Agreed, TypeOK
  <2>3. Booked' /\ refused' = {}
    BY <2>1 DEF Agreed, Booked, Counted
  <2>4. Keys'
    BY <2>1 DEF Agreed, Keys, KeysOnce, Called
  <2>5. Signing'
    BY <2>1 DEF Agreed, Signing, Issued
  <2>6. Followed'
    BY <2>1 DEF Agreed, Followed, Issued
  <2>7. Requesting'
    BY <2>1 DEF Agreed, Requesting
  <2>8. Matched'
    BY <2>1, MatchedKept
  <2>9. QED
    BY <2>2, <2>3, <2>4, <2>5, <2>6, <2>7, <2>8 DEF Agreed
<1>3. QED
  BY <1>1, <1>2

LEMMA AgreedHolds == Spec => []Agreed
BY InitAgreed, AgreedStep, PTL DEF Spec

\* Whatever was registered, revoked, rewound or sent twice: the confirmed amount of a
\* split (#splitReimbursed, #splitPaymentRevoked, the rewind in indexer-store.ts) never
\* counts a payment the projected events do not hold, and leaves one out only when an
\* operation of it was registered that #confirmContractOperation could not match with
\* its event: there are several, or it has the hash of another transaction.
THEOREM ConfirmedHistory == Spec => []ConfirmedIsHistory
<1>1. ASSUME Agreed PROVE ConfirmedIsHistory
  <2>1. ASSUME NEW i \in Invitations
        PROVE  \/ paidBy[i] = IF Reimbursed(applied, i) THEN Amount[i] ELSE 0
               \/ paidBy[i] = 0 /\ Mistaken(i)
    <3>1. CASE paidBy[i] # 0
      BY <1>1, <3>1 DEF Agreed, Booked, Counted
    <3>2. CASE paidBy[i] = 0
      BY <1>1, <3>2 DEF Agreed, Matched
    <3>3. QED
      BY <3>1, <3>2
  <2>2. QED
    BY <1>1, <2>1 DEF Agreed, Booked, Counted, ConfirmedIsHistory
<1>2. QED
  BY <1>1, AgreedHolds, PTL

\* The projector never quarantines an event of OpenTabSplitReimbursement: each
\* reimbursement carries the digest recordSplitIntent stored, and a key pays or is
\* revoked once.
THEOREM NothingEverRefused == Spec => []NothingRefused
<1>1. Agreed => NothingRefused
  BY DEF Agreed, NothingRefused
<1>2. QED
  BY <1>1, AgreedHolds, PTL

LEMMA RevokedStep ==
  ASSUME Agreed, [Next]_vars, split.status = "revoked", agreed = Len(applied),
         NEW i \in Invitations, Reimbursed(chain', i)
  PROVE  Reimbursed(chain, i)
<1>1. /\ chain \in Seq(Calls0) /\ applied \in Seq(Calls0) /\ Signing /\ Followed
      /\ agreed \in Nat /\ agreed = Len(applied) /\ agreed <= Len(chain) /\ Len(chain) \in Nat
      /\ SubSeq(applied, 1, agreed) = SubSeq(chain, 1, agreed)
      /\ DOMAIN chain = 1..Len(chain) /\ DOMAIN applied = 1..agreed
  BY Shape, LenProperties DEF Agreed
<1>2. ASSUME NEW call \in Calls0, chain' = Append(chain, call), ~ (call[1] = "reimburse" /\ call[2] = i)
      PROVE  Reimbursed(chain, i)
  <2>1. PICK n \in DOMAIN chain' : chain'[n][1] = "reimburse" /\ chain'[n][2] = i
    BY DEF Reimbursed, Calls
  <2>2. /\ chain' \in Seq(Calls0) /\ Len(chain') = Len(chain) + 1
        /\ chain'[Len(chain) + 1] = call /\ \A k \in 1..Len(chain) : chain'[k] = chain[k]
    BY <1>1, <1>2
  <2>3. DOMAIN chain' = 1..(Len(chain) + 1)
    BY <2>2, LenProperties
  <2>4. n # Len(chain) + 1
    BY <1>2, <2>1, <2>2
  <2>5. n \in 1..Len(chain)
    BY <1>1, <2>1, <2>3, <2>4
  <2>6. QED
    BY <1>1, <2>1, <2>2, <2>5 DEF Reimbursed, Calls
<1>3. ASSUME NEW j \in Invitations, NEW n \in held[j], NEW h \in Hashes, Reimburse(j, n, h)
      PROVE  Reimbursed(chain, i)
  <2>1. n \in DOMAIN operation[j] /\ ~Revoked(chain, j)
    BY <1>1, <1>3 DEF Reimburse, paymentKeyUsed, Signing
  <2>2. Issued(j)
    BY <2>1, OperationSigned DEF Issued
  <2>3. Revoked(applied, j)
    BY <1>1, <2>2 DEF Followed
  <2>4. \A k \in 1..agreed : applied[k] = chain[k] /\ k \in DOMAIN chain
    BY <1>1, CutOfCut
  <2>5. Revoked(chain, j)
    BY <1>1, <2>3, <2>4 DEF Revoked, Calls
  <2>6. QED
    BY <2>1, <2>5
<1>4. ASSUME NEW j \in Invitations, NEW n \in DOMAIN revocation[j], RevokePaymentKey(j, n)
      PROVE  Reimbursed(chain, i)
  <2>1. revocation[j] \in Seq(RevocationType) /\ Len(revocation[j]) <= MaxRevocations
    BY RowShape DEF RowTypes, Agreed, Requesting
  <2>2. n \in 1..MaxRevocations
    BY <2>1, LenProperties, OtherAssumption
  <2>3. PICK call \in Calls0 : call = <<"revoke", j, n>>
    BY <2>2 DEF Calls0
  <2>4. chain' = Append(chain, call) /\ call[1] = "revoke"
    BY <1>4, <2>3 DEF RevokePaymentKey, Mine
  <2>5. QED
    BY <1>2, <2>4
<1>5. CASE Reorganise
  <2>1. PICK n \in 0..(Len(chain) - 1) : chain' = SubSeq(chain, 1, n)
    BY <1>5 DEF Reorganise
  <2>2. n \in 0..Len(chain) /\ \A k \in 1..n : k \in DOMAIN chain
    BY <1>1
  <2>3. PICK k \in 1..n : chain[k][1] = "reimburse" /\ chain[k][2] = i
    BY <1>1, <2>1, <2>2, CallsOfCut
  <2>4. QED
    BY <2>2, <2>3 DEF Reimbursed, Calls
<1>6. CASE chain' = chain
  BY <1>6
<1>7. CASE ContractNext
  BY <1>3, <1>4, <1>5, <1>7 DEF ContractNext
<1>8. CASE ParticipantNext
  <2>1. ASSUME NEW j \in Invitations, PrepareSplitPayment(j) \/ EndRequest(j)
        PROVE  chain' = chain
    BY <2>1 DEF PrepareSplitPayment, EndRequest
  <2>2. ASSUME NEW j \in Invitations, NEW d \in Digests, RecordSplitIntent(j, d)
        PROVE  chain' = chain
    BY <2>2 DEF RecordSplitIntent
  <2>3. ASSUME NEW j \in Invitations, NEW n \in 1..MaxOperations, NEW answered \in BOOLEAN,
               PrepareOperation(j, n, answered)
        PROVE  chain' = chain
    BY <2>3 DEF PrepareOperation
  <2>4. ASSUME NEW j \in Invitations, NEW n \in held[j],
               NEW status \in Reports \cup {"submission_started"}, NEW h \in Hashes \cup {NoHash},
               RegisterOperation(j, n, status, h)
        PROVE  chain' = chain
    BY <2>4 DEF RegisterOperation
  <2>5. ASSUME NEW j \in Invitations, NEW status \in Reports, RegisterSplitPaymentSubmission(j, status)
        PROVE  chain' = chain
    BY <2>5 DEF RegisterSplitPaymentSubmission
  <2>6. QED
    BY <1>6, <1>8, <2>1, <2>2, <2>3, <2>4, <2>5 DEF ParticipantNext
<1>9. CASE CreatorNext
  <2>1. ASSUME NEW r \in Requests, PrepareSplitRevocation(r) \/ LeaveRequest(r) PROVE chain' = chain
    BY <2>1 DEF PrepareSplitRevocation, LeaveRequest
  <2>2. ASSUME NEW r \in Requests, NEW j \in Invitations,
               \/ PrepareRevocation(r, j) \/ FailOverdue(r, j) \/ StartRevocation(r, j)
               \/ SendRevocation(r, j) \/ FailRevocation(r, j)
               \/ \E status \in Reports, h \in {NoHash} \cup 1..MaxRevocations :
                    RecordRevocation(r, j, status, h)
        PROVE  chain' = chain
    <3>1. UNCHANGED onlyRevocation
      BY <2>2 DEF PrepareRevocation, FailOverdue, StartRevocation, SendRevocation, FailRevocation,
                  RecordRevocation
    <3>2. QED
      BY <3>1 DEF onlyRevocation
  <2>3. QED
    BY <1>6, <1>9, <2>1, <2>2 DEF CreatorNext
<1>10. CASE IndexerNext
  <2>1. ASSUME NEW j \in Invitations, NEW h \in Hashes, NEW d \in Digests,
               SplitReimbursed(j, h, d)
        PROVE  chain' = chain
    BY <2>1 DEF SplitReimbursed
  <2>2. ASSUME NEW j \in Invitations, NEW n \in DOMAIN revocation[j], SplitPaymentRevoked(j, n)
        PROVE  chain' = chain
    BY <2>2 DEF SplitPaymentRevoked
  <2>3. ASSUME Rewind PROVE chain' = chain
    BY <2>3 DEF Rewind, RewindTo
  <2>4. QED
    BY <1>6, <1>10, <2>1, <2>2, <2>3 DEF IndexerNext
<1>11. CASE UNCHANGED vars
  BY <1>6, <1>11 DEF vars
<1>12. QED
  BY <1>7, <1>8, <1>9, <1>10, <1>11 DEF Next

\* Once the application shows a split as revoked, and the chain keeps what was
\* projected, no participant can be charged any more: a signature that is out belongs
\* to an issued payment, whose key revokePaymentKey has used up.
THEOREM RevokedIsFinal == Spec => RevokedStopsPayments
<1>1. Agreed /\ [Next]_vars =>
        [split.status = "revoked" /\ agreed = Len(applied) =>
           \A i \in Invitations : Reimbursed(chain', i) => Reimbursed(chain, i)]_vars
  BY RevokedStep
<1>2. QED
  BY <1>1, AgreedHolds, PTL DEF Spec, RevokedStopsPayments
=============================================================================
