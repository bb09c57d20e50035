------------------------------- MODULE Splits -------------------------------
(***************************************************************************)
(* One split of a paid order: the invitations, the signed intents the      *)
(* participants pay with, the revocation by the creator, the contract      *)
(* OpenTabSplitReimbursement, and the projection of its events with the    *)
(* rewind after a reorganisation.                                          *)
(*                                                                         *)
(* An invitation stands for its participant, its payment (at most one) and *)
(* the payment key.  A call of the contract is <<"reimburse", invitation,  *)
(* hash, digest>> or <<"revoke", invitation, operation>>; the operation    *)
(* stands for the hash of its transaction.  It emits one event.  The       *)
(* contract's keys follow from the calls before.  A participant who holds  *)
(* the signature may send the call without registering it first, or after  *)
(* another transaction that was registered.                                *)
(*                                                                         *)
(* Expiry and the pause of the contract only refuse steps that nobody is   *)
(* bound to take, so they have no variable: a refused step is a step not   *)
(* taken.                                                                  *)
(*                                                                         *)
(* revokeSplit takes a lock of the signer after it has read the payments   *)
(* and their operations.  The lock orders the loops of two requests but    *)
(* not their reads, and it may be lost; nothing here counts on it.         *)
(***************************************************************************)
EXTENDS Amounts, Sequences

CONSTANTS
  Invitations,
  Amount,            \* of each invitation; they add up to the total of the split
  Digests,           \* what a signature may cover: the second it is made
  NoDigest,
  Hashes,            \* of the transactions of the participants
  NoHash,
  Reports,           \* how a submission may be reported: "submitted", "submitted_unknown"
  Requests,          \* revocations requested by the creator
  MaxOperations,     \* bound: reimbursement operations of a payment
  MaxRevocations,    \* bound: revocation operations of a payment
  MaxFaults,         \* bound: reorganisations, requests that end early, overlap or fail
  MaxLag             \* bound: calls the chain is ahead of the indexer

ASSUME AmountAssumption ==
  /\ IsFiniteSet(Invitations) /\ Invitations # {}
  /\ Amount \in [Invitations -> Nat \ {0}]
ASSUME OtherAssumption ==
  /\ Reports \subseteq {"submitted", "submitted_unknown"} /\ NoDigest \notin Digests
  /\ NoHash \notin Hashes \cup Nat
  /\ MaxOperations \in Nat /\ MaxRevocations \in Nat /\ MaxFaults \in Nat /\ MaxLag \in Nat

VARIABLES
  chain,             \* the calls of the contract
  agreed, applied,   \* as in Projection: what is projected, and how much of it still holds
  refused,           \* quarantined events
  split,             \* splits
  invitation,        \* split_invitations: status
  payment,           \* split_payments: status and intentDigest
  operation,         \* contract_operations, split_reimbursement: status, digest, hash
  paidBy,            \* split_participants: confirmedBaseUnits
  revocation,        \* contract_operations, split_revocation: status, hash, whether sent
  tab,               \* requests prepareSplitPayment of the participants
  held,              \* the operations, with their signatures, a participant was given
  request,           \* requests revokeSplit
  faults

feed     == <<agreed, applied, refused>>
people   == <<tab, held, request>>
rows     == <<split, invitation, payment, operation, paidBy, revocation>>
vars     == <<chain, feed, people, rows, faults>>

TotalBaseUnits == Total(Amount)
Idle == [at |-> "idle", left |-> {}, on |-> {}, seen |-> [i \in Invitations |-> 0]]

Init ==
  /\ chain = <<>> /\ faults = 0
  /\ agreed = 0 /\ applied = <<>> /\ refused = {}
  /\ split = [status |-> "active", confirmed |-> 0, revokedAt |-> FALSE]
  /\ invitation = [i \in Invitations |-> "unpaid"]
  /\ payment = [i \in Invitations |-> [status |-> "none", digest |-> NoDigest]]
  /\ operation = [i \in Invitations |-> <<>>]
  /\ paidBy = [i \in Invitations |-> 0]
  /\ revocation = [i \in Invitations |-> <<>>]
  /\ tab = [i \in Invitations |-> "idle"]
  /\ held = [i \in Invitations |-> {}]
  /\ request = [r \in Requests |-> Idle]

Fault == faults < MaxFaults /\ faults' = faults + 1
NoFault == UNCHANGED faults

-----------------------------------------------------------------------------
(* The contract.                                                           *)

Calls(s, name, i) == {n \in DOMAIN s : s[n][1] = name /\ s[n][2] = i}
Reimbursed(s, i) == Calls(s, "reimburse", i) # {}
Revoked(s, i)    == Calls(s, "revoke", i) # {}
paymentKeyUsed(i) == Reimbursed(chain, i) \/ Revoked(chain, i)

Mine(call) ==
  /\ Len(chain) < agreed + MaxLag
  /\ chain' = Append(chain, call)
  /\ UNCHANGED <<faults, feed, people, rows>>

Reimburse(i, n, h) ==
  /\ n \in held[i] /\ ~paymentKeyUsed(i)
  /\ Mine(<<"reimburse", i, h, operation[i][n].digest>>)

RevokePaymentKey(i, n) ==
  /\ revocation[i][n].sent /\ ~paymentKeyUsed(i)
  /\ Mine(<<"revoke", i, n>>)

Reorganise ==
  /\ Fault
  /\ \E n \in 0..(Len(chain) - 1) :
       /\ chain' = SubSeq(chain, 1, n)
       /\ agreed' = IF n < agreed THEN n ELSE agreed
  /\ UNCHANGED <<applied, refused, people, rows>>

-----------------------------------------------------------------------------
(* A participant prepares a payment: one transaction that issues the key,  *)
(* a signature, and two more transactions.  The request may end between    *)
(* them and be sent again with its idempotency key; then the first         *)
(* transaction only answers what it did.                                   *)

Issued(i) == payment[i].status # "none"

Payable(i) ==
  /\ invitation[i] = "unpaid" /\ split.status = "active"
  /\ paidBy[i] = 0 /\ split.confirmed + Amount[i] <= TotalBaseUnits

PrepareSplitPayment(i) ==
  /\ tab[i] = "idle" /\ (Issued(i) \/ Payable(i))
  /\ payment' = IF Issued(i) THEN payment ELSE [payment EXCEPT ![i].status = "unpaid"]
  /\ tab' = [tab EXCEPT ![i] = "signing"]
  /\ UNCHANGED <<faults, chain, feed, held, request,
                 split, invitation, operation, paidBy, revocation>>

MayRecord_Replaced(i, d) == TRUE
MayRecord(i, d) == payment[i].digest \in {NoDigest, d}

\* signIntent and recordSplitIntent: the digest of a payment never changes.
RecordSplitIntent(i, d) ==
  /\ tab[i] = "signing"
  /\ IF MayRecord(i, d)
     THEN /\ payment' = [payment EXCEPT ![i].digest = d]
          /\ tab' = [tab EXCEPT ![i] = "recorded"]
     ELSE tab' = [tab EXCEPT ![i] = "idle"] /\ UNCHANGED payment
  /\ UNCHANGED <<faults, chain, feed, held, request,
                 split, invitation, operation, paidBy, revocation>>

\* prepareContractOperation stores an operation, or finds one with the same binding;
\* the answer may be lost on its way to the tab.
PrepareOperation(i, n, answered) ==
  /\ tab[i] = "recorded"
  /\ \/ /\ n = Len(operation[i]) + 1
        /\ operation' = [operation EXCEPT ![i] =
             Append(@, [status |-> "prepared", digest |-> payment[i].digest, hash |-> NoHash])]
     \/ /\ n \in DOMAIN operation[i] /\ operation[i][n].digest = payment[i].digest
        /\ UNCHANGED operation
  /\ IF answered THEN NoFault ELSE Fault
  /\ held' = [held EXCEPT ![i] = IF answered THEN @ \cup {n} ELSE @]
  /\ tab' = [tab EXCEPT ![i] = "idle"]
  /\ UNCHANGED <<chain, feed, request,
                 split, invitation, payment, paidBy, revocation>>

EndRequest(i) ==
  /\ tab[i] # "idle" /\ Fault
  /\ tab' = [tab EXCEPT ![i] = "idle"]
  /\ UNCHANGED <<chain, feed, held, request, rows>>

MayBecome(status) ==
  CASE status = "submission_started" -> {"prepared"}
    [] status = "submitted_unknown" -> {"submission_started"}
    [] status = "submitted" -> {"submission_started", "submitted_unknown"}

AsPayment(status) == IF status = "submitted" THEN "confirming" ELSE status

\* registerContractOperationSubmission looks at the operation only.  It moves the
\* status on, or adds the hash to an operation that has the status already; the
\* hash of an operation never changes.
RegisterOperation(i, n, status, h) ==
  LET current == operation[i][n] IN
  /\ n \in held[i]
  /\ h # NoHash => status # "submission_started" /\ current.hash \in {NoHash, h}
  /\ \/ current.status \in MayBecome(status)
     \/ current.status = status /\ current.hash = NoHash /\ h # NoHash
  /\ operation' = [operation EXCEPT ![i][n] =
       [current EXCEPT !.status = status, !.hash = IF h = NoHash THEN @ ELSE h]]
  /\ payment' = [payment EXCEPT ![i].status = AsPayment(status)]
  /\ invitation' = [invitation EXCEPT ![i] = AsPayment(status)]
  /\ UNCHANGED <<faults, chain, feed, people, split, paidBy, revocation>>

RegisterSplitPaymentSubmission(i, status) ==
  /\ payment[i].status = "submission_started"
  /\ payment' = [payment EXCEPT ![i].status = AsPayment(status)]
  /\ UNCHANGED <<faults, chain, feed, people,
                 split, invitation, operation, paidBy, revocation>>

-----------------------------------------------------------------------------
(* The creator revokes the split.                                          *)

Unfinished == {"prepared", "submission_started", "submitted", "submitted_unknown", "orphaned"}
\* The last operation of a payment that has not failed, or 0.
Latest(i) ==
  LET alive == {n \in DOMAIN revocation[i] : revocation[i][n].status # "failed"}
  IN  IF alive = {} THEN 0 ELSE CHOOSE n \in alive : \A k \in alive : k <= n
ToRevoke(i) ==
  Issued(i) /\ (Latest(i) = 0 \/ revocation[i][Latest(i)].status = "prepared")

SetRequest(r, x) == request' = [request EXCEPT ![r] = x]
SetRevocation(i, n, x) == revocation' = [revocation EXCEPT ![i][n] = x]
Without(r, i) == [request[r] EXCEPT !.at = "looping", !.on = {}, !.left = @ \ {i}, !.seen[i] = 0]
onlyRevocation == <<chain, feed, tab, held, split, invitation, payment, operation, paidBy>>

PrepareSplitRevocation(r) ==
  /\ request[r].at = "idle"
  /\ IF \A q \in Requests : request[q].at = "idle" THEN NoFault ELSE Fault
  /\ split.status \notin {"revoked", "complete"} /\ split.confirmed = 0
  /\ IF \E i \in Invitations : Issued(i)
     THEN /\ split' = [split EXCEPT !.status = "revoking"]
          /\ SetRequest(r, [at |-> "looping", on |-> {},
               left |-> {i \in Invitations : ToRevoke(i)},
               seen |-> [i \in Invitations |-> IF ToRevoke(i) THEN Latest(i) ELSE 0]])
          /\ UNCHANGED invitation
     ELSE /\ split' = [split EXCEPT !.status = "revoked", !.revokedAt = TRUE]
          /\ invitation' = [i \in Invitations |->
               IF invitation[i] = "unpaid" THEN "revoked" ELSE invitation[i]]
          /\ UNCHANGED request
  /\ UNCHANGED <<chain, feed, tab, held, payment, operation, paidBy, revocation>>

\* prepareManagedSplitRevocationOperation
PrepareRevocation(r, i) ==
  /\ request[r].at = "looping" /\ i \in request[r].left /\ request[r].seen[i] = 0
  /\ split.status = "revoking" /\ Len(revocation[i]) < MaxRevocations
  /\ revocation' = [revocation EXCEPT ![i] = Append(@,
       [status |-> "prepared", hash |-> NoHash, sent |-> FALSE])]
  /\ SetRequest(r, [request[r] EXCEPT !.at = "starting", !.on = {i},
                                      !.seen[i] = Len(revocation[i]) + 1])
  /\ NoFault /\ UNCHANGED onlyRevocation

\* The operation that was read as prepared is past its time: it is failed.
FailOverdue(r, i) ==
  LET n == request[r].seen[i] IN
  /\ request[r].at = "looping" /\ i \in request[r].left /\ n # 0
  /\ revocation[i][n].status \in {"prepared", "submission_started"}
  /\ SetRevocation(i, n, [revocation[i][n] EXCEPT !.status = "failed"])
  /\ SetRequest(r, [request[r] EXCEPT !.seen[i] = 0])
  /\ NoFault /\ UNCHANGED onlyRevocation

\* startManagedSplitRevocationSubmission returns what it finds when it is not
\* prepared, and the loop goes on with it when that is submission_started.
StartRevocation(r, i) ==
  LET n == request[r].seen[i] IN
  /\ \/ request[r].at = "starting" /\ request[r].on = {i}
     \/ request[r].at = "looping" /\ i \in request[r].left /\ n # 0
  /\ IF revocation[i][n].status \in {"prepared", "submission_started"}
     THEN /\ SetRevocation(i, n, [revocation[i][n] EXCEPT !.status = "submission_started"])
          /\ SetRequest(r, [request[r] EXCEPT !.at = "sending", !.on = {i}])
     ELSE /\ SetRequest(r, Without(r, i))
          /\ UNCHANGED revocation
  /\ NoFault /\ UNCHANGED onlyRevocation

\* The sender broadcasts; what it reports is recorded in a transaction of its own.
SendRevocation(r, i) ==
  LET n == request[r].seen[i] IN
  /\ request[r].at = "sending" /\ request[r].on = {i} /\ ~revocation[i][n].sent
  /\ SetRevocation(i, n, [revocation[i][n] EXCEPT !.sent = TRUE])
  /\ UNCHANGED <<faults, onlyRevocation, request>>

RecordRevocation(r, i, status, h) ==
  LET n == request[r].seen[i] IN
  /\ request[r].at = "sending" /\ request[r].on = {i} /\ revocation[i][n].sent
  /\ revocation[i][n].status = "submission_started"
  /\ h = n \/ (h = NoHash /\ status = "submitted_unknown")
  /\ SetRevocation(i, n, [revocation[i][n] EXCEPT !.status = status, !.hash = h])
  /\ SetRequest(r, Without(r, i))
  /\ NoFault /\ UNCHANGED onlyRevocation

\* The sender fails before it broadcasts.
FailRevocation(r, i) ==
  LET n == request[r].seen[i] IN
  /\ request[r].at = "sending" /\ request[r].on = {i} /\ revocation[i][n].status = "submission_started"
  /\ SetRevocation(i, n, [revocation[i][n] EXCEPT !.status = "failed"])
  /\ SetRequest(r, Idle)
  /\ Fault /\ UNCHANGED onlyRevocation

\* The loop is through, an exception ends it, the lock is lost or the process dies.
LeaveRequest(r) ==
  /\ request[r].at # "idle" /\ SetRequest(r, Idle)
  /\ IF request[r].left = {} THEN NoFault ELSE Fault
  /\ UNCHANGED <<chain, feed, tab, held, rows>>

-----------------------------------------------------------------------------
(* The projector.                                                          *)

NextIs(call) ==
  /\ agreed = Len(applied) /\ agreed < Len(chain) /\ chain[agreed + 1] = call
  /\ applied' = Append(applied, call) /\ agreed' = agreed + 1

Selected_Exact(candidates, h) ==
  LET exact == {n \in DOMAIN candidates :
                  candidates[n].status \in Unfinished /\ candidates[n].hash = h}
  IN  {n \in exact : exact = {n}}
\* selectOperationForCanonicalTransaction: the operation with the hash of the event,
\* or the only one there is when it has none or was orphaned; otherwise no operation.
Selected(candidates, h) ==
  LET open  == {n \in DOMAIN candidates : candidates[n].status \in Unfinished}
      exact == {n \in open : candidates[n].hash = h}
  IN  IF exact # {} THEN {n \in exact : exact = {n}}
      ELSE {n \in open : open = {n}
              /\ (candidates[n].hash = NoHash \/ candidates[n].status = "orphaned")}
Confirmed(candidates, h) ==
  [n \in DOMAIN candidates |->
    IF n \in Selected(candidates, h)
    THEN [candidates[n] EXCEPT !.status = "confirmed", !.hash = h] ELSE candidates[n]]

SplitReimbursed(i, h, d) ==
  LET newConfirmed == split.confirmed + Amount[i]
      matches      == payment[i].digest = d
      known        == payment[i].status = "paid"
      taken        == matches /\ ~known /\ newConfirmed <= TotalBaseUnits
  IN
  /\ NextIs(<<"reimburse", i, h, d>>)
  /\ refused' = IF taken \/ (matches /\ known) THEN refused
                ELSE refused \cup {<<"reimburse", i, h, d>>}
  /\ IF taken
     THEN /\ payment' = [payment EXCEPT ![i].status = "paid"]
          /\ invitation' = [invitation EXCEPT ![i] = "paid"]
          /\ paidBy' = [paidBy EXCEPT ![i] = Amount[i]]
          /\ split' = [split EXCEPT !.confirmed = newConfirmed,
               !.status = IF newConfirmed = TotalBaseUnits THEN "complete" ELSE "partially_paid"]
          /\ operation' = [operation EXCEPT ![i] = Confirmed(@, h)]
     ELSE UNCHANGED <<payment, invitation, paidBy, split, operation>>
  /\ UNCHANGED <<faults, chain, people, revocation>>

Remaining_Unissued(p) == {i \in Invitations : p[i].status \in
  {"submission_started", "submitted_unknown", "confirming"}}
Remaining(p) == {i \in Invitations : p[i].status \in
  {"unpaid", "submission_started", "submitted_unknown", "confirming"}}

SplitPaymentRevoked(i, n) ==
  LET paid == payment[i].status = "paid"
      over == Remaining([payment EXCEPT ![i].status = "revoked"]) = {}
  IN
  /\ NextIs(<<"revoke", i, n>>)
  /\ refused' = IF paid THEN refused \cup {<<"revoke", i, n>>} ELSE refused
  /\ IF paid
     THEN UNCHANGED <<payment, invitation, split, revocation>>
     ELSE /\ payment' = [payment EXCEPT ![i].status = "revoked"]
          /\ invitation' = [j \in Invitations |->
               IF j = i \/ (over /\ invitation[j] # "paid") THEN "revoked" ELSE invitation[j]]
          /\ split' = IF over /\ split.confirmed = 0
                      THEN [split EXCEPT !.status = "revoked", !.revokedAt = TRUE] ELSE split
          /\ revocation' = [revocation EXCEPT ![i] = Confirmed(@, n)]
  /\ UNCHANGED <<faults, chain, people, operation, paidBy>>

-----------------------------------------------------------------------------
(* The rewind.                                                             *)

Kept == SubSeq(applied, 1, agreed)
Gone == {applied[n] : n \in (agreed + 1)..Len(applied)}
GoneFor(i) == {call \in Gone : call[2] = i}

Unpaid_Kept(i) == payment[i]
Unpaid(i) == IF GoneFor(i) # {} THEN [payment[i] EXCEPT !.status = "confirming"] ELSE payment[i]

\* Confirmed operations whose event has left the chain; the hash stays.
Orphaned(candidates, i, name) ==
  [n \in DOMAIN candidates |->
    IF /\ candidates[n].status = "confirmed"
       /\ \E call \in GoneFor(i) : call[1] = name /\ call[3] = candidates[n].hash
    THEN [candidates[n] EXCEPT !.status = "orphaned"] ELSE candidates[n]]

AmountOf(S) == Total([i \in S |-> Amount[i]])
PaidAmount(p) == AmountOf({i \in Invitations : p[i].status = "paid"})

\* The two updates of splits, over the payments p and the operations o after the rewind.
RebuiltSplit(p, o) ==
  LET paid      == PaidAmount(p)
      issued    == {i \in Invitations : p[i].status # "none"}
      allGone   == issued # {} /\ \A i \in issued : p[i].status = "revoked"
      underway  == \E i \in issued : \E n \in DOMAIN o[i] : o[i][n].status \in Unfinished
  IN  [confirmed |-> paid,
       revokedAt |-> IF issued = {} THEN split.revokedAt ELSE allGone /\ paid = 0,
       status |-> IF paid = 0 /\ allGone THEN "revoked"
                  ELSE IF paid = 0 /\ underway THEN "revoking"
                  ELSE IF split.revokedAt /\ issued = {} THEN "revoked"
                  ELSE IF paid = 0 THEN "active"
                  ELSE IF paid = TotalBaseUnits THEN "complete" ELSE "partially_paid"]

RewindTo(p, o) ==
  /\ applied' = Kept /\ refused' = refused \ Gone
  /\ payment' = p /\ revocation' = o
  /\ invitation' = [i \in Invitations |-> IF GoneFor(i) # {} THEN "confirming" ELSE invitation[i]]
  /\ operation' = [i \in Invitations |-> Orphaned(operation[i], i, "reimburse")]
  /\ paidBy' = [i \in Invitations |-> IF p[i].status = "paid" THEN Amount[i] ELSE 0]
  /\ split' = RebuiltSplit(p, o)
  /\ UNCHANGED <<chain, people, agreed>>

\* Every split is computed again, also when none of its events has left the chain:
\* then the reorganisation was elsewhere.
Rewind ==
  /\ IF agreed < Len(applied) THEN NoFault ELSE Fault
  /\ RewindTo([i \in Invitations |-> Unpaid(i)],
              [i \in Invitations |-> Orphaned(revocation[i], i, "revoke")])

-----------------------------------------------------------------------------
ContractNext ==
  \/ \E i \in Invitations :
       \/ \E n \in held[i], h \in Hashes : Reimburse(i, n, h)
       \/ \E n \in DOMAIN revocation[i] : RevokePaymentKey(i, n)
  \/ Reorganise

ParticipantNext == \E i \in Invitations :
  \/ PrepareSplitPayment(i) \/ EndRequest(i)
  \/ \E d \in Digests : RecordSplitIntent(i, d)
  \/ \E n \in 1..MaxOperations, answered \in BOOLEAN : PrepareOperation(i, n, answered)
  \/ \E n \in held[i], status \in Reports \cup {"submission_started"},
        h \in Hashes \cup {NoHash} : RegisterOperation(i, n, status, h)
  \/ \E status \in Reports : RegisterSplitPaymentSubmission(i, status)

CreatorNext == \E r \in Requests :
  \/ PrepareSplitRevocation(r) \/ LeaveRequest(r)
  \/ \E i \in Invitations :
       \/ PrepareRevocation(r, i) \/ FailOverdue(r, i) \/ StartRevocation(r, i)
       \/ SendRevocation(r, i) \/ FailRevocation(r, i)
       \/ \E status \in Reports, h \in {NoHash} \cup 1..MaxRevocations :
            RecordRevocation(r, i, status, h)

IndexerNext ==
  \/ \E i \in Invitations :
       \/ \E h \in Hashes, d \in Digests : SplitReimbursed(i, h, d)
       \/ \E n \in DOMAIN revocation[i] : SplitPaymentRevoked(i, n)
  \/ Rewind

Next == ContractNext \/ ParticipantNext \/ CreatorNext \/ IndexerNext

Spec == Init /\ [][Next]_vars

-----------------------------------------------------------------------------
Statuses == {"none", "unpaid", "submission_started", "submitted_unknown", "confirming",
             "paid", "revoked"}
Calls0 == ({"reimburse"} \X Invitations \X Hashes \X Digests)
            \cup ({"revoke"} \X Invitations \X (1..MaxRevocations))

TypeOK ==
  /\ chain \in Seq(Calls0) /\ applied \in Seq(Calls0) /\ refused \subseteq Calls0
  /\ faults \in 0..MaxFaults
  /\ agreed \in 0..Len(applied) /\ agreed <= Len(chain)
  /\ SubSeq(applied, 1, agreed) = SubSeq(chain, 1, agreed)
  /\ split \in [status: {"active", "revoking", "revoked", "partially_paid", "complete"},
                confirmed: 0..TotalBaseUnits, revokedAt: BOOLEAN]
  /\ invitation \in [Invitations -> Statuses \ {"none"}]
  /\ payment \in [Invitations -> [status: Statuses, digest: Digests \cup {NoDigest}]]
  /\ operation \in [Invitations -> Seq([status: {"confirmed"} \cup Unfinished,
                                       digest: Digests, hash: Hashes \cup {NoHash}])]
  /\ paidBy \in [Invitations -> Nat]
  /\ revocation \in [Invitations -> Seq([status: {"failed", "confirmed"} \cup Unfinished,
                                        hash: {NoHash} \cup 1..MaxRevocations, sent: BOOLEAN])]
  /\ tab \in [Invitations -> {"idle", "signing", "recorded"}]
  /\ held \in [Invitations -> SUBSET (1..MaxOperations)]
  /\ request \in [Requests -> [at: {"idle", "looping", "starting", "sending"},
                               left: SUBSET Invitations, on: SUBSET Invitations,
                               seen: [Invitations -> 0..MaxRevocations]]]

\* The hashes of the reimbursement of a payment, one at most.
Told(s, i) == {s[m][3] : m \in Calls(s, "reimburse", i)}

\* The event does not tell the operation of its payment: another one is stored beside
\* it, or it was registered with the hash of another transaction.
Untold(i, n) ==
  Len(operation[i]) > 1 \/ operation[i][n].hash \notin {NoHash} \cup Told(applied, i)
Mistaken(i) == \E n \in DOMAIN operation[i] :
  /\ operation[i][n].status \in {"submission_started", "submitted", "submitted_unknown"}
  /\ Untold(i, n)

\* Split and participants never say more than what the contract moved in the calls
\* that are projected, whatever was registered, revoked or rewound around them.  They
\* say less only for a payment with a mistaken operation: #confirmContractOperation
\* left it open, so that it could be registered on top of the payment that was made.
ConfirmedIsHistory ==
  /\ TypeOK
  /\ split.confirmed = AmountOf({i \in Invitations : paidBy[i] # 0})
  /\ split.status = "complete" <=> split.confirmed = TotalBaseUnits
  /\ split.status \in {"revoking", "revoked", "active"} => split.confirmed = 0
  /\ \A i \in Invitations :
       \/ paidBy[i] = IF Reimbursed(applied, i) THEN Amount[i] ELSE 0
       \/ paidBy[i] = 0 /\ Mistaken(i)

\* No event of the contract is refused: a participant never holds a signature
\* whose payment the application would not recognise, and money never moves on a
\* key the application takes for revoked, nor the other way round.
NothingRefused == refused = {}

\* Once the application says that the split is revoked, and as long as the chain
\* keeps what it was told, nobody can pay on it any more.
RevokedStopsPayments ==
  [][split.status = "revoked" /\ agreed = Len(applied) =>
       \A i \in Invitations : Reimbursed(chain', i) => Reimbursed(chain, i)]_vars

\* While the creator waits for the revocation no invitation is open again.
PendingUntilConfirmed == [][split.status = "revoking" => split'.status # "active"]_vars
=============================================================================
