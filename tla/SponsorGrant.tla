---------------------------- MODULE SponsorGrant ----------------------------
(***************************************************************************)
(* Activation grants: a new wallet gets a little ether from the sponsor's  *)
(* key, once.  A request runs under a Redis lock of its recipient, makes   *)
(* one transaction under its idempotency key that charges the budget and   *)
(* stores the grant, then takes the lock of the signer, fixes a nonce,     *)
(* signs, records the hash, broadcasts, records the result.  Either lock   *)
(* may be lost while its holder goes on; a process may die between any two *)
(* steps.  The reconciler of the indexer compares grants with the chain.   *)
(*                                                                         *)
(* A grant stands for its recipient: there is one per recipient for ever.  *)
(* A transaction stands for its hash.  "submitted" stands for submitted    *)
(* and submitted_unknown, which no query tells apart.  in_progress is not  *)
(* a status of a key: it is written and replaced in one transaction.       *)
(***************************************************************************)
EXTENDS Amounts, Sequences

CONSTANTS
  Recipients, Workers, Keys,
  Fees,              \* fee quotes: two of them make two transactions
  Nobody, NoTx,      \* no lock holder, no transaction
  Outside,           \* recipient of whatever else the sponsor's key signs
  TargetWei, CapWei, MinimumWei,   \* the policy of one grant
  DailyCapWei,       \* the global budget; the other scopes are charged with it
  MaxCandidates,     \* 4 in the code
  ConfirmationDepth,
  Batch,             \* 100 in the code
  MaxBlocks,         \* bound: blocks ever mined
  MaxReorgs,         \* bound
  MaxFaults          \* bound: locks lost, requests that fail or die

ASSUME PolicyAssumption ==
  /\ {TargetWei, CapWei, MinimumWei, DailyCapWei} \subseteq Nat
  /\ 0 < MinimumWei /\ MinimumWei <= CapWei /\ CapWei <= DailyCapWei
ASSUME NamesAssumption ==
  /\ Nobody \notin Workers /\ Outside \notin Recipients /\ IsFiniteSet(Recipients)
  /\ NoTx \notin [to : Recipients \cup {Outside}, nonce : Nat, fee : Fees]
ASSUME BoundsAssumption ==
  /\ MaxCandidates \in Nat \ {0} /\ ConfirmationDepth \in Nat \ {0} /\ Batch \in Nat \ {0}
  /\ MaxBlocks \in Nat /\ MaxReorgs \in Nat /\ MaxFaults \in Nat

VARIABLES
  grant,             \* bootstrap_grants
  updated,           \* the grants in the order of updatedAt
  granted,           \* sponsor_budgets: grantedWei of the global scope
  record,            \* idempotency_records: status
  recipientLock, signerLock,
  worker,            \* a server process and the request it runs
  cached,            \* #results of each process
  chain, sent,       \* blocks; transactions some node has accepted
  mined,             \* blocks mined so far, the identity of the last one
  scan,              \* what is left of reconcileOnce
  faults, reorgs

rows   == <<grant, updated, granted, record>>
locks  == <<recipientLock, signerLock>>
arb    == <<chain, sent, mined>>
bounds == <<faults, reorgs>>
vars   == <<rows, locks, worker, cached, arb, scan, bounds>>

Txs == [to : Recipients \cup {Outside}, nonce : Nat, fee : Fees]
NoGrant == [status |-> "none", nonce |-> -1, tx |-> NoTx, candidates |-> {}, proof |-> 0,
            height |-> 0, wei |-> 0]
Idle == [at |-> "idle", to |-> Nobody, key |-> Nobody, seen |-> NoGrant, nonce |-> -1,
         tx |-> NoTx, retry |-> FALSE]
Nothing(outcome) == [outcome |-> outcome, tx |-> NoTx, id |-> 0, height |-> 0]
NoScan == [list |-> <<>>, look |-> Nothing("none")]

Init ==
  /\ grant = [r \in Recipients |-> NoGrant] /\ updated = <<>> /\ granted = 0
  /\ record = [r \in Recipients |-> [k \in Keys |-> "none"]]
  /\ recipientLock = [r \in Recipients |-> Nobody] /\ signerLock = Nobody
  /\ worker = [w \in Workers |-> Idle]
  /\ cached = [w \in Workers |-> [r \in Recipients |-> NoTx]]
  /\ chain = <<>> /\ sent = {} /\ mined = 0
  /\ scan = NoScan /\ faults = 0 /\ reorgs = 0

Fault == faults < MaxFaults /\ faults' = faults + 1 /\ UNCHANGED reorgs
NoFault == UNCHANGED bounds

-----------------------------------------------------------------------------
(* The chain, as far as the sponsor's key is concerned.                    *)

Signed(c) == {h \in DOMAIN c : c[h].tx # NoTx}
NextNonce == Cardinality(Signed(chain))
Pays(h, r) == chain[h].tx # NoTx /\ chain[h].tx.to = r /\ chain[h].ok
Received(r) == Cardinality({h \in DOMAIN chain : Pays(h, r)}) * grant[r].wei

\* eth_getTransactionCount(pending): another provider may know fewer of the
\* transactions that wait.
PendingNonces ==
  {n \in NextNonce..(NextNonce + Cardinality(sent)) :
     \A k \in NextNonce..(n - 1) : \E t \in sent : t.nonce = k}

\* A transfer fails when its recipient has become a contract in the meantime.
Mine(tx, ok) ==
  /\ mined < MaxBlocks
  /\ mined' = mined + 1
  /\ chain' = Append(chain, [id |-> mined + 1, tx |-> tx, ok |-> ok])
  /\ UNCHANGED <<rows, locks, worker, cached, sent, scan>>

MineEmpty == NoFault /\ Mine(NoTx, TRUE)
Include(ok) ==
  \E t \in sent : t.nonce = NextNonce /\ (IF ok THEN NoFault ELSE Fault) /\ Mine(t, ok)

\* The operator signs something else with the sponsor's key.
SignElsewhere ==
  /\ Fault
  /\ \E f \in Fees : Mine([to |-> Outside, nonce |-> NextNonce, fee |-> f], TRUE)

Reorganise ==
  /\ reorgs < MaxReorgs /\ reorgs' = reorgs + 1
  /\ \E h \in 0..(Len(chain) - 1) : chain' = SubSeq(chain, 1, h)
  /\ UNCHANGED <<faults, rows, locks, worker, cached, sent, mined, scan>>

-----------------------------------------------------------------------------
(* Locks and the reservation under the idempotency key.                    *)

At(w, at) == worker[w].at = at
Go(w, at) == worker' = [worker EXCEPT ![w].at = at]
Release(w) ==
  /\ recipientLock' = [r \in Recipients |->
                         IF recipientLock[r] = w THEN Nobody ELSE recipientLock[r]]
  /\ signerLock' = IF signerLock = w THEN Nobody ELSE signerLock
Done(w) == worker' = [worker EXCEPT ![w] = Idle] /\ Release(w)

Ask(w, r, k) ==
  /\ At(w, "idle") /\ recipientLock[r] = Nobody
  /\ recipientLock' = [recipientLock EXCEPT ![r] = w]
  /\ worker' = [worker EXCEPT ![w] = [Idle EXCEPT !.at = "reserve", !.to = r, !.key = k]]
  /\ UNCHANGED <<rows, signerLock, cached, arb, scan, bounds>>

LoseLocks(w) ==
  /\ Fault /\ ~At(w, "idle") /\ Release(w)
  /\ UNCHANGED <<rows, worker, cached, arb, scan>>

Pending(g) == g.status \in {"created", "submission_started", "submitted", "orphaned"}

\* What the recipient still lacks, up to the cap of a grant.
AmountFor(r) ==
  LET deficit == TargetWei - Received(r) - (IF Pending(grant[r]) THEN grant[r].wei ELSE 0)
  IN  IF deficit > CapWei THEN CapWei ELSE deficit

\* The entries of s at the positions S, in their order.
Picked(s, S) ==
  [n \in 1..Cardinality(S) |-> s[CHOOSE i \in S : Cardinality({j \in S : j <= i}) = n]]

\* A write of a grant moves it to the end of the order of updatedAt.
Touched(r) == Append(Picked(updated, {n \in DOMAIN updated : updated[n] # r}), r)
Write(r, g) == grant' = [grant EXCEPT ![r] = g] /\ updated' = Touched(r)

\* reserveAndCreate: the grant there is, or a new one that the budget covers.
Reserve(w) ==
  LET r == worker[w].to k == worker[w].key wei == AmountFor(r) IN
  /\ At(w, "reserve")
  /\ \/ /\ record[r][k] = "completed"
        /\ Go(w, "load") /\ UNCHANGED <<rows, locks>>
     \/ /\ record[r][k] = "failed_terminal"
        /\ Done(w) /\ UNCHANGED rows
     \/ /\ record[r][k] \notin {"completed", "failed_terminal"}
        /\ wei >= MinimumWei
        /\ \/ grant[r] # NoGrant /\ UNCHANGED <<grant, updated, granted>>
           \/ /\ grant[r] = NoGrant /\ granted + wei <= DailyCapWei
              /\ granted' = granted + wei
              /\ Write(r, [NoGrant EXCEPT !.status = "created", !.wei = wei])
        /\ record' = [record EXCEPT ![r][k] = "completed"]
        /\ Go(w, "load") /\ UNCHANGED locks
     \/ /\ record[r][k] \notin {"completed", "failed_terminal"}
        /\ wei < MinimumWei \/ (grant[r] = NoGrant /\ granted + wei > DailyCapWei)
        /\ Go(w, "bookkeep") /\ UNCHANGED <<rows, locks>>
  /\ UNCHANGED <<cached, arb, scan, bounds>>

\* A limit, a signer that is low, a delegated account, a call that fails: the
\* transaction rolls back and the outcome is recorded in another one.
FailReservation(w, retry) ==
  /\ At(w, "reserve") /\ Fault
  /\ record[worker[w].to][worker[w].key] \notin {"completed", "failed_terminal"}
  /\ worker' = [worker EXCEPT ![w].at = "bookkeep", ![w].retry = retry]
  /\ UNCHANGED <<rows, locks, cached, arb, scan>>

Outcome_Overwritten(old, retry) == IF retry THEN "failed_retryable" ELSE "failed_terminal"
Outcome(old, retry) ==
  IF old = "completed" THEN old
  ELSE IF retry THEN "failed_retryable" ELSE "failed_terminal"

RecordFailure(w) ==
  LET r == worker[w].to k == worker[w].key IN
  /\ At(w, "bookkeep")
  /\ record' = [record EXCEPT ![r][k] = Outcome(record[r][k], worker[w].retry)]
  /\ Done(w)
  /\ UNCHANGED <<grant, updated, granted, cached, arb, scan, bounds>>

-----------------------------------------------------------------------------
(* Under both locks: the nonce, the signed transaction, the broadcast.     *)

\* findById: a grant that is past its submission is only shown.
Load(w) ==
  LET g == grant[worker[w].to] IN
  /\ At(w, "load")
  /\ IF g.status \in {"created", "submission_started"}
     THEN worker' = [worker EXCEPT ![w].at = "lock", ![w].seen = g] /\ UNCHANGED locks
     ELSE Done(w)
  /\ UNCHANGED <<rows, cached, arb, scan, bounds>>

TakeSignerLock(w) ==
  /\ At(w, "lock")
  /\ IF signerLock = Nobody
     THEN /\ signerLock' = w /\ UNCHANGED recipientLock
          /\ \E n \in PendingNonces :
               worker' = [worker EXCEPT ![w].at = "start", ![w].nonce = n]
     ELSE Done(w)
  /\ UNCHANGED <<rows, cached, arb, scan, bounds>>

\* The lookup in the table and its unique index.
Claimed_Unchecked(r, n) == FALSE
Claimed(r, n) == \E q \in Recipients \ {r} : grant[q].nonce = n

\* The signer's next nonce is beyond, at or before the one of the grant.
Compare(w, g) ==
  IF worker[w].nonce > g.nonce THEN (IF g.tx # NoTx THEN "unknown" ELSE "replace")
  ELSE IF worker[w].nonce = g.nonce THEN "prepare" ELSE "queued"

Proceed(w, g) ==
  IF Compare(w, g) = "queued"
  THEN Done(w)
  ELSE worker' = [worker EXCEPT ![w].seen = g, ![w].at = Compare(w, g)] /\ UNCHANGED locks

\* markSubmissionStarted writes a grant that is created for both.
Starts_Again(seen, g) == {seen.status, g.status} \subseteq {"created", "submission_started"}
Starts(seen, g) == seen.status = "created" /\ g.status = "created"

StartSubmission(w) ==
  LET r == worker[w].to g == grant[r] n == worker[w].nonce
      started == [g EXCEPT !.status = "submission_started", !.nonce = n]
  IN
  /\ At(w, "start")
  /\ \/ /\ worker[w].seen.status # "created"
        /\ Proceed(w, worker[w].seen) /\ UNCHANGED <<grant, updated>>
     \/ /\ worker[w].seen.status = "created" /\ g.status # "created"
        /\ IF g.status = "submission_started" /\ g.nonce = n THEN Proceed(w, g) ELSE Done(w)
        /\ UNCHANGED <<grant, updated>>
     \/ /\ Starts(worker[w].seen, g)
        /\ IF Claimed(r, n)
           THEN Done(w) /\ UNCHANGED <<grant, updated>>
           ELSE Write(r, started) /\ Proceed(w, started)
  /\ UNCHANGED <<granted, record, cached, arb, scan, bounds>>

\* The switch is off when it is read again: a grant not yet started fails.
SwitchOff(w) ==
  /\ At(w, "start") /\ Fault
  /\ IF worker[w].seen.status = "created" THEN Go(w, "fail") /\ UNCHANGED locks ELSE Done(w)
  /\ UNCHANGED <<rows, cached, arb, scan>>

Failable_Started(g) == g.status \in {"created", "submission_started"}
Failable(g) == g.status = "created"

MarkFailed(w) ==
  LET r == worker[w].to IN
  /\ At(w, "fail") /\ Done(w)
  /\ IF Failable(grant[r])
     THEN Write(r, [grant[r] EXCEPT !.status = "failed"])
     ELSE UNCHANGED <<grant, updated>>
  /\ UNCHANGED <<granted, record, cached, arb, scan, bounds>>

Replaceable_Unguarded(g) == TRUE
Replaceable(g) == g.status = "submission_started" /\ g.tx = NoTx

MarkReplaced(w) ==
  LET r == worker[w].to IN
  /\ At(w, "replace") /\ Done(w)
  /\ IF Replaceable(grant[r])
     THEN Write(r, [grant[r] EXCEPT !.status = "replaced"])
     ELSE UNCHANGED <<grant, updated>>
  /\ UNCHANGED <<granted, record, cached, arb, scan, bounds>>

\* The pending nonce is read once more; a transaction this process has sent
\* before is not signed again.
Prepare(w, f) ==
  LET r == worker[w].to n == worker[w].seen.nonce IN
  /\ At(w, "prepare")
  /\ \/ /\ cached[w][r] # NoTx /\ cached[w][r].nonce = n
        /\ worker' = [worker EXCEPT ![w].at = "record", ![w].tx = cached[w][r]]
     \/ /\ cached[w][r] = NoTx /\ n \in PendingNonces
        /\ worker' = [worker EXCEPT ![w].at = "record",
                                    ![w].tx = [to |-> r, nonce |-> n, fee |-> f]]
  /\ UNCHANGED <<rows, locks, cached, arb, scan, bounds>>

Recorded_Last(g, tx) == [g EXCEPT !.tx = tx, !.candidates = {tx}]
Recorded(g, tx) == [g EXCEPT !.tx = tx, !.candidates = @ \cup {tx}]

Full(g, tx) == tx \notin g.candidates /\ Cardinality(g.candidates) >= MaxCandidates

\* A hash that is not the last one recorded is refused too: the key of its event is
\* in the outbox already, and the transaction rolls back.
Refused(g, tx) == Full(g, tx) \/ tx \in g.candidates \ {g.tx}

\* The hash is stored before the broadcast, all of them, up to a limit.
MarkTransactionPrepared(w) ==
  LET r == worker[w].to tx == worker[w].tx g == grant[r] IN
  /\ At(w, "record")
  /\ \/ /\ g.status # "submission_started" \/ g.nonce # tx.nonce
        /\ Done(w) /\ UNCHANGED <<grant, updated>>
     \/ /\ g.status = "submission_started" /\ g.nonce = tx.nonce
        /\ IF Refused(g, tx)
           THEN /\ IF worker[w].seen.tx # NoTx
                   THEN Go(w, "unknown") /\ UNCHANGED locks ELSE Done(w)
                /\ UNCHANGED <<grant, updated>>
           ELSE /\ IF tx = g.tx THEN UNCHANGED <<grant, updated>> ELSE Write(r, Recorded(g, tx))
                /\ worker' = [worker EXCEPT ![w].at = "send", ![w].seen = Recorded(g, tx)]
                /\ UNCHANGED locks
  /\ UNCHANGED <<granted, record, cached, arb, scan, bounds>>

\* Whether the node took it or not, the result is kept in the process; what
\* was sent before by this process is not sent again.
Submit(w, taken) ==
  LET r == worker[w].to tx == worker[w].tx IN
  /\ At(w, "send")
  /\ IF cached[w][r] = NoTx
     THEN /\ cached' = [cached EXCEPT ![w][r] = tx]
          /\ taken => tx.nonce >= NextNonce
          /\ sent' = IF taken THEN sent \cup {tx} ELSE sent
     ELSE ~taken /\ UNCHANGED <<cached, sent>>
  /\ worker' = [worker EXCEPT ![w].at = "unknown"]
  /\ UNCHANGED <<rows, locks, chain, mined, scan, bounds>>

\* markTransferResult, with the hash the request knows.
MarkTransferResult(w) ==
  LET r == worker[w].to g == grant[r] IN
  /\ At(w, "unknown") /\ Done(w)
  /\ IF g.status = "submission_started" /\ g.tx = worker[w].seen.tx
     THEN Write(r, [g EXCEPT !.status = "submitted"])
     ELSE UNCHANGED <<grant, updated>>
  /\ UNCHANGED <<granted, record, cached, arb, scan, bounds>>

\* A call fails; with a hash that is known the outcome is recorded as unknown.
Ambiguous(w) ==
  /\ Fault /\ worker[w].at \in {"prepare", "record", "send"} /\ worker[w].seen.tx # NoTx
  /\ Go(w, "unknown")
  /\ UNCHANGED <<rows, locks, cached, arb, scan>>

\* The request fails without recording anything, or its process dies with
\* everything that is cached in it; the locks run out.
EndRequest(w, dies) ==
  /\ Fault /\ ~At(w, "idle") /\ Done(w)
  /\ cached' = IF dies THEN [cached EXCEPT ![w] = [r \in Recipients |-> NoTx]] ELSE cached
  /\ UNCHANGED <<rows, arb, scan>>

-----------------------------------------------------------------------------
(* The reconciler: a list of rows, and for each a look at the chain and a  *)
(* write.                                                                  *)

Listed_Submitted(g) == g.status \in {"submitted", "confirmed", "orphaned"} /\ g.tx # NoTx
Listed(g) ==
  g.status \in {"submission_started", "submitted", "confirmed", "orphaned"} /\ g.tx # NoTx

\* listCandidates: the rows that were not touched for longest.
ListCandidates ==
  LET due == Picked(updated, {n \in DOMAIN updated : Listed(grant[updated[n]])})
      batch == SubSeq(due, 1, IF Len(due) < Batch THEN Len(due) ELSE Batch)
  IN
  /\ scan = NoScan /\ batch # <<>>
  /\ scan' = [NoScan EXCEPT !.list = [n \in DOMAIN batch |->
                                        [of |-> batch[n], row |-> grant[batch[n]]]]]
  /\ UNCHANGED <<rows, locks, worker, cached, arb, bounds>>

\* The blocks of the chain that hold a candidate of the row, at most one.
Evidence(row) == {h \in DOMAIN chain : chain[h].tx \in row.candidates}

Settles_Reverted(b) == "confirmed"
Settles(b) == IF b.ok THEN "confirmed" ELSE "failed"

\* What the chain says of a row: nothing yet, its outcome, or that the block
\* of its confirmation is gone.  Asking for a block that is not there throws.
Verdict(row) ==
  IF Evidence(row) # {}
  THEN LET h == CHOOSE b \in Evidence(row) : TRUE IN
       IF Len(chain) - h + 1 < ConfirmationDepth THEN Nothing("pending")
       ELSE [outcome |-> Settles(chain[h]), tx |-> chain[h].tx,
             id |-> chain[h].id, height |-> h]
  ELSE IF row.status # "confirmed" THEN Nothing("pending")
  ELSE IF row.height > Len(chain) THEN Nothing("throws")
  ELSE IF chain[row.height].id = row.proof THEN Nothing("pending")
  ELSE [outcome |-> "orphaned", tx |-> row.tx, id |-> 0, height |-> 0]

Look ==
  /\ scan.list # <<>> /\ scan.look.outcome = "none"
  /\ LET v == Verdict(Head(scan.list).row) IN
     scan' = IF v.outcome = "throws" THEN NoScan
             ELSE IF v.outcome = "pending" THEN [NoScan EXCEPT !.list = Tail(scan.list)]
             ELSE [scan EXCEPT !.look = v]
  /\ UNCHANGED <<rows, locks, worker, cached, arb, bounds>>

\* The write of an outcome refuses a hash that is not recorded, and another
\* proof of what is confirmed.
MarkThrows(g, v) ==
  \/ v.tx \notin g.candidates
  \/ v.outcome = "confirmed" /\ g.status = "confirmed" /\ g.proof # v.id

\* markCanonicalOutcome; what it throws ends the whole scan.
MarkCanonicalOutcome ==
  LET r == Head(scan.list).of g == grant[r] v == scan.look
      settled == [g EXCEPT !.status = v.outcome, !.proof = v.id, !.height = v.height,
                           !.tx = IF v.outcome = "orphaned" THEN @ ELSE v.tx]
      open == IF v.outcome = "orphaned" THEN {"confirmed"}
              ELSE {"submission_started", "submitted", "orphaned"}
      throws == MarkThrows(g, v)
  IN
  /\ scan.look.outcome # "none"
  /\ IF ~throws /\ g.status \in open THEN Write(r, settled) ELSE UNCHANGED <<grant, updated>>
  /\ scan' = IF throws THEN NoScan ELSE [NoScan EXCEPT !.list = Tail(scan.list)]
  /\ UNCHANGED <<granted, record, locks, worker, cached, arb, bounds>>

-----------------------------------------------------------------------------
Environment ==
  MineEmpty \/ SignElsewhere \/ Reorganise \/ \E ok \in BOOLEAN : Include(ok)

Request(w) ==
  \/ \E r \in Recipients, k \in Keys : Ask(w, r, k)
  \/ Reserve(w) \/ RecordFailure(w) \/ Load(w) \/ TakeSignerLock(w)
  \/ \E retry \in BOOLEAN : FailReservation(w, retry)
  \/ StartSubmission(w) \/ SwitchOff(w) \/ MarkFailed(w) \/ MarkReplaced(w)
  \/ \E f \in Fees : Prepare(w, f)
  \/ MarkTransactionPrepared(w) \/ MarkTransferResult(w) \/ Ambiguous(w)
  \/ \E taken \in BOOLEAN : Submit(w, taken)
  \/ LoseLocks(w) \/ \E dies \in BOOLEAN : EndRequest(w, dies)

Reconcile == ListCandidates \/ Look \/ MarkCanonicalOutcome

Next == Environment \/ Reconcile \/ \E w \in Workers : Request(w)
Spec == Init /\ [][Next]_vars

\* afterScan runs after every scan of the indexer.  Nothing obliges a customer
\* to ask, a node to take a transaction or the chain to include it.
Fairness == WF_vars(ListCandidates) /\ WF_vars(Look) /\ WF_vars(MarkCanonicalOutcome)
FairSpec == Spec /\ Fairness

-----------------------------------------------------------------------------
(* Properties *)

Statuses == {"none", "created", "submission_started", "submitted", "replaced", "failed",
             "confirmed", "orphaned"}
Grants == [status : Statuses, nonce : Nat \cup {-1}, tx : Txs \cup {NoTx},
           candidates : SUBSET Txs, proof : Nat, height : Nat, wei : 0..CapWei]
Requests == [at : {"idle", "reserve", "bookkeep", "load", "lock", "start", "fail", "replace",
                   "prepare", "record", "send", "unknown"},
             to : Recipients \cup {Nobody}, key : Keys \cup {Nobody}, seen : Grants,
             nonce : Nat \cup {-1}, tx : Txs \cup {NoTx}, retry : BOOLEAN]
KeyStatuses == {"none", "completed", "failed_retryable", "failed_terminal"}

\* Every variable has its type; the hashes recorded for a grant are of
\* transfers to its wallet with its nonce, and no more than the table takes.
TypeOK ==
  /\ grant \in [Recipients -> Grants] /\ worker \in [Workers -> Requests]
  /\ record \in [Recipients -> [Keys -> KeyStatuses]]
  /\ recipientLock \in [Recipients -> Workers \cup {Nobody}]
  /\ signerLock \in Workers \cup {Nobody}
  /\ cached \in [Workers -> [Recipients -> Txs \cup {NoTx}]]
  /\ chain \in Seq([id : Nat \ {0}, tx : Txs \cup {NoTx}, ok : BOOLEAN]) /\ sent \subseteq Txs
  /\ granted \in 0..DailyCapWei /\ mined \in Nat
  /\ \A r \in Recipients :
       /\ grant[r].candidates \subseteq [to : {r}, nonce : {grant[r].nonce}, fee : Fees]
       /\ Cardinality(grant[r].candidates) <= MaxCandidates

\* Whatever locks are lost and processes die, the sponsor's key has moved at
\* most one grant to a wallet.
FundedOnce ==
  \A r \in Recipients, g, h \in DOMAIN chain : Pays(g, r) /\ Pays(h, r) => g = h

\* All that was moved was charged to the budget of the day.
Charged == Total([r \in Recipients |-> Received(r)]) <= granted

\* Every transfer that a node ever took is known by its hash in the table: a
\* crash at any point leaves nothing that the reconciler could not find.
SentIsRecorded == \A t \in sent : t \in grant[t.to].candidates

\* No two grants wait for the same nonce of the signer, also when providers
\* disagree on the next one and the lock of the signer is lost.
NoncePerGrant ==
  \A q, r \in Recipients : q # r /\ grant[q].nonce # -1 => grant[q].nonce # grant[r].nonce

\* A grant that was given up, replaced or failed without a block of the chain that
\* says so, has no transfer under way, though its request may have been overtaken by
\* another one that is in the middle of its submission.
GivenUpIsUnsent ==
  \A t \in sent : LET g == grant[t.to] IN
    /\ g.status \notin {"none", "created", "replaced"}
    /\ g.status = "failed" => g.proof # 0

\* A confirmed grant whose block is part of the chain was paid in that block.
ConfirmedIsPaid ==
  \A r \in Recipients, h \in DOMAIN chain :
    grant[r].status = "confirmed" /\ chain[h].id = grant[r].proof => Pays(h, r)

\* The reconciler writes what it saw of a row read earlier.  What it found is
\* recorded in the row as it is now, and it takes a reorganisation to end a scan
\* early: before one, no look at a row and no write of an outcome throws.
ScanGoesThrough == scan.list # <<>> =>
  LET g == grant[Head(scan.list).of] v == scan.look IN
  /\ v.outcome # "none" => v.tx \in g.candidates
  /\ reorgs = 0 /\ v.outcome # "none" => ~MarkThrows(g, v)
  /\ reorgs = 0 => Verdict(Head(scan.list).row).outcome # "throws"

\* A key under which a grant was given says so for ever: the failure of an
\* earlier attempt may be recorded late, after a retry has succeeded.
CompletedKept ==
  [][\A r \in Recipients, k \in Keys :
       record[r][k] = "completed" => record'[r][k] = "completed"]_vars

\* The transfer to a wallet is on the chain, deep enough for the reconciler.
Deep(r) ==
  \E h \in DOMAIN chain : Pays(h, r) /\ Len(chain) - h + 1 >= ConfirmationDepth
ConfirmedInTheEnd(r) == <>[](grant[r].status = "confirmed")

\* The list of the reconciler has room for every row that it looks for, and no
\* reorganisation has moved a transfer.
ListHoldsAll == reorgs = 0 /\ Cardinality({r \in Recipients : Listed(grant[r])}) <= Batch

\* A transfer that stays on the chain, deep enough, ends as confirmed, as long as
\* the list has room for all rows and the chain does not reorganise: whatever the
\* order of the list, and though the rest of a list was read before other writes.
\* Without these two it may not: rows that are listed and left as they are keep
\* their place at the head of the list, and a row that throws ends every scan.
OutcomeProven == \A r \in Recipients : <>[](Deep(r) /\ ListHoldsAll) => ConfirmedInTheEnd(r)
=============================================================================
