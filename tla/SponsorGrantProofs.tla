------------------------- MODULE SponsorGrantProofs -------------------------
(***************************************************************************)
(* What holds of the sponsor for any number of wallets, processes, keys    *)
(* and fee quotes, however often locks are lost, requests die, transfers   *)
(* revert and the chain reorganises.                                       *)
(***************************************************************************)
EXTENDS SponsorGrant, AmountsProofs

\* Transactions that pay the wallet r.
TxsTo(r) == [to : {r}, nonce : Nat, fee : Fees]

\* A row that the grant of r may have: what is recorded for it are transfers
\* to r under its nonce, and none before the submission has started.
Fits(r, g) ==
  /\ g \in Grants
  /\ g.candidates \subseteq [to : {r}, nonce : {g.nonce}, fee : Fees]
  /\ IsFiniteSet(g.candidates) /\ Cardinality(g.candidates) <= MaxCandidates
  /\ g.tx = NoTx => g.candidates = {}
  /\ g.tx # NoTx => g.tx \in g.candidates
  /\ g.status \in {"none", "created", "replaced"} => g.candidates = {}
  /\ g.status = "failed" /\ g.proof = 0 => g.candidates = {}

\* A request that a process may be in the middle of.
RequestFits(q) ==
  /\ q \in Requests
  /\ q.at # "idle" => q.to \in Recipients /\ q.key \in Keys
  /\ q.at \in {"record", "send"} => q.tx \in TxsTo(q.to)

\* What is about to be broadcast is recorded.
Recording(q) == q.at = "send" => q.tx \in grant[q.to].candidates

GrantsFit == grant \in [Recipients -> Grants] /\ \A r \in Recipients : Fits(r, grant[r])
RequestsFit ==
  /\ worker \in [Workers -> Requests]
  /\ \A w \in Workers : RequestFits(worker[w]) /\ Recording(worker[w])
CachesFit ==
  /\ cached \in [Workers -> [Recipients -> Txs \cup {NoTx}]]
  /\ \A w \in Workers, r \in Recipients : cached[w][r] = NoTx \/ cached[w][r] \in TxsTo(r)
ScanFits ==
  /\ scan = [list |-> scan.list, look |-> scan.look]
  /\ scan.look.outcome \in {"none", "confirmed", "failed", "orphaned"}
  /\ scan.look.id \in Nat /\ scan.look.height \in Nat
  /\ scan.look.outcome = "failed" => scan.look.id # 0
RestFits ==
  /\ record \in [Recipients -> [Keys -> KeyStatuses]]
  /\ recipientLock \in [Recipients -> Workers \cup {Nobody}]
  /\ signerLock \in Workers \cup {Nobody}
  /\ chain \in Seq([id : Nat \ {0}, tx : Txs \cup {NoTx}, ok : BOOLEAN]) /\ mined \in Nat
  /\ sent \subseteq Txs /\ IsFiniteSet(sent)
  /\ granted \in 0..DailyCapWei

\* Types and the shapes of the rows, together: an inductive invariant.
Fitting == GrantsFit /\ RequestsFit /\ CachesFit /\ ScanFits /\ RestFits

-----------------------------------------------------------------------------
(* What a step may write into a grant *)

\* A write keeps what was recorded, fixes the nonce once, charges a new grant,
\* and confirms only what the reconciler has seen.
Rewrites(r, g) ==
  /\ Fits(r, g)
  /\ grant[r].candidates \subseteq g.candidates
  /\ \/ g.nonce = grant[r].nonce
     \/ grant[r].status = "created" /\ ~Claimed(r, g.nonce)
  /\ \/ g.wei = grant[r].wei /\ granted' = granted
     \/ grant[r] = NoGrant /\ granted' = granted + g.wei
  /\ g.status = "confirmed" =>
       /\ scan.look.outcome = "confirmed" /\ g.proof = scan.look.id
       /\ scan.look.tx \in g.candidates

GrantStep ==
  \/ grant' = grant /\ granted' = granted
  \/ \E r \in Recipients, g \in Grants : grant' = [grant EXCEPT ![r] = g] /\ Rewrites(r, g)

\* No grant yet is a row that fits.
LEMMA NoGrantFits == \A r \in Recipients : Fits(r, NoGrant)
<1>1. NoGrant \in Grants
  BY PolicyAssumption DEF NoGrant, Grants, Statuses
<1>2. IsFiniteSet(NoGrant.candidates) /\ Cardinality(NoGrant.candidates) = 0
  BY FS_EmptySet DEF NoGrant
<1> QED
  BY <1>1, <1>2, BoundsAssumption DEF NoGrant, Fits

\* The blocks of a chain are finitely many, and so are those that pay.
LEMMA FinitelyManyBlocks ==
  ASSUME NEW S, NEW c \in Seq(S), NEW T \in SUBSET (DOMAIN c)
  PROVE  IsFiniteSet(T) /\ Cardinality(T) \in Nat
<1>1. DOMAIN c = 1..Len(c) /\ Len(c) \in Nat
  OBVIOUS
<1>2. IsFiniteSet(DOMAIN c)
  BY <1>1, FS_Interval
<1> QED
  BY <1>2, FS_Subset, FS_CardinalityType

\* What a wallet lacks is never more than the cap of one grant.
LEMMA AmountType ==
  ASSUME Fitting, NEW r \in Recipients
  PROVE  AmountFor(r) \in Int /\ AmountFor(r) <= CapWei
<1> DEFINE paying == {h \in DOMAIN chain : Pays(h, r)}
<1>1. Cardinality(paying) \in Nat
  BY FinitelyManyBlocks DEF Fitting, RestFits
<1>2. grant[r].wei \in Nat
  BY PolicyAssumption DEF Fitting, GrantsFit, Grants
<1>3. Received(r) \in Nat
  BY <1>1, <1>2 DEF Received
<1> QED
  BY <1>2, <1>3, PolicyAssumption DEF AmountFor

\* A reservation creates a grant that the budget covers, or leaves all as it is.
LEMMA ReserveWrites ==
  ASSUME Fitting, NEW w \in Workers, Reserve(w)
  PROVE  GrantStep
<1> DEFINE r == worker[w].to
           wei == AmountFor(r)
           new == [NoGrant EXCEPT !.status = "created", !.wei = wei]
<1>1. CASE grant' = grant /\ granted' = granted
  BY <1>1 DEF GrantStep
<1>2. CASE /\ wei >= MinimumWei /\ grant[r] = NoGrant /\ granted' = granted + wei
           /\ Write(r, new)
  <2>1. r \in Recipients
    BY DEF Reserve, At, Fitting, RequestsFit, RequestFits
  <2>2. wei \in 0..CapWei
    BY <2>1, <1>2, AmountType, PolicyAssumption
  <2>3. /\ new.status = "created" /\ new.wei = wei /\ new.nonce = -1 /\ new.tx = NoTx
        /\ new.candidates = {} /\ new.proof = 0 /\ new.height = 0
    BY DEF NoGrant
  <2>4. new \in Grants
    BY <2>2 DEF NoGrant, Grants, Statuses
  <2>5. Fits(r, new)
    BY <2>3, <2>4, FS_EmptySet, BoundsAssumption DEF Fits
  <2>6. Rewrites(r, new)
    BY <1>2, <2>3, <2>5 DEF Rewrites, NoGrant
  <2> QED
    BY <1>2, <2>1, <2>4, <2>6 DEF GrantStep, Write
<1> QED
  BY <1>1, <1>2 DEF Reserve, rows

\* A write that keeps everything but the status, and the nonce of a grant
\* whose submission starts.
LEMMA StatusWrites ==
  ASSUME Fitting, NEW r \in Recipients, NEW g \in Grants,
         g.candidates = grant[r].candidates, g.tx = grant[r].tx, g.wei = grant[r].wei,
         \/ g.nonce = grant[r].nonce
         \/ grant[r].status = "created" /\ ~Claimed(r, g.nonce),
         g.status \notin {"none", "created", "confirmed"},
         g.status \in {"replaced", "failed"} => grant[r].candidates = {},
         grant' = [grant EXCEPT ![r] = g], granted' = granted
  PROVE  GrantStep
<1>1. Fits(r, grant[r])
  BY DEF Fitting, GrantsFit
<1>2. g.candidates \subseteq [to : {r}, nonce : {g.nonce}, fee : Fees]
  BY <1>1 DEF Fits
<1>3. Fits(r, g)
  BY <1>1, <1>2 DEF Fits
<1> QED
  BY <1>3 DEF Rewrites, GrantStep

LEMMA StartWrites ==
  ASSUME Fitting, NEW w \in Workers, StartSubmission(w)
  PROVE  GrantStep
<1> DEFINE r == worker[w].to
           started == [grant[r] EXCEPT !.status = "submission_started",
                                       !.nonce = worker[w].nonce]
<1>1. CASE UNCHANGED grant
  BY <1>1 DEF StartSubmission, GrantStep
<1>2. CASE Starts(worker[w].seen, grant[r]) /\ ~Claimed(r, worker[w].nonce) /\ Write(r, started)
  <2>1. r \in Recipients
    BY DEF StartSubmission, At, Fitting, RequestsFit, RequestFits
  <2>2. grant[r] \in Grants /\ worker[w].nonce \in Nat \cup {-1}
    BY <2>1 DEF Fitting, GrantsFit, RequestsFit, Requests
  <2>3. started \in Grants /\ started.nonce = worker[w].nonce
        /\ started.status = "submission_started" /\ started.wei = grant[r].wei
        /\ started.candidates = grant[r].candidates /\ started.tx = grant[r].tx
    BY <2>2 DEF Grants, Statuses
  <2>4. grant[r].status = "created" /\ granted' = granted
    BY <1>2 DEF StartSubmission, Starts
  <2> HIDE DEF started
  <2> QED
    BY <1>2, <2>1, <2>3, <2>4, StatusWrites DEF Write
<1> QED
  BY <1>1, <1>2 DEF StartSubmission

LEMMA GivingUpWrites ==
  ASSUME Fitting, NEW w \in Workers, MarkFailed(w) \/ MarkReplaced(w)
  PROVE  GrantStep
<1> DEFINE r == worker[w].to
           With(status) == [grant[r] EXCEPT !.status = status]
<1>1. CASE UNCHANGED grant
  BY <1>1 DEF MarkFailed, MarkReplaced, GrantStep
<1>2. ASSUME NEW status \in {"failed", "replaced"}, Write(r, With(status)),
             Replaceable(grant[r]) \/ Failable(grant[r])
      PROVE  GrantStep
  <2>1. r \in Recipients
    BY DEF MarkFailed, MarkReplaced, At, Fitting, RequestsFit, RequestFits
  <2>2. grant[r] \in Grants /\ Fits(r, grant[r])
    BY <2>1 DEF Fitting, GrantsFit
  <2>3. With(status) \in Grants /\ With(status).status = status
        /\ With(status).nonce = grant[r].nonce /\ With(status).wei = grant[r].wei
        /\ With(status).candidates = grant[r].candidates /\ With(status).tx = grant[r].tx
    BY <2>2 DEF Grants, Statuses
  <2>4. grant[r].candidates = {}
    BY <1>2, <2>2 DEF Replaceable, Failable, Fits
  <2>5. granted' = granted /\ grant' = [grant EXCEPT ![r] = With(status)]
    BY <1>2 DEF MarkFailed, MarkReplaced, Write
  <2> HIDE DEF With
  <2> QED
    BY <2>1, <2>3, <2>4, <2>5, StatusWrites
<1> QED
  BY <1>1, <1>2 DEF MarkFailed, MarkReplaced

\* A hash is added to those of the grant, up to the limit.
LEMMA RecordingWrites ==
  ASSUME Fitting, NEW w \in Workers, MarkTransactionPrepared(w)
  PROVE  GrantStep
<1> DEFINE r == worker[w].to
           tx == worker[w].tx
           g == Recorded(grant[r], tx)
<1>1. CASE UNCHANGED grant
  BY <1>1 DEF MarkTransactionPrepared, GrantStep
<1>2. CASE /\ grant[r].status = "submission_started" /\ grant[r].nonce = tx.nonce
           /\ ~Full(grant[r], tx) /\ Write(r, g)
  <2>1. r \in Recipients /\ tx \in TxsTo(r)
    BY DEF MarkTransactionPrepared, At, Fitting, RequestsFit, RequestFits
  <2>2. grant[r] \in Grants /\ Fits(r, grant[r])
    BY <2>1 DEF Fitting, GrantsFit
  <2>3. tx \in Txs /\ tx # NoTx
    BY <2>1, NamesAssumption DEF TxsTo, Txs
  <2>4. g.tx = tx /\ g.candidates = grant[r].candidates \cup {tx}
        /\ g.status = "submission_started" /\ g.nonce = grant[r].nonce
        /\ g.wei = grant[r].wei
    BY <1>2, <2>2 DEF Recorded, Grants
  <2>5. g \in Grants
    BY <2>2, <2>3 DEF Recorded, Grants
  <2>6. IsFiniteSet(g.candidates) /\ Cardinality(g.candidates) <= MaxCandidates
    <3>1. /\ IsFiniteSet(grant[r].candidates) /\ Cardinality(grant[r].candidates) \in Nat
          /\ Cardinality(grant[r].candidates) <= MaxCandidates
      BY <2>2, FS_CardinalityType DEF Fits
    <3>2. tx \in grant[r].candidates \/ Cardinality(grant[r].candidates) < MaxCandidates
      BY <1>2, <3>1, BoundsAssumption DEF Full
    <3>3. /\ IsFiniteSet(grant[r].candidates \cup {tx})
          /\ Cardinality(grant[r].candidates \cup {tx})
               = IF tx \in grant[r].candidates THEN Cardinality(grant[r].candidates)
                 ELSE Cardinality(grant[r].candidates) + 1
      BY <3>1, FS_AddElement
    <3> QED
      BY <2>4, <3>1, <3>2, <3>3, BoundsAssumption
  <2>7. g.candidates \subseteq [to : {r}, nonce : {g.nonce}, fee : Fees]
    BY <1>2, <2>1, <2>2, <2>4 DEF Fits, TxsTo
  <2>8. Fits(r, g)
    BY <2>3, <2>4, <2>5, <2>6, <2>7 DEF Fits
  <2>9. granted' = granted
    BY DEF MarkTransactionPrepared
  <2>10. Rewrites(r, g)
    BY <2>4, <2>8, <2>9 DEF Rewrites
  <2> QED
    BY <1>2, <2>1, <2>5, <2>10 DEF GrantStep, Write
<1> QED
  BY <1>1, <1>2 DEF MarkTransactionPrepared, Refused

LEMMA ResultWrites ==
  ASSUME Fitting, NEW w \in Workers, MarkTransferResult(w)
  PROVE  GrantStep
<1> DEFINE r == worker[w].to
           g == [grant[r] EXCEPT !.status = "submitted"]
<1>1. CASE UNCHANGED grant
  BY <1>1 DEF MarkTransferResult, GrantStep
<1>2. CASE Write(r, g)
  <2>1. r \in Recipients
    BY DEF MarkTransferResult, At, Fitting, RequestsFit, RequestFits
  <2>2. grant[r] \in Grants
    BY <2>1 DEF Fitting, GrantsFit
  <2>3. g \in Grants /\ g.status = "submitted" /\ g.nonce = grant[r].nonce
        /\ g.wei = grant[r].wei /\ g.candidates = grant[r].candidates /\ g.tx = grant[r].tx
    BY <2>2 DEF Grants, Statuses
  <2>4. granted' = granted /\ grant' = [grant EXCEPT ![r] = g]
    BY <1>2 DEF MarkTransferResult, Write
  <2> HIDE DEF g
  <2> QED
    BY <2>1, <2>3, <2>4, StatusWrites
<1> QED
  BY <1>1, <1>2 DEF MarkTransferResult

\* The reconciler settles a grant by a hash that is recorded for it.
LEMMA OutcomeWrites ==
  ASSUME Fitting, MarkCanonicalOutcome
  PROVE  GrantStep
<1> DEFINE r == Head(scan.list).of
           v == scan.look
           g == [grant[r] EXCEPT !.status = v.outcome, !.proof = v.id, !.height = v.height,
                                 !.tx = IF v.outcome = "orphaned" THEN @ ELSE v.tx]
<1>1. CASE UNCHANGED grant
  BY <1>1 DEF MarkCanonicalOutcome, GrantStep
<1>2. CASE r \notin Recipients
  BY <1>2 DEF MarkCanonicalOutcome, GrantStep, Write, Fitting, GrantsFit
<1>3. CASE r \in Recipients /\ v.tx \in grant[r].candidates /\ Write(r, g)
  <2>1. grant[r] \in Grants /\ Fits(r, grant[r])
    BY <1>3 DEF Fitting, GrantsFit
  <2>2. /\ v.outcome \in {"confirmed", "failed", "orphaned"} /\ v.id \in Nat /\ v.height \in Nat
        /\ v.outcome = "failed" => v.id # 0
    BY DEF MarkCanonicalOutcome, Fitting, ScanFits
  <2>3. v.tx \in Txs /\ v.tx # NoTx
    BY <1>3, <2>1, NamesAssumption DEF Fits, Grants, Txs
  <2>4. g.status = v.outcome /\ g.proof = v.id /\ g.nonce = grant[r].nonce
        /\ g.wei = grant[r].wei /\ g.candidates = grant[r].candidates
        /\ g.tx = (IF v.outcome = "orphaned" THEN grant[r].tx ELSE v.tx)
    BY <2>1 DEF Grants
  <2>5. g \in Grants
    BY <2>1, <2>2, <2>3 DEF Grants, Statuses
  <2> HIDE DEF g
  <2>6. Fits(r, g)
    BY <1>3, <2>1, <2>2, <2>3, <2>4, <2>5 DEF Fits
  <2>7. granted' = granted
    BY DEF MarkCanonicalOutcome
  <2>8. Rewrites(r, g)
    BY <1>3, <2>2, <2>4, <2>6, <2>7 DEF Rewrites
  <2> QED
    BY <1>3, <2>5, <2>8 DEF GrantStep, Write
<1> QED
  BY <1>1, <1>2, <1>3 DEF MarkCanonicalOutcome, MarkThrows

LEMMA RequestWrites ==
  ASSUME Fitting, NEW w \in Workers, Request(w)
  PROVE  GrantStep
<1>1. CASE Reserve(w)
  BY <1>1, ReserveWrites
<1>2. CASE StartSubmission(w)
  BY <1>2, StartWrites
<1>3. CASE MarkFailed(w) \/ MarkReplaced(w)
  BY <1>3, GivingUpWrites
<1>4. CASE MarkTransactionPrepared(w)
  BY <1>4, RecordingWrites
<1>5. CASE MarkTransferResult(w)
  BY <1>5, ResultWrites
<1>6. CASE UNCHANGED <<grant, granted>>
  BY <1>6 DEF GrantStep
<1>7. \/ Reserve(w) \/ StartSubmission(w) \/ MarkFailed(w) \/ MarkReplaced(w)
      \/ MarkTransactionPrepared(w) \/ MarkTransferResult(w) \/ UNCHANGED <<grant, granted>>
  BY DEF Request, Ask, RecordFailure, Load, TakeSignerLock, FailReservation, SwitchOff,
         Prepare, Ambiguous, Submit, LoseLocks, EndRequest, rows
<1> QED
  BY <1>1, <1>2, <1>3, <1>4, <1>5, <1>6, <1>7

\* Every step writes at most one grant, in one of the ways of Rewrites.
LEMMA EveryWrite ==
  ASSUME Fitting, [Next]_vars
  PROVE  GrantStep
<1>1. ASSUME NEW w \in Workers, Request(w) PROVE GrantStep
  BY <1>1, RequestWrites
<1>2. CASE Environment
  BY <1>2 DEF Environment, MineEmpty, SignElsewhere, Reorganise, Include, Mine, rows, GrantStep
<1>3. CASE Reconcile
  <2>1. CASE MarkCanonicalOutcome
    BY <2>1, OutcomeWrites
  <2>2. CASE ListCandidates \/ Look
    BY <2>2 DEF ListCandidates, Look, rows, GrantStep
  <2> QED
    BY <1>3, <2>1, <2>2 DEF Reconcile
<1>4. CASE UNCHANGED vars
  BY <1>4 DEF vars, rows, GrantStep
<1> QED
  BY <1>1, <1>2, <1>3, <1>4 DEF Next

\* What a write leaves behind: rows that fit, and all that was recorded.
LEMMA WritesFit ==
  ASSUME Fitting, GrantStep
  PROVE  GrantsFit' /\ \A r \in Recipients : grant[r].candidates \subseteq grant'[r].candidates
<1>1. CASE grant' = grant
  BY <1>1 DEF Fitting, GrantsFit, Fits
<1>2. ASSUME NEW q \in Recipients, NEW g \in Grants, grant' = [grant EXCEPT ![q] = g],
             Rewrites(q, g)
      PROVE  /\ GrantsFit'
             /\ \A r \in Recipients : grant[r].candidates \subseteq grant'[r].candidates
  <2>1. grant \in [Recipients -> Grants] /\ \A r \in Recipients : Fits(r, grant[r])
    BY DEF Fitting, GrantsFit
  <2>2. grant' \in [Recipients -> Grants] /\ grant'[q] = g
        /\ \A r \in Recipients \ {q} : grant'[r] = grant[r]
    BY <1>2, <2>1
  <2>3. Fits(q, g) /\ grant[q].candidates \subseteq g.candidates
    BY <1>2 DEF Rewrites
  <2>4. \A r \in Recipients : Fits(r, grant'[r])
    BY <2>1, <2>2, <2>3
  <2>5. GrantsFit'
    BY <2>2, <2>4 DEF GrantsFit, Fits
  <2> QED
    BY <2>2, <2>3, <2>5
<1> QED
  BY <1>1, <1>2 DEF GrantStep

-----------------------------------------------------------------------------
(* What a step may make of a request *)

RequestStep ==
  \/ worker' = worker
  \/ \E w \in Workers, q \in Requests :
       /\ worker' = [worker EXCEPT ![w] = q] /\ RequestFits(q)
       /\ q.at = "send" => q.tx \in grant'[q.to].candidates

LEMMA IdleFits == RequestFits(Idle) /\ Idle.at = "idle"
<1>1. NoGrant \in Grants
  BY PolicyAssumption DEF NoGrant, Grants, Statuses
<1> QED
  BY <1>1 DEF Idle, Requests, RequestFits

\* A request that ends leaves its process idle.
LEMMA DoneStep ==
  ASSUME NEW w \in Workers, Done(w)
  PROVE  RequestStep
  BY IdleFits DEF Done, RequestStep, RequestFits

\* The next nonce of the signer is a natural number.
LEMMA PendingNonceType ==
  ASSUME Fitting, NEW n \in PendingNonces
  PROVE  n \in Nat
<1>1. NextNonce \in Nat
  BY FinitelyManyBlocks DEF NextNonce, Signed, Fitting, RestFits
<1>2. Cardinality(sent) \in Nat
  BY FS_CardinalityType DEF Fitting, RestFits
<1> QED
  BY <1>1, <1>2 DEF PendingNonces

\* A request goes on to a step in which it holds no transaction.
Holding == {"record", "send"}
LEMMA MoveStep ==
  ASSUME Fitting, NEW w \in Workers, ~At(w, "idle"), NEW q \in Requests,
         q.to = worker[w].to, q.key = worker[w].key, q.at \notin Holding,
         worker' = [worker EXCEPT ![w] = q]
  PROVE  RequestStep
<1>1. RequestFits(worker[w])
  BY DEF Fitting, RequestsFit
<1>2. RequestFits(q)
  BY <1>1 DEF RequestFits, At, Holding
<1> QED
  BY <1>2 DEF RequestStep, Holding

LEMMA GoStep ==
  ASSUME Fitting, NEW w \in Workers, ~At(w, "idle"),
         NEW at \in {"load", "bookkeep", "lock", "start", "fail", "replace", "prepare", "unknown"},
         Go(w, at)
  PROVE  RequestStep
<1> DEFINE q == [worker[w] EXCEPT !.at = at]
<1>1. worker[w] \in Requests /\ worker \in [Workers -> Requests]
  BY DEF Fitting, RequestsFit
<1>2. q \in Requests /\ q.at = at /\ q.to = worker[w].to /\ q.key = worker[w].key
  BY <1>1 DEF Requests
<1>3. worker' = [worker EXCEPT ![w] = q]
  BY <1>1 DEF Go
<1> HIDE DEF q
<1> QED
  BY <1>2, <1>3, MoveStep DEF Holding

\* The request sees another row of its grant and goes on.
LEMMA SeeStep ==
  ASSUME Fitting, NEW w \in Workers, ~At(w, "idle"),
         NEW at \in {"lock", "replace", "prepare", "unknown"}, NEW seen \in Grants,
         worker' = [worker EXCEPT ![w].at = at, ![w].seen = seen]
  PROVE  RequestStep
<1> DEFINE q == [worker[w] EXCEPT !.at = at, !.seen = seen]
<1>1. worker[w] \in Requests /\ worker \in [Workers -> Requests]
  BY DEF Fitting, RequestsFit
<1>2. q \in Requests /\ q.at = at /\ q.to = worker[w].to /\ q.key = worker[w].key
  BY <1>1 DEF Requests
<1>3. worker' = [worker EXCEPT ![w] = q]
  BY <1>1
<1> HIDE DEF q
<1> QED
  BY <1>2, <1>3, MoveStep DEF Holding

LEMMA ProceedStep ==
  ASSUME Fitting, NEW w \in Workers, ~At(w, "idle"), NEW g \in Grants, Proceed(w, g)
  PROVE  RequestStep
<1>1. CASE Done(w)
  BY <1>1, DoneStep
<1>2. CASE worker' = [worker EXCEPT ![w].seen = g, ![w].at = Compare(w, g)]
           /\ Compare(w, g) # "queued"
  <2>1. Compare(w, g) \in {"replace", "prepare", "unknown"}
    BY <1>2 DEF Compare
  <2>2. worker' = [worker EXCEPT ![w].at = Compare(w, g), ![w].seen = g]
    BY <1>2 DEF Fitting, RequestsFit, Requests
  <2> QED
    BY <2>1, <2>2, SeeStep
<1> QED
  BY <1>1, <1>2 DEF Proceed

\* The steps of a request, one after the other.
LEMMA AskStep ==
  ASSUME Fitting, NEW w \in Workers, NEW r \in Recipients, NEW k \in Keys, Ask(w, r, k)
  PROVE  RequestStep
<1> DEFINE q == [Idle EXCEPT !.at = "reserve", !.to = r, !.key = k]
<1>1. NoGrant \in Grants
  BY PolicyAssumption DEF NoGrant, Grants, Statuses
<1>2. q \in Requests /\ q.at = "reserve" /\ q.to = r /\ q.key = k
  BY <1>1 DEF Idle, Requests
<1>3. RequestFits(q)
  BY <1>2 DEF RequestFits
<1> QED
  BY <1>2, <1>3 DEF Ask, RequestStep

LEMMA ReserveStep ==
  ASSUME Fitting, NEW w \in Workers,
         \/ Reserve(w) \/ RecordFailure(w) \/ \E retry \in BOOLEAN : FailReservation(w, retry)
  PROVE  RequestStep
<1>1. CASE Done(w)
  BY <1>1, DoneStep
<1>2. CASE Reserve(w) /\ (Go(w, "load") \/ Go(w, "bookkeep"))
  BY <1>2, GoStep DEF Reserve, At
<1>3. ASSUME NEW retry \in BOOLEAN, FailReservation(w, retry) PROVE RequestStep
  <2> DEFINE q == [worker[w] EXCEPT !.at = "bookkeep", !.retry = retry]
  <2>1. worker[w] \in Requests /\ worker \in [Workers -> Requests]
    BY DEF Fitting, RequestsFit
  <2>2. q \in Requests /\ q.at = "bookkeep" /\ q.to = worker[w].to /\ q.key = worker[w].key
    BY <2>1 DEF Requests
  <2>3. worker' = [worker EXCEPT ![w] = q]
    BY <1>3, <2>1 DEF FailReservation
  <2>4. ~At(w, "idle")
    BY <1>3 DEF FailReservation, At
  <2> HIDE DEF q
  <2> QED
    BY <2>2, <2>3, <2>4, MoveStep DEF Holding
<1>4. CASE RecordFailure(w)
  BY <1>1, <1>4 DEF RecordFailure
<1> QED
  BY <1>1, <1>2, <1>3, <1>4 DEF Reserve

LEMMA LoadStep ==
  ASSUME Fitting, NEW w \in Workers, Load(w)
  PROVE  RequestStep
<1>1. CASE Done(w)
  BY <1>1, DoneStep
<1>2. CASE worker' = [worker EXCEPT ![w].at = "lock", ![w].seen = grant[worker[w].to]]
  <2>1. worker[w].to \in Recipients /\ ~At(w, "idle")
    BY DEF Load, At, Fitting, RequestsFit, RequestFits
  <2>2. grant[worker[w].to] \in Grants
    BY <2>1 DEF Fitting, GrantsFit
  <2> QED
    BY <1>2, <2>1, <2>2, SeeStep
<1> QED
  BY <1>1, <1>2 DEF Load

LEMMA LockStep ==
  ASSUME Fitting, NEW w \in Workers, TakeSignerLock(w)
  PROVE  RequestStep
<1>1. CASE Done(w)
  BY <1>1, DoneStep
<1>2. ASSUME NEW n \in PendingNonces,
             worker' = [worker EXCEPT ![w].at = "start", ![w].nonce = n]
      PROVE  RequestStep
  <2> DEFINE q == [worker[w] EXCEPT !.at = "start", !.nonce = n]
  <2>1. worker[w] \in Requests /\ worker \in [Workers -> Requests] /\ n \in Nat
    BY PendingNonceType DEF Fitting, RequestsFit
  <2>2. q \in Requests /\ q.at = "start" /\ q.to = worker[w].to /\ q.key = worker[w].key
    BY <2>1 DEF Requests
  <2>3. worker' = [worker EXCEPT ![w] = q]
    BY <1>2, <2>1
  <2>4. ~At(w, "idle")
    BY DEF TakeSignerLock, At
  <2> HIDE DEF q
  <2> QED
    BY <2>2, <2>3, <2>4, MoveStep DEF Holding
<1> QED
  BY <1>1, <1>2 DEF TakeSignerLock

LEMMA StartStep ==
  ASSUME Fitting, NEW w \in Workers, StartSubmission(w)
  PROVE  RequestStep
<1> DEFINE r == worker[w].to
           started == [grant[r] EXCEPT !.status = "submission_started",
                                       !.nonce = worker[w].nonce]
<1>1. r \in Recipients /\ ~At(w, "idle")
  BY DEF StartSubmission, At, Fitting, RequestsFit, RequestFits
<1>2. grant[r] \in Grants /\ worker[w].seen \in Grants /\ worker[w].nonce \in Nat \cup {-1}
  BY <1>1 DEF Fitting, GrantsFit, RequestsFit, Requests
<1>3. started \in Grants
  BY <1>2 DEF Grants, Statuses
<1>4. CASE Done(w)
  BY <1>4, DoneStep
<1>5. CASE Proceed(w, worker[w].seen) \/ Proceed(w, grant[r]) \/ Proceed(w, started)
  BY <1>1, <1>2, <1>3, <1>5, ProceedStep
<1> QED
  BY <1>4, <1>5 DEF StartSubmission

LEMMA EndingStep ==
  ASSUME Fitting, NEW w \in Workers,
         \/ SwitchOff(w) \/ MarkFailed(w) \/ MarkReplaced(w) \/ MarkTransferResult(w)
         \/ Ambiguous(w) \/ LoseLocks(w) \/ \E dies \in BOOLEAN : EndRequest(w, dies)
  PROVE  RequestStep
<1>1. CASE Done(w)
  BY <1>1, DoneStep
<1>2. CASE SwitchOff(w) /\ Go(w, "fail")
  BY <1>2, GoStep DEF SwitchOff, At
<1>3. CASE Ambiguous(w)
  BY <1>3, GoStep DEF Ambiguous, At
<1>4. CASE LoseLocks(w)
  BY <1>4 DEF LoseLocks, RequestStep
<1> QED
  BY <1>1, <1>2, <1>3, <1>4 DEF SwitchOff, MarkFailed, MarkReplaced, MarkTransferResult,
                                EndRequest

\* What is prepared pays the recipient, whether it is signed now or was sent by
\* this process before.
LEMMA PrepareStep ==
  ASSUME Fitting, NEW w \in Workers, NEW f \in Fees, Prepare(w, f)
  PROVE  RequestStep
<1> DEFINE With(tx) == [worker[w] EXCEPT !.at = "record", !.tx = tx]
<1>1. worker[w] \in Requests /\ worker \in [Workers -> Requests]
      /\ worker[w].to \in Recipients /\ worker[w].key \in Keys
  BY DEF Prepare, At, Fitting, RequestsFit, RequestFits
<1>2. PICK tx \in TxsTo(worker[w].to) :
        worker' = [worker EXCEPT ![w].at = "record", ![w].tx = tx]
  <2>1. CASE /\ cached[w][worker[w].to] # NoTx
             /\ worker' = [worker EXCEPT ![w].at = "record", ![w].tx = cached[w][worker[w].to]]
    BY <1>1, <2>1 DEF Fitting, CachesFit
  <2>2. CASE /\ worker[w].seen.nonce \in PendingNonces
             /\ worker' = [worker EXCEPT ![w].at = "record",
                             ![w].tx = [to |-> worker[w].to, nonce |-> worker[w].seen.nonce,
                                        fee |-> f]]
    <3>1. worker[w].seen.nonce \in Nat
      BY <2>2, PendingNonceType
    <3> QED
      BY <2>2, <3>1 DEF TxsTo
  <2> QED
    BY <2>1, <2>2 DEF Prepare
<1>3. tx \in Txs
  BY <1>1 DEF TxsTo, Txs
<1>4. /\ With(tx) \in Requests /\ With(tx).at = "record" /\ With(tx).tx = tx
      /\ With(tx).to = worker[w].to /\ With(tx).key = worker[w].key
  BY <1>1, <1>3 DEF Requests
<1>5. worker' = [worker EXCEPT ![w] = With(tx)]
  BY <1>1, <1>2
<1> HIDE DEF With
<1>6. RequestFits(With(tx))
  BY <1>1, <1>2, <1>4 DEF RequestFits
<1> QED
  BY <1>4, <1>5, <1>6 DEF RequestStep

\* Only a transaction that is recorded goes on to be sent.
LEMMA RecordStep ==
  ASSUME Fitting, NEW w \in Workers, MarkTransactionPrepared(w)
  PROVE  RequestStep
<1> DEFINE r == worker[w].to
           tx == worker[w].tx
           seen == Recorded(grant[r], tx)
           q == [worker[w] EXCEPT !.at = "send", !.seen = seen]
<1>1. CASE Done(w)
  BY <1>1, DoneStep
<1>2. CASE Go(w, "unknown")
  BY <1>2, GoStep DEF MarkTransactionPrepared, At
<1>3. CASE /\ worker' = [worker EXCEPT ![w].at = "send", ![w].seen = seen]
           /\ \/ tx = grant[r].tx /\ UNCHANGED grant
              \/ Write(r, seen)
  <2>1. /\ worker[w] \in Requests /\ worker \in [Workers -> Requests]
        /\ r \in Recipients /\ worker[w].key \in Keys /\ tx \in TxsTo(r)
    BY DEF MarkTransactionPrepared, At, Fitting, RequestsFit, RequestFits
  <2>2. tx \in Txs /\ tx # NoTx
    BY <2>1, NamesAssumption DEF TxsTo, Txs
  <2>3. grant \in [Recipients -> Grants] /\ Fits(r, grant[r])
    BY <2>1 DEF Fitting, GrantsFit
  <2>4. seen \in Grants /\ tx \in seen.candidates
    BY <2>2, <2>3 DEF Recorded, Grants, Fits
  <2>5. tx \in grant'[r].candidates
    <3>1. CASE tx = grant[r].tx /\ UNCHANGED grant
      BY <2>2, <2>3, <3>1 DEF Fits
    <3>2. CASE Write(r, seen)
      BY <2>1, <2>3, <2>4, <3>2 DEF Write
    <3> QED
      BY <1>3, <3>1, <3>2
  <2> HIDE DEF seen
  <2>6. /\ q \in Requests /\ q.at = "send" /\ q.to = r /\ q.key = worker[w].key /\ q.tx = tx
    BY <2>1, <2>4 DEF Requests
  <2>7. worker' = [worker EXCEPT ![w] = q]
    BY <1>3, <2>1
  <2> HIDE DEF q
  <2>8. RequestFits(q)
    BY <2>1, <2>6 DEF RequestFits
  <2> QED
    BY <2>5, <2>6, <2>7, <2>8 DEF RequestStep
<1> QED
  BY <1>1, <1>2, <1>3 DEF MarkTransactionPrepared

LEMMA SubmitStep ==
  ASSUME Fitting, NEW w \in Workers, NEW taken \in BOOLEAN, Submit(w, taken)
  PROVE  RequestStep
<1>1. ~At(w, "idle") /\ Go(w, "unknown")
  BY DEF Submit, At, Go
<1> QED
  BY <1>1, GoStep

LEMMA EveryRequest ==
  ASSUME Fitting, [Next]_vars
  PROVE  RequestStep
<1>1. ASSUME NEW w \in Workers, Request(w) PROVE RequestStep
  <2>1. CASE \E r \in Recipients, k \in Keys : Ask(w, r, k)
    BY <2>1, AskStep
  <2>2. CASE Reserve(w) \/ RecordFailure(w) \/ \E retry \in BOOLEAN : FailReservation(w, retry)
    BY <2>2, ReserveStep
  <2>3. CASE Load(w) \/ TakeSignerLock(w)
    BY <2>3, LoadStep, LockStep
  <2>4. CASE StartSubmission(w) \/ MarkTransactionPrepared(w) \/ \E f \in Fees : Prepare(w, f)
    BY <2>4, StartStep, RecordStep, PrepareStep
  <2>5. CASE \E taken \in BOOLEAN : Submit(w, taken)
    BY <2>5, SubmitStep
  <2>6. CASE \/ SwitchOff(w) \/ MarkFailed(w) \/ MarkReplaced(w) \/ MarkTransferResult(w)
             \/ Ambiguous(w) \/ LoseLocks(w) \/ \E dies \in BOOLEAN : EndRequest(w, dies)
    BY <2>6, EndingStep
  <2> QED
    BY <1>1, <2>1, <2>2, <2>3, <2>4, <2>5, <2>6 DEF Request
<1>2. CASE Environment \/ Reconcile \/ UNCHANGED vars
  BY <1>2 DEF Environment, MineEmpty, SignElsewhere, Reorganise, Include, Mine, Reconcile,
              ListCandidates, Look, MarkCanonicalOutcome, vars, RequestStep
<1> QED
  BY <1>1, <1>2 DEF Next

\* What a request carries still fits, also into grants that others have written.
LEMMA RequestsStayFit ==
  ASSUME Fitting, RequestStep,
         \A r \in Recipients : grant[r].candidates \subseteq grant'[r].candidates
  PROVE  RequestsFit'
<1>1. /\ worker \in [Workers -> Requests]
      /\ \A w \in Workers : RequestFits(worker[w]) /\ Recording(worker[w])
  BY DEF Fitting, RequestsFit
<1>2. \A w \in Workers : worker[w].at = "send"
                           => worker[w].tx \in grant'[worker[w].to].candidates
  BY <1>1 DEF RequestFits, Recording
<1>3. CASE worker' = worker
  BY <1>1, <1>2, <1>3 DEF RequestsFit, RequestFits, Recording
<1>4. ASSUME NEW v \in Workers, NEW q \in Requests, worker' = [worker EXCEPT ![v] = q],
             RequestFits(q), q.at = "send" => q.tx \in grant'[q.to].candidates
      PROVE  RequestsFit'
  <2>1. worker' \in [Workers -> Requests]
    BY <1>1, <1>4
  <2>2. \A w \in Workers : RequestFits(worker'[w])
    BY <1>1, <1>4
  <2>3. \A w \in Workers : worker'[w].at = "send"
                             => worker'[w].tx \in grant'[worker'[w].to].candidates
    BY <1>1, <1>2, <1>4
  <2> QED
    BY <2>1, <2>2, <2>3 DEF RequestsFit, RequestFits, Recording
<1> QED
  BY <1>3, <1>4 DEF RequestStep

-----------------------------------------------------------------------------
(* The other variables *)

LEMMA CachesStayFit ==
  ASSUME Fitting, [Next]_vars
  PROVE  CachesFit'
<1>1. CASE UNCHANGED cached
  BY <1>1 DEF Fitting, CachesFit
<1>2. ASSUME NEW w \in Workers, NEW taken \in BOOLEAN, Submit(w, taken)
      PROVE  CachesFit'
  <2>1. worker[w].to \in Recipients /\ worker[w].tx \in TxsTo(worker[w].to)
    BY <1>2 DEF Submit, At, Fitting, RequestsFit, RequestFits
  <2>2. worker[w].tx \in Txs
    BY <2>1 DEF TxsTo, Txs
  <2>3. CASE cached' = [cached EXCEPT ![w][worker[w].to] = worker[w].tx]
    BY <2>1, <2>2, <2>3 DEF Fitting, CachesFit
  <2> QED
    BY <1>1, <1>2, <2>3 DEF Submit
<1>3. ASSUME NEW w \in Workers, NEW dies \in BOOLEAN, EndRequest(w, dies)
      PROVE  CachesFit'
  <2>1. CASE cached' = [cached EXCEPT ![w] = [r \in Recipients |-> NoTx]]
    BY <2>1 DEF Fitting, CachesFit
  <2> QED
    BY <1>1, <1>3, <2>1 DEF EndRequest
<1>4. ASSUME NEW w \in Workers, Request(w) PROVE CachesFit'
  <2>1. \/ UNCHANGED cached
        \/ \E taken \in BOOLEAN : Submit(w, taken)
        \/ \E dies \in BOOLEAN : EndRequest(w, dies)
    BY <1>4 DEF Request, Ask, Reserve, RecordFailure, Load, TakeSignerLock, FailReservation,
                StartSubmission, SwitchOff, MarkFailed, MarkReplaced, Prepare,
                MarkTransactionPrepared, MarkTransferResult, Ambiguous, LoseLocks
  <2> QED
    BY <1>1, <1>2, <1>3, <2>1
<1>5. CASE Environment \/ Reconcile \/ UNCHANGED vars
  BY <1>1, <1>5 DEF Environment, MineEmpty, SignElsewhere, Reorganise, Include, Mine, Reconcile,
                    ListCandidates, Look, MarkCanonicalOutcome, vars
<1> QED
  BY <1>4, <1>5 DEF Next

\* What the reconciler sees of the chain has the type it writes.
Blocks == [id : Nat \ {0}, tx : Txs \cup {NoTx}, ok : BOOLEAN]
\* A block of the chain has the type of a block.
LEMMA BlockType ==
  ASSUME Fitting, NEW h \in DOMAIN chain
  PROVE  h \in 1..Len(chain) /\ Len(chain) \in Nat /\ chain[h] \in Blocks
<1>1. chain \in Seq(Blocks)
  BY DEF Fitting, RestFits, Blocks
<1> QED
  BY <1>1

LEMMA VerdictType ==
  ASSUME Fitting, NEW row
  PROVE  /\ Verdict(row).outcome \in {"pending", "throws", "confirmed", "failed", "orphaned"}
         /\ Verdict(row).id \in Nat /\ Verdict(row).height \in Nat
         /\ Verdict(row).outcome = "failed" => Verdict(row).id # 0
<1> DEFINE h == CHOOSE b \in Evidence(row) : TRUE
<1>1. CASE Evidence(row) # {}
  <2>1. h \in DOMAIN chain
    BY <1>1 DEF Evidence
  <2> HIDE DEF h
  <2>2. h \in Nat /\ chain[h].id \in Nat \ {0}
    BY <2>1, BlockType DEF Blocks
  <2>3. Settles(chain[h]) \in {"confirmed", "failed"}
    BY DEF Settles
  <2>4. Verdict(row) = IF Len(chain) - h + 1 < ConfirmationDepth THEN Nothing("pending")
                       ELSE [outcome |-> Settles(chain[h]), tx |-> chain[h].tx,
                             id |-> chain[h].id, height |-> h]
    BY <1>1 DEF Verdict, h
  <2> QED
    BY <2>2, <2>3, <2>4 DEF Nothing
<1>2. CASE Evidence(row) = {}
  BY <1>2 DEF Verdict, Nothing
<1> QED
  BY <1>1, <1>2

LEMMA ScanStaysFit ==
  ASSUME Fitting, [Next]_vars
  PROVE  ScanFits'
<1>1. CASE UNCHANGED scan
  BY <1>1 DEF Fitting, ScanFits
<1>2. ASSUME NEW list, scan' = [NoScan EXCEPT !.list = list]
      PROVE  ScanFits'
  BY <1>2 DEF NoScan, Nothing, ScanFits
<1>3. CASE scan' = NoScan
  BY <1>3 DEF NoScan, Nothing, ScanFits
<1>4. CASE Look
  <2> DEFINE v == Verdict(Head(scan.list).row)
  <2>1. /\ v.outcome \in {"pending", "throws", "confirmed", "failed", "orphaned"}
        /\ v.id \in Nat /\ v.height \in Nat /\ (v.outcome = "failed" => v.id # 0)
    BY VerdictType
  <2> HIDE DEF v
  <2>2. CASE scan' = [scan EXCEPT !.look = v] /\ v.outcome \notin {"pending", "throws"}
    BY <2>1, <2>2 DEF Fitting, ScanFits
  <2>3. \/ scan' = NoScan \/ scan' = [NoScan EXCEPT !.list = Tail(scan.list)]
        \/ scan' = [scan EXCEPT !.look = v] /\ v.outcome \notin {"pending", "throws"}
    BY <1>4 DEF Look, v
  <2> QED
    BY <1>2, <1>3, <2>2, <2>3
<1>5. CASE ListCandidates \/ MarkCanonicalOutcome
  BY <1>2, <1>3, <1>5 DEF ListCandidates, MarkCanonicalOutcome
<1>6. ASSUME NEW w \in Workers, Request(w) PROVE UNCHANGED scan
  BY <1>6 DEF Request, Ask, Reserve, RecordFailure, Load, TakeSignerLock, FailReservation,
              StartSubmission, SwitchOff, MarkFailed, MarkReplaced, Prepare, Submit,
              MarkTransactionPrepared, MarkTransferResult, Ambiguous, LoseLocks, EndRequest
<1>7. CASE Environment \/ UNCHANGED vars
  BY <1>1, <1>7 DEF Environment, MineEmpty, SignElsewhere, Reorganise, Include, Mine, vars
<1> QED
  BY <1>1, <1>4, <1>5, <1>6, <1>7 DEF Next, Reconcile

LockType ==
  recipientLock \in [Recipients -> Workers \cup {Nobody}] /\ signerLock \in Workers \cup {Nobody}
RecordType == record \in [Recipients -> [Keys -> KeyStatuses]] /\ granted \in 0..DailyCapWei
ChainType ==
  chain \in Seq(Blocks) /\ mined \in Nat /\ sent \subseteq Txs /\ IsFiniteSet(sent)

LEMMA LocksTyped ==
  ASSUME Fitting, [Next]_vars
  PROVE  LockType'
<1>1. LockType
  BY DEF LockType, Fitting, RestFits
<1>2. CASE UNCHANGED locks
  BY <1>1, <1>2 DEF LockType, locks
<1>3. ASSUME NEW w \in Workers, Release(w) PROVE LockType'
  BY <1>1, <1>3 DEF LockType, Release
<1>4. ASSUME NEW w \in Workers, Request(w) PROVE LockType'
  <2>1. \/ UNCHANGED locks \/ Release(w)
        \/ \E r \in Recipients, k \in Keys : Ask(w, r, k)
        \/ TakeSignerLock(w)
    BY <1>4 DEF Request, Reserve, RecordFailure, Load, FailReservation, StartSubmission,
                SwitchOff, MarkFailed, MarkReplaced, Prepare, Submit, MarkTransactionPrepared,
                MarkTransferResult, Ambiguous, LoseLocks, EndRequest, Done, Proceed
  <2>2. CASE \E r \in Recipients, k \in Keys : Ask(w, r, k)
    BY <1>1, <2>2 DEF Ask, LockType
  <2>3. CASE TakeSignerLock(w)
    BY <1>1, <1>3, <2>3 DEF TakeSignerLock, LockType, Done
  <2> QED
    BY <1>2, <1>3, <2>1, <2>2, <2>3
<1>5. CASE Environment \/ Reconcile \/ UNCHANGED vars
  BY <1>2, <1>5 DEF Environment, MineEmpty, SignElsewhere, Reorganise, Include, Mine, Reconcile,
                    ListCandidates, Look, MarkCanonicalOutcome, vars, locks
<1> QED
  BY <1>4, <1>5 DEF Next

LEMMA RecordsTyped ==
  ASSUME Fitting, [Next]_vars
  PROVE  RecordType'
<1>1. RecordType
  BY DEF RecordType, Fitting, RestFits
<1>2. CASE UNCHANGED <<granted, record>>
  BY <1>1, <1>2 DEF RecordType
<1>3. ASSUME NEW w \in Workers, Reserve(w) \/ RecordFailure(w) PROVE RecordType'
  <2>1. worker[w].to \in Recipients /\ worker[w].key \in Keys
    BY <1>3 DEF Reserve, RecordFailure, At, Fitting, RequestsFit, RequestFits
  <2>2. ASSUME NEW status \in KeyStatuses,
               record' = [record EXCEPT ![worker[w].to][worker[w].key] = status]
        PROVE  record' \in [Recipients -> [Keys -> KeyStatuses]]
    BY <1>1, <2>1, <2>2 DEF RecordType
  <2>3. CASE Reserve(w)
    <3>1. AmountFor(worker[w].to) \in Int /\ AmountFor(worker[w].to) <= CapWei
      BY <2>1, AmountType
    <3>2. granted' \in 0..DailyCapWei
      BY <1>1, <2>3, <3>1, PolicyAssumption DEF Reserve, RecordType, rows
    <3>3. UNCHANGED record
            \/ record' = [record EXCEPT ![worker[w].to][worker[w].key] = "completed"]
      BY <2>3 DEF Reserve, rows
    <3>4. "completed" \in KeyStatuses
      BY DEF KeyStatuses
    <3> QED
      BY <1>1, <2>2, <3>2, <3>3, <3>4 DEF RecordType
  <2>4. CASE RecordFailure(w)
    <3>1. record[worker[w].to][worker[w].key] \in KeyStatuses
      BY <1>1, <2>1 DEF RecordType
    <3>2. Outcome(record[worker[w].to][worker[w].key], worker[w].retry) \in KeyStatuses
      BY <3>1 DEF Outcome, KeyStatuses
    <3> QED
      BY <1>1, <2>2, <2>4, <3>2 DEF RecordFailure, RecordType
  <2> QED
    BY <1>3, <2>3, <2>4
<1>4. ASSUME NEW w \in Workers, Request(w)
      PROVE  UNCHANGED <<granted, record>> \/ Reserve(w) \/ RecordFailure(w)
  BY <1>4 DEF Request, Ask, Load, TakeSignerLock, FailReservation, StartSubmission, SwitchOff,
              MarkFailed, MarkReplaced, Prepare, Submit, MarkTransactionPrepared,
              MarkTransferResult, Ambiguous, LoseLocks, EndRequest, rows
<1>5. CASE Environment \/ Reconcile \/ UNCHANGED vars
  BY <1>2, <1>5 DEF Environment, MineEmpty, SignElsewhere, Reorganise, Include, Mine, Reconcile,
                    ListCandidates, Look, MarkCanonicalOutcome, vars, rows
<1> QED
  BY <1>2, <1>3, <1>4, <1>5 DEF Next

\* How a step may change the chain and what its nodes hold.
ChainStep ==
  \/ UNCHANGED <<chain, mined, sent>>
  \/ \E t \in Txs, ok \in BOOLEAN :
       /\ t \in sent \/ t.to = Outside
       /\ t.nonce = NextNonce /\ Mine(t, ok)
  \/ Mine(NoTx, TRUE)
  \/ /\ \E h \in 0..(Len(chain) - 1) : chain' = SubSeq(chain, 1, h)
     /\ UNCHANGED <<mined, sent>>
  \/ \E w \in Workers :
       worker[w].at = "send" /\ sent' = sent \cup {worker[w].tx} /\ UNCHANGED <<chain, mined>>

LEMMA EveryChainStep ==
  ASSUME Fitting, [Next]_vars
  PROVE  ChainStep
<1>1. CASE \E ok \in BOOLEAN : Include(ok)
  BY <1>1 DEF Include, ChainStep, Fitting, RestFits
<1>2. CASE SignElsewhere
  <2>1. PICK f \in Fees : Mine([to |-> Outside, nonce |-> NextNonce, fee |-> f], TRUE)
    BY <1>2 DEF SignElsewhere
  <2>2. NextNonce \in Nat
    BY FinitelyManyBlocks DEF NextNonce, Signed, Fitting, RestFits
  <2>3. [to |-> Outside, nonce |-> NextNonce, fee |-> f] \in Txs
    BY <2>2 DEF Txs
  <2> QED
    BY <2>1, <2>3 DEF ChainStep
<1>3. CASE MineEmpty
  BY <1>3 DEF MineEmpty, ChainStep
<1>4. CASE Reorganise
  BY <1>4 DEF Reorganise, ChainStep
<1>5. ASSUME NEW w \in Workers, Request(w) PROVE ChainStep
  <2>1. CASE \E taken \in BOOLEAN : Submit(w, taken)
    BY <2>1 DEF Submit, At, ChainStep
  <2>2. UNCHANGED arb \/ \E taken \in BOOLEAN : Submit(w, taken)
    BY <1>5 DEF Request, Ask, Reserve, RecordFailure, Load, TakeSignerLock, FailReservation,
                StartSubmission, SwitchOff, MarkFailed, MarkReplaced, Prepare,
                MarkTransactionPrepared, MarkTransferResult, Ambiguous, LoseLocks, EndRequest,
                arb
  <2> QED
    BY <2>1, <2>2 DEF ChainStep, arb
<1>6. CASE Reconcile \/ UNCHANGED vars
  BY <1>6 DEF Reconcile, ListCandidates, Look, MarkCanonicalOutcome, vars, arb, ChainStep
<1> QED
  BY <1>1, <1>2, <1>3, <1>4, <1>5, <1>6 DEF Next, Environment

LEMMA ChainTyped ==
  ASSUME Fitting, ChainStep
  PROVE  ChainType'
<1>1. ChainType
  BY DEF ChainType, Fitting, RestFits, Blocks
<1>2. ASSUME NEW t \in Txs \cup {NoTx}, NEW ok \in BOOLEAN, Mine(t, ok) PROVE ChainType'
  <2>1. [id |-> mined + 1, tx |-> t, ok |-> ok] \in Blocks
    BY <1>1 DEF ChainType, Blocks
  <2>2. chain' \in Seq(Blocks)
    BY <1>1, <1>2, <2>1 DEF ChainType, Mine
  <2> QED
    BY <1>1, <1>2, <2>2 DEF ChainType, Mine, Blocks
<1>3. ASSUME NEW h \in 0..(Len(chain) - 1), chain' = SubSeq(chain, 1, h),
             UNCHANGED <<mined, sent>>
      PROVE  ChainType'
  <2>1. chain' \in Seq(Blocks)
    BY <1>1, <1>3 DEF ChainType
  <2> QED
    BY <1>1, <1>3, <2>1 DEF ChainType, Blocks
<1>4. ASSUME NEW w \in Workers, worker[w].at = "send", sent' = sent \cup {worker[w].tx},
             UNCHANGED <<chain, mined>>
      PROVE  ChainType'
  <2>1. worker[w].tx \in Txs
    BY <1>4 DEF Fitting, RequestsFit, RequestFits, TxsTo, Txs
  <2>2. IsFiniteSet(sent')
    BY <1>1, <1>4, FS_AddElement DEF ChainType
  <2> QED
    BY <1>1, <1>4, <2>1, <2>2 DEF ChainType, Blocks
<1>5. CASE UNCHANGED <<chain, mined, sent>>
  BY <1>1, <1>5 DEF ChainType, Blocks
<1> QED
  BY <1>2, <1>3, <1>4, <1>5 DEF ChainStep

-----------------------------------------------------------------------------
(* Types *)

LEMMA InitFits == Init => Fitting
<1> SUFFICES ASSUME Init PROVE Fitting
  OBVIOUS
<1>1. NoGrant \in Grants
  BY PolicyAssumption DEF NoGrant, Grants, Statuses
<1>2. GrantsFit
  BY <1>1, NoGrantFits DEF Init, GrantsFit
<1>3. RequestsFit
  BY <1>1, IdleFits DEF Init, RequestsFit, RequestFits, Recording
<1>4. CachesFit
  BY DEF Init, CachesFit
<1>5. ScanFits
  BY DEF Init, ScanFits, NoScan, Nothing
<1>6. RestFits
  BY FS_EmptySet, PolicyAssumption DEF Init, RestFits, KeyStatuses
<1> QED
  BY <1>2, <1>3, <1>4, <1>5, <1>6 DEF Fitting

LEMMA NextFits == Fitting /\ [Next]_vars => Fitting'
<1> SUFFICES ASSUME Fitting, [Next]_vars PROVE Fitting'
  OBVIOUS
<1>1. GrantsFit' /\ \A r \in Recipients : grant[r].candidates \subseteq grant'[r].candidates
  BY EveryWrite, WritesFit
<1>2. RequestsFit'
  BY <1>1, EveryRequest, RequestsStayFit
<1>3. LockType' /\ RecordType' /\ ChainType'
  BY LocksTyped, RecordsTyped, EveryChainStep, ChainTyped
<1>4. RestFits'
  BY <1>3 DEF LockType, RecordType, ChainType, Blocks, RestFits
<1> QED
  BY <1>1, <1>2, <1>4, CachesStayFit, ScanStaysFit DEF Fitting

LEMMA FittingTyped == Fitting => TypeOK
  BY DEF Fitting, GrantsFit, Fits, RequestsFit, CachesFit, RestFits, TypeOK

LEMMA AlwaysFitting == Spec => []Fitting
<1>1. Init => Fitting
  BY InitFits
<1>2. Fitting /\ [Next]_vars => Fitting'
  BY NextFits
<1> QED
  BY <1>1, <1>2, PTL DEF Spec

\* Every variable keeps its type, and the hashes in a row of bootstrap_grants
\* are of transfers to its recipient under its nonce and never more than the
\* table takes, whatever processes, locks and reorganisations do
\* (sponsor-grants.ts, markTransactionPrepared).
THEOREM TypeCorrect == Spec => []TypeOK
  BY AlwaysFitting, FittingTyped, PTL

-----------------------------------------------------------------------------
(* Nonces, broadcasts and keys *)

\* Every transfer that a node took is recorded for a wallet.
SentFits == \A t \in sent : t.to \in Recipients /\ t \in grant[t.to].candidates

LEMMA NextNoncePerGrant ==
  ASSUME Fitting, GrantStep, NoncePerGrant
  PROVE  NoncePerGrant'
<1>1. CASE grant' = grant
  BY <1>1 DEF NoncePerGrant
<1>2. ASSUME NEW p \in Recipients, NEW g \in Grants, grant' = [grant EXCEPT ![p] = g],
             Rewrites(p, g)
      PROVE  NoncePerGrant'
  <2>1. grant'[p] = g /\ \A r \in Recipients \ {p} : grant'[r] = grant[r]
    BY <1>2 DEF Fitting, GrantsFit
  <2>2. \A q \in Recipients \ {p} : grant[q].nonce # -1 => grant[q].nonce # g.nonce
    BY <1>2 DEF Rewrites, Claimed, NoncePerGrant
  <2>3. \A q \in Recipients \ {p} : g.nonce # -1 => grant[q].nonce # g.nonce
    BY <1>2 DEF Rewrites, Claimed, NoncePerGrant
  <2> QED
    BY <2>1, <2>2, <2>3 DEF NoncePerGrant
<1> QED
  BY <1>1, <1>2 DEF GrantStep

LEMMA NextSentFits ==
  ASSUME Fitting, SentFits, ChainStep,
         \A r \in Recipients : grant[r].candidates \subseteq grant'[r].candidates
  PROVE  SentFits'
<1>1. CASE sent' = sent
  BY <1>1 DEF SentFits
<1>2. ASSUME NEW w \in Workers, worker[w].at = "send", sent' = sent \cup {worker[w].tx}
      PROVE  SentFits'
  <2>1. /\ worker[w].to \in Recipients /\ worker[w].tx \in TxsTo(worker[w].to)
        /\ worker[w].tx \in grant[worker[w].to].candidates
    BY <1>2 DEF Fitting, RequestsFit, RequestFits, Recording
  <2>2. worker[w].tx.to = worker[w].to
    BY <2>1 DEF TxsTo
  <2> QED
    BY <1>2, <2>1, <2>2 DEF SentFits
<1> QED
  BY <1>1, <1>2 DEF ChainStep, Mine

\* Nonces and broadcasts, on top of the types.
Sending == Fitting /\ NoncePerGrant /\ SentFits

LEMMA AlwaysSending == Spec => []Sending
<1>1. Init => Sending
  BY InitFits DEF Init, NoGrant, NoncePerGrant, SentFits, Sending
<1>2. Sending /\ [Next]_vars => Sending'
  <2> SUFFICES ASSUME Sending, [Next]_vars PROVE Sending'
    OBVIOUS
  <2>1. Fitting /\ Fitting' /\ GrantStep /\ ChainStep
    BY NextFits, EveryWrite, EveryChainStep DEF Sending
  <2>2. \A r \in Recipients : grant[r].candidates \subseteq grant'[r].candidates
    BY <2>1, WritesFit
  <2> QED
    BY <2>1, <2>2, NextNoncePerGrant, NextSentFits DEF Sending
<1> QED
  BY <1>1, <1>2, PTL DEF Spec

\* However stale the provider that was asked for the pending nonce, and whoever
\* lost the lock of the signer, no two grants wait for one nonce
\* (sponsor-grants.ts, markSubmissionStarted).
THEOREM NoncesNotShared == Spec => []NoncePerGrant
  BY AlwaysSending, PTL DEF Sending

\* Every transfer that a node took is found in the table by its hash, after a
\* crash between recording and broadcast as well as after a broadcast that two
\* processes repeat with other fees (sponsor.ts, prepareNativeTransfer).
THEOREM NothingUnrecorded == Spec => []SentIsRecorded
<1>1. Sending => SentIsRecorded
  BY DEF Sending, SentFits, SentIsRecorded
<1> QED
  BY <1>1, AlwaysSending, PTL

\* A grant is given up as replaced, or marked failed without a proof, only when
\* nothing was sent for it, although another process may be in the middle of the
\* same submission (sponsor-grants.ts, markReplaced and markFailed).
THEOREM GivingUpIsSafe == Spec => []GivenUpIsUnsent
<1>1. Sending => GivenUpIsUnsent
  BY DEF Sending, SentFits, Fitting, GrantsFit, Fits, GivenUpIsUnsent
<1> QED
  BY <1>1, AlwaysSending, PTL

\* The failure of an attempt under a key, recorded late, never hides that a
\* later attempt under the same key was granted (idempotency.ts, #recordFailure).
THEOREM GrantedKeysStay == Spec => CompletedKept
<1> DEFINE Kept == \A r \in Recipients, k \in Keys :
                     record[r][k] = "completed" => record'[r][k] = "completed"
<1>1. Fitting /\ [Next]_vars => Kept
  <2> SUFFICES ASSUME Fitting, [Next]_vars PROVE Kept
    OBVIOUS
  <2>1. record \in [Recipients -> [Keys -> KeyStatuses]]
    BY DEF Fitting, RestFits
  <2>2. CASE UNCHANGED record
    BY <2>2
  <2>3. ASSUME NEW w \in Workers, Reserve(w) PROVE Kept
    <3>1. UNCHANGED record
            \/ record' = [record EXCEPT ![worker[w].to][worker[w].key] = "completed"]
      BY <2>3 DEF Reserve, rows
    <3> QED
      BY <2>1, <3>1
  <2>4. ASSUME NEW w \in Workers, RecordFailure(w) PROVE Kept
    <3>1. record' = [record EXCEPT ![worker[w].to][worker[w].key]
                       = Outcome(record[worker[w].to][worker[w].key], worker[w].retry)]
      BY <2>4 DEF RecordFailure
    <3> QED
      BY <2>1, <3>1 DEF Outcome
  <2>5. ASSUME NEW w \in Workers, Request(w)
        PROVE  UNCHANGED record \/ Reserve(w) \/ RecordFailure(w)
    BY <2>5 DEF Request, Ask, Load, TakeSignerLock, FailReservation, StartSubmission, SwitchOff,
                MarkFailed, MarkReplaced, Prepare, Submit, MarkTransactionPrepared,
                MarkTransferResult, Ambiguous, LoseLocks, EndRequest, rows
  <2>6. CASE Environment \/ Reconcile \/ UNCHANGED vars
    BY <2>2, <2>6 DEF Environment, MineEmpty, SignElsewhere, Reorganise, Include, Mine,
                      Reconcile, ListCandidates, Look, MarkCanonicalOutcome, vars, rows
  <2> QED
    BY <2>2, <2>3, <2>4, <2>5, <2>6 DEF Next
<1> QED
  BY <1>1, AlwaysFitting, PTL DEF Spec, CompletedKept

-----------------------------------------------------------------------------
(* What the chain may hold *)

\* The blocks below h with a transaction of the sponsor's key.
Below(c, h) == {k \in 1..(h - 1) : c[k].tx # NoTx}

\* The nonce of a transaction is the number of those before it, and what pays
\* a wallet was sent.
NoncesInOrder ==
  \A h \in DOMAIN chain : chain[h].tx # NoTx =>
    /\ chain[h].tx.nonce = Cardinality(Below(chain, h))
    /\ chain[h].tx.to \in Recipients => chain[h].tx \in sent

\* Blocks are never mined twice.
BlocksInOrder ==
  /\ \A h \in DOMAIN chain : chain[h].id <= mined
  /\ \A g, h \in DOMAIN chain : g < h => chain[g].id < chain[h].id

LEMMA FinitelyManyBelow ==
  ASSUME NEW c, NEW h \in Nat
  PROVE  IsFiniteSet(Below(c, h)) /\ Cardinality(Below(c, h)) \in Nat
<1>1. IsFiniteSet(1..(h - 1)) /\ Below(c, h) \in SUBSET (1..(h - 1))
  BY FS_Interval DEF Below
<1> QED
  BY <1>1, FS_Subset, FS_CardinalityType

\* A new block does not change what is below the others; its transaction has
\* the next nonce.
LEMMA MinedInOrder ==
  ASSUME Fitting, NoncesInOrder, BlocksInOrder,
         NEW t \in Txs \cup {NoTx}, NEW ok \in BOOLEAN, Mine(t, ok),
         t # NoTx => t.nonce = NextNonce /\ (t.to \in Recipients => t \in sent)
  PROVE  NoncesInOrder' /\ BlocksInOrder'
<1> DEFINE n == Len(chain)
           b == [id |-> mined + 1, tx |-> t, ok |-> ok]
<1>1. chain \in Seq(Blocks) /\ n \in Nat /\ DOMAIN chain = 1..n /\ mined \in Nat
  BY DEF Fitting, RestFits, Blocks
<1>2. b \in Blocks
  BY <1>1 DEF Blocks
<1>3. /\ DOMAIN chain' = 1..(n + 1) /\ chain'[n + 1] = b
      /\ \A h \in 1..n : chain'[h] = chain[h]
  BY <1>1, <1>2 DEF Mine
<1>4. mined' = mined + 1 /\ sent' = sent
  BY DEF Mine
<1>5. \A h \in 1..n : Below(chain', h) = Below(chain, h)
  BY <1>1, <1>3 DEF Below
<1>6. Below(chain', n + 1) = Signed(chain)
  BY <1>1, <1>3 DEF Below, Signed
<1>7. NoncesInOrder'
  <2> SUFFICES ASSUME NEW h \in 1..(n + 1), chain'[h].tx # NoTx
               PROVE  /\ chain'[h].tx.nonce = Cardinality(Below(chain', h))
                      /\ chain'[h].tx.to \in Recipients => chain'[h].tx \in sent'
    BY <1>3 DEF NoncesInOrder
  <2>1. CASE h \in 1..n
    BY <1>1, <1>3, <1>4, <1>5, <2>1 DEF NoncesInOrder
  <2>2. CASE h = n + 1
    BY <1>3, <1>4, <1>6, <2>2 DEF NextNonce
  <2> QED
    BY <1>1, <2>1, <2>2
<1>8. BlocksInOrder'
  <2>1. \A h \in 1..n : chain[h].id \in Nat /\ chain[h].id <= mined
    BY <1>1, BlockType DEF BlocksInOrder, Blocks
  <2>2. b.id = mined + 1
    OBVIOUS
  <2> HIDE DEF b
  <2>3. ASSUME NEW h \in 1..(n + 1) PROVE chain'[h].id <= mined'
    <3>1. PICK k \in Nat : k = mined /\ mined' = k + 1
      BY <1>1, <1>4
    <3>2. CASE h \in 1..n
      <4>1. PICK x \in Nat : x = chain'[h].id /\ x <= k
        BY <1>3, <2>1, <3>1, <3>2
      <4> QED
        BY <3>1, <4>1
    <3>3. CASE h = n + 1
      BY <1>3, <2>2, <3>1, <3>3
    <3> QED
      BY <1>1, <3>2, <3>3
  <2>4. ASSUME NEW g \in 1..(n + 1), NEW h \in 1..(n + 1), g < h
        PROVE  chain'[g].id < chain'[h].id
    <3>1. g \in 1..n /\ chain'[g] = chain[g]
      <4>1. PICK k \in Nat : k = n
        BY <1>1
      <4>2. g \in 1..k
        BY <2>4, <4>1
      <4> QED
        BY <1>3, <4>1, <4>2
    <3>2. CASE h \in 1..n
      BY <1>1, <1>3, <2>4, <3>1, <3>2 DEF BlocksInOrder
    <3>3. CASE h = n + 1
      <4>1. chain'[h] = b
        BY <1>3, <3>3
      <4>2. PICK x \in Nat, k \in Nat : x = chain[g].id /\ k = mined /\ x <= k
        BY <1>1, <2>1, <3>1
      <4> QED
        BY <2>2, <3>1, <4>1, <4>2
    <3> QED
      BY <1>1, <3>2, <3>3
  <2> QED
    BY <1>3, <2>3, <2>4 DEF BlocksInOrder
<1> QED
  BY <1>7, <1>8

LEMMA ReorganisedInOrder ==
  ASSUME Fitting, NoncesInOrder, BlocksInOrder,
         NEW m \in 0..(Len(chain) - 1), chain' = SubSeq(chain, 1, m), UNCHANGED <<mined, sent>>
  PROVE  NoncesInOrder' /\ BlocksInOrder'
<1>1. chain \in Seq(Blocks) /\ Len(chain) \in Nat /\ DOMAIN chain = 1..Len(chain)
  BY DEF Fitting, RestFits, Blocks
<1>2. DOMAIN chain' = 1..m /\ \A h \in 1..m : chain'[h] = chain[h] /\ h \in DOMAIN chain
  BY <1>1
<1>3. \A h \in 1..m : Below(chain', h) = Below(chain, h)
  BY <1>1, <1>2 DEF Below
<1>4. NoncesInOrder'
  BY <1>2, <1>3 DEF NoncesInOrder
<1>5. BlocksInOrder'
  BY <1>2 DEF BlocksInOrder
<1> QED
  BY <1>4, <1>5

LEMMA NextInOrder ==
  ASSUME Fitting, NoncesInOrder, BlocksInOrder, ChainStep
  PROVE  NoncesInOrder' /\ BlocksInOrder'
<1>1. CASE UNCHANGED chain /\ UNCHANGED mined /\ sent \subseteq sent'
  BY <1>1 DEF NoncesInOrder, BlocksInOrder
<1>2. ASSUME NEW t \in Txs, NEW ok \in BOOLEAN, t \in sent \/ t.to = Outside,
             t.nonce = NextNonce, Mine(t, ok)
      PROVE  NoncesInOrder' /\ BlocksInOrder'
  <2>1. t.to \in Recipients => t \in sent
    BY <1>2, NamesAssumption
  <2> QED
    BY <1>2, <2>1, MinedInOrder
<1>3. CASE Mine(NoTx, TRUE)
  BY <1>3, MinedInOrder
<1> QED
  BY <1>1, <1>2, <1>3, ReorganisedInOrder DEF ChainStep

\* Two blocks with transactions of the key have different nonces.
LEMMA NoncesDiffer ==
  ASSUME Fitting, NoncesInOrder, NEW g \in DOMAIN chain, NEW h \in DOMAIN chain, g < h,
         chain[g].tx # NoTx, chain[h].tx # NoTx
  PROVE  chain[g].tx.nonce # chain[h].tx.nonce
<1> DEFINE below == Below(chain, g)
           upTo == below \cup {g}
<1>1. g \in Nat /\ h \in Nat /\ g >= 1
  BY BlockType
<1>2. IsFiniteSet(below) /\ Cardinality(below) \in Nat
      /\ IsFiniteSet(Below(chain, h)) /\ Cardinality(Below(chain, h)) \in Nat
  BY <1>1, FinitelyManyBelow
<1>3. g \notin below /\ upTo \in SUBSET Below(chain, h)
  BY <1>1 DEF Below
<1> HIDE DEF below
<1>4. Cardinality(upTo) = Cardinality(below) + 1
  BY <1>2, <1>3, FS_AddElement
<1>5. Cardinality(upTo) <= Cardinality(Below(chain, h))
  BY <1>2, <1>3, FS_Subset
<1>6. Cardinality(below) # Cardinality(Below(chain, h))
  BY <1>2, <1>4, <1>5
<1> QED
  BY <1>6 DEF NoncesInOrder, below

Chained == Sending /\ NoncesInOrder /\ BlocksInOrder

LEMMA AlwaysChained == Spec => []Chained
<1>1. Init => NoncesInOrder /\ BlocksInOrder
  BY DEF Init, NoncesInOrder, BlocksInOrder
<1>2. Sending /\ NoncesInOrder /\ BlocksInOrder /\ [Next]_vars
        => NoncesInOrder' /\ BlocksInOrder'
  BY EveryChainStep, NextInOrder DEF Sending
<1> QED
  BY <1>1, <1>2, AlwaysSending, PTL DEF Spec, Chained

\* What pays a wallet has the nonce of its grant, so there is one such block.
LEMMA ChainedOnce == Chained => FundedOnce
<1> SUFFICES ASSUME Chained, NEW r \in Recipients, NEW g \in DOMAIN chain,
                    NEW h \in DOMAIN chain, Pays(g, r), Pays(h, r)
             PROVE  g = h
  BY DEF FundedOnce
<1>1. Fitting /\ NoncesInOrder /\ SentFits
  BY DEF Chained, Sending
<1>2. g \in Nat /\ h \in Nat
  BY <1>1, BlockType
<1>3. ASSUME NEW b \in DOMAIN chain, Pays(b, r)
      PROVE  chain[b].tx # NoTx /\ chain[b].tx.nonce = grant[r].nonce
  <2>1. chain[b].tx # NoTx /\ chain[b].tx \in grant[r].candidates
    BY <1>1, <1>3 DEF Pays, NoncesInOrder, SentFits
  <2> QED
    BY <1>1, <2>1 DEF Fitting, GrantsFit, Fits
<1> QED
  BY <1>1, <1>2, <1>3, NoncesDiffer

\* Whatever locks are lost, processes die and transactions are signed again,
\* the key pays a wallet at most once on any branch of the chain (sponsor.ts,
\* execute; integrations/src/sponsor.ts, prepareActivationGas).
THEOREM OneGrantPerWallet == Spec => []FundedOnce
  BY AlwaysChained, ChainedOnce, PTL

-----------------------------------------------------------------------------
(* Confirmations *)

\* The block of that id, as long as it is there, holds the transaction and
\* succeeded.
PaidIn(c, last, id, tx) ==
  /\ id \in Nat /\ id <= last
  /\ \A h \in DOMAIN c : c[h].id = id => c[h].tx = tx /\ c[h].ok

LookIsPaid ==
  scan.look.outcome = "confirmed" => PaidIn(chain, mined, scan.look.id, scan.look.tx)
ProofsArePaid ==
  \A r \in Recipients : grant[r].status = "confirmed" =>
    \E tx \in grant[r].candidates : PaidIn(chain, mined, grant[r].proof, tx)

\* A new block has a new id, and a reorganisation only removes blocks.
LEMMA PaidStays ==
  ASSUME Fitting, ChainStep, NEW id, NEW tx, PaidIn(chain, mined, id, tx)
  PROVE  PaidIn(chain', mined', id, tx)
<1>1. mined \in Nat
  BY DEF Fitting, RestFits
<1>2. CASE UNCHANGED <<chain, mined>>
  BY <1>2 DEF PaidIn
<1>3. ASSUME NEW t \in Txs \cup {NoTx}, NEW ok \in BOOLEAN, Mine(t, ok)
      PROVE  PaidIn(chain', mined', id, tx)
  <2>1. chain \in Seq(Blocks) /\ [id |-> mined + 1, tx |-> t, ok |-> ok] \in Blocks
    BY <1>1 DEF Fitting, RestFits, Blocks
  <2>2. \A h \in DOMAIN chain' : chain'[h].id = mined + 1 \/
                                 (h \in DOMAIN chain /\ chain'[h] = chain[h])
    BY <1>3, <2>1 DEF Mine
  <2> QED
    BY <1>1, <1>3, <2>2 DEF PaidIn, Mine
<1>4. ASSUME NEW m \in 0..(Len(chain) - 1), chain' = SubSeq(chain, 1, m), UNCHANGED mined
      PROVE  PaidIn(chain', mined', id, tx)
  <2>1. chain \in Seq(Blocks)
    BY DEF Fitting, RestFits, Blocks
  <2>2. \A h \in DOMAIN chain' : h \in DOMAIN chain /\ chain'[h] = chain[h]
    BY <1>4, <2>1
  <2> QED
    BY <1>4, <2>2 DEF PaidIn
<1> QED
  BY <1>2, <1>3, <1>4 DEF ChainStep

\* The reconciler sees a block that there is.
LEMMA VerdictIsPaid ==
  ASSUME Fitting, BlocksInOrder, NEW row, Verdict(row).outcome = "confirmed"
  PROVE  PaidIn(chain, mined, Verdict(row).id, Verdict(row).tx)
<1> DEFINE h == CHOOSE b \in Evidence(row) : TRUE
<1>1. Evidence(row) # {}
  BY DEF Verdict, Nothing
<1>2. h \in DOMAIN chain
  BY <1>1 DEF Evidence
<1>3. Verdict(row) = IF Len(chain) - h + 1 < ConfirmationDepth THEN Nothing("pending")
                     ELSE [outcome |-> Settles(chain[h]), tx |-> chain[h].tx,
                           id |-> chain[h].id, height |-> h]
  BY <1>1 DEF Verdict
<1> HIDE DEF h
<1>4. /\ Settles(chain[h]) = "confirmed" /\ Verdict(row).tx = chain[h].tx
      /\ Verdict(row).id = chain[h].id
  BY <1>3 DEF Nothing
<1>5. \A g \in DOMAIN chain : g \in Nat /\ chain[g] \in Blocks
  BY BlockType
<1>6. chain[h].ok
  BY <1>2, <1>4, <1>5 DEF Settles, Blocks
<1>7. \A g \in DOMAIN chain : chain[g].id = chain[h].id => g = h
  BY <1>2, <1>5 DEF BlocksInOrder, Blocks
<1>8. chain[h].id \in Nat /\ chain[h].id <= mined
  BY <1>2, <1>5 DEF BlocksInOrder, Blocks
<1> QED
  BY <1>4, <1>6, <1>7, <1>8 DEF PaidIn

LEMMA NextLook ==
  ASSUME Fitting, BlocksInOrder, LookIsPaid, [Next]_vars
  PROVE  LookIsPaid'
<1>1. ASSUME NEW list, scan' = [NoScan EXCEPT !.list = list] PROVE LookIsPaid'
  BY <1>1 DEF NoScan, Nothing, LookIsPaid
<1>2. CASE scan' = NoScan
  BY <1>2 DEF NoScan, Nothing, LookIsPaid
<1>3. CASE UNCHANGED scan
  <2>1. ChainStep
    BY EveryChainStep
  <2> QED
    BY <1>3, <2>1, PaidStays DEF LookIsPaid
<1>4. CASE Look
  <2> DEFINE v == Verdict(Head(scan.list).row)
  <2>1. CASE scan' = [scan EXCEPT !.look = v]
    <3>1. scan'.look = v /\ UNCHANGED <<chain, mined>>
      BY <1>4, <2>1 DEF Fitting, ScanFits, Look, arb
    <3>2. v.outcome = "confirmed" => PaidIn(chain, mined, v.id, v.tx)
      BY VerdictIsPaid
    <3> HIDE DEF v
    <3> QED
      BY <3>1, <3>2 DEF LookIsPaid, PaidIn
  <2> QED
    BY <1>1, <1>2, <1>4, <2>1 DEF Look
<1>5. CASE ListCandidates \/ MarkCanonicalOutcome
  BY <1>1, <1>2, <1>5 DEF ListCandidates, MarkCanonicalOutcome
<1>6. ASSUME NEW w \in Workers, Request(w) PROVE UNCHANGED scan
  BY <1>6 DEF Request, Ask, Reserve, RecordFailure, Load, TakeSignerLock, FailReservation,
              StartSubmission, SwitchOff, MarkFailed, MarkReplaced, Prepare, Submit,
              MarkTransactionPrepared, MarkTransferResult, Ambiguous, LoseLocks, EndRequest
<1>7. CASE Environment \/ UNCHANGED vars
  BY <1>3, <1>7 DEF Environment, MineEmpty, SignElsewhere, Reorganise, Include, Mine, vars
<1> QED
  BY <1>3, <1>4, <1>5, <1>6, <1>7 DEF Next, Reconcile

LEMMA NextProofs ==
  ASSUME Fitting, LookIsPaid, ProofsArePaid, [Next]_vars
  PROVE  ProofsArePaid'
<1>1. GrantStep /\ ChainStep
  BY EveryWrite, EveryChainStep
<1>2. \A r \in Recipients : grant[r].candidates \subseteq grant'[r].candidates
  BY <1>1, WritesFit
<1>3. \A r \in Recipients : grant[r].status = "confirmed" =>
        \E tx \in grant'[r].candidates : PaidIn(chain', mined', grant[r].proof, tx)
  BY <1>1, <1>2, PaidStays DEF ProofsArePaid
<1>4. CASE grant' = grant
  BY <1>3, <1>4 DEF ProofsArePaid, PaidIn
<1>5. ASSUME NEW q \in Recipients, NEW g \in Grants, grant' = [grant EXCEPT ![q] = g],
             Rewrites(q, g)
      PROVE  ProofsArePaid'
  <2>1. grant'[q] = g /\ \A r \in Recipients \ {q} : grant'[r] = grant[r]
    BY <1>5 DEF Fitting, GrantsFit
  <2>2. g.status = "confirmed" => \E tx \in g.candidates : PaidIn(chain', mined', g.proof, tx)
    BY <1>1, <1>5, PaidStays DEF Rewrites, LookIsPaid
  <2>3. \A r \in Recipients : grant'[r].status = "confirmed" =>
          \E tx \in grant'[r].candidates : PaidIn(chain', mined', grant'[r].proof, tx)
    BY <1>3, <2>1, <2>2
  <2> QED
    BY <2>3 DEF ProofsArePaid, PaidIn
<1> QED
  BY <1>1, <1>4, <1>5 DEF GrantStep

Proven == Chained /\ LookIsPaid /\ ProofsArePaid

LEMMA AlwaysProven == Spec => []Proven
<1>1. Init => LookIsPaid /\ ProofsArePaid
  BY DEF Init, NoScan, Nothing, NoGrant, LookIsPaid, ProofsArePaid
<1>2. Chained /\ LookIsPaid /\ ProofsArePaid /\ [Next]_vars => LookIsPaid' /\ ProofsArePaid'
  BY NextLook, NextProofs DEF Chained, Sending
<1> QED
  BY <1>1, <1>2, AlwaysChained, PTL DEF Spec, Proven

\* A grant that is confirmed by a block that is on the chain was paid there,
\* although the reconciler writes what it saw a while ago and the row may have
\* changed and the chain reorganised since (sponsor-grants.ts,
\* markCanonicalOutcome).
THEOREM ConfirmedWasPaid == Spec => []ConfirmedIsPaid
<1>1. Proven => ConfirmedIsPaid
  <2> SUFFICES ASSUME Proven, NEW r \in Recipients, NEW h \in DOMAIN chain,
                      grant[r].status = "confirmed", chain[h].id = grant[r].proof
               PROVE  Pays(h, r)
    BY DEF ConfirmedIsPaid
  <2>1. PICK tx \in grant[r].candidates : PaidIn(chain, mined, grant[r].proof, tx)
    BY DEF Proven, ProofsArePaid
  <2>2. chain[h].tx = tx /\ chain[h].ok
    BY <2>1 DEF PaidIn
  <2>3. tx \in Txs /\ tx.to = r
    BY <2>1 DEF Proven, Chained, Sending, Fitting, GrantsFit, Fits, Grants
  <2> QED
    BY <2>2, <2>3, NamesAssumption DEF Pays, Txs
<1> QED
  BY <1>1, AlwaysProven, PTL

-----------------------------------------------------------------------------
(* The budget *)

\* The budget of the day was charged with every grant there is.
Weis == [r \in Recipients |-> grant[r].wei]
BudgetAgrees == granted = Total(Weis)

LEMMA NextBudget ==
  ASSUME Fitting, GrantStep, BudgetAgrees
  PROVE  BudgetAgrees'
<1>1. Weis \in [Recipients -> Nat]
  BY PolicyAssumption DEF Fitting, GrantsFit, Grants, Weis
<1>2. CASE grant' = grant /\ granted' = granted
  BY <1>2 DEF BudgetAgrees, Weis
<1>3. ASSUME NEW q \in Recipients, NEW g \in Grants, grant' = [grant EXCEPT ![q] = g],
             Rewrites(q, g)
      PROVE  BudgetAgrees'
  <2>1. g.wei \in Nat
    BY PolicyAssumption DEF Grants
  <2>2. /\ Weis' \in [Recipients -> Nat] /\ Weis'[q] = g.wei
        /\ \A r \in Recipients : r # q => Weis'[r] = Weis[r]
    BY <1>1, <1>3, <2>1 DEF Weis, Fitting, GrantsFit
  <2>3. Total(Weis)' = Total(Weis) - Weis[q] + g.wei
    <3>1. Total(Weis') = Total(Weis) - Weis[q] + g.wei
      BY <1>1, <2>2, NamesAssumption, TotalUpdate
    <3> QED
      BY <3>1 DEF Total, Units
  <2>4. Total(Weis) \in Nat /\ Weis[q] = grant[q].wei /\ grant[q].wei \in Nat
    BY <1>1, NamesAssumption, TotalType DEF Weis
  <2>5. granted' = granted - grant[q].wei + g.wei
    <3>1. CASE g.wei = grant[q].wei /\ granted' = granted
      BY <2>4, <3>1 DEF BudgetAgrees
    <3>2. CASE grant[q] = NoGrant /\ granted' = granted + g.wei
      BY <2>4, <3>2 DEF BudgetAgrees, NoGrant
    <3> QED
      BY <1>3, <3>1, <3>2 DEF Rewrites
  <2> QED
    BY <2>3, <2>4, <2>5 DEF BudgetAgrees
<1> QED
  BY <1>2, <1>3 DEF GrantStep

\* A sum does not grow when its summands shrink.
LEMMA TotalAtMost ==
  ASSUME NEW D, IsFiniteSet(D), NEW f \in [D -> Nat], NEW g \in [D -> Nat],
         \A x \in D : f[x] <= g[x]
  PROVE  Total(f) <= Total(g)
<1>1. IsFiniteSet(Units(g))
  BY TotalType
<1>2. \A x \in D : 1..f[x] \subseteq 1..g[x]
  OBVIOUS
<1>3. Units(f) \in SUBSET Units(g)
  BY <1>2 DEF Units
<1> QED
  BY <1>1, <1>3, FS_Subset DEF Total

\* Whatever the key moved to wallets was charged to the budget before, also
\* for grants that failed or were given up (sponsor-budget.ts,
\* reserveAndCreate).
THEOREM SpendingCharged == Spec => []Charged
<1>1. Init => BudgetAgrees
  <2> SUFFICES ASSUME Init PROVE BudgetAgrees
    OBVIOUS
  <2>1. Weis = [r \in Recipients |-> 0] /\ granted = 0
    BY DEF Init, NoGrant, Weis
  <2> QED
    BY <2>1, TotalZero DEF BudgetAgrees
<1>2. Fitting /\ BudgetAgrees /\ [Next]_vars => BudgetAgrees'
  BY EveryWrite, NextBudget
<1>3. Chained /\ BudgetAgrees => Charged
  <2> SUFFICES ASSUME Chained, BudgetAgrees PROVE Charged
    OBVIOUS
  <2> DEFINE received == [r \in Recipients |-> Received(r)]
  <2>1. ASSUME NEW r \in Recipients
        PROVE  Received(r) \in Nat /\ Received(r) <= Weis[r] /\ Weis[r] \in Nat
    <3> DEFINE paying == {h \in DOMAIN chain : Pays(h, r)}
    <3>1. IsFiniteSet(paying) /\ Cardinality(paying) \in Nat
      BY FinitelyManyBlocks DEF Chained, Sending, Fitting, RestFits
    <3>2. \A g, h \in paying : g = h
      BY ChainedOnce DEF FundedOnce
    <3>3. Cardinality(paying) \in {0, 1}
      <4>1. CASE paying = {}
        BY <4>1, FS_EmptySet
      <4>2. CASE paying # {}
        <5>1. PICK h \in paying : TRUE
          BY <4>2
        <5>2. paying = {h}
          BY <3>2, <5>1
        <5> QED
          BY <5>2, FS_Singleton
      <4> QED
        BY <4>1, <4>2
    <3>4. grant[r].wei \in Nat /\ Weis[r] = grant[r].wei
      BY PolicyAssumption DEF Chained, Sending, Fitting, GrantsFit, Grants, Weis
    <3>5. Received(r) = Cardinality(paying) * grant[r].wei
      BY DEF Received
    <3> HIDE DEF paying
    <3> QED
      BY <3>3, <3>4, <3>5
  <2>2. received \in [Recipients -> Nat] /\ Weis \in [Recipients -> Nat]
        /\ \A r \in Recipients : received[r] <= Weis[r]
    BY <2>1 DEF Weis
  <2> HIDE DEF received
  <2>3. Total(received) <= Total(Weis)
    BY <2>2, NamesAssumption, TotalAtMost
  <2> QED
    BY <2>3 DEF Charged, BudgetAgrees, received
<1> QED
  BY <1>1, <1>2, <1>3, AlwaysChained, PTL DEF Spec, Chained, Sending

-----------------------------------------------------------------------------
(* The scan of the reconciler. What it writes was seen of a row read       *)
(* earlier; it still fits the row as it is, and no error ends the scan     *)
(* before the chain reorganises.                                           *)

\* Each position of a set has its number.
LEMMA NthOf ==
  ASSUME NEW m \in Nat, NEW S \in SUBSET (1..m), NEW n \in 1..Cardinality(S)
  PROVE  \E i \in S : Cardinality({j \in S : j <= i}) = n
<1>0. \A j \in S : j \in Nat /\ 1 <= j /\ j <= m
  OBVIOUS
<1>1. IsFiniteSet(S) /\ Cardinality(S) \in Nat
  <2>1. IsFiniteSet(1..m)
    BY FS_Interval
  <2> QED
    BY <2>1, FS_Subset, FS_CardinalityType
<1>2. \A k \in Nat : IsFiniteSet({j \in S : j <= k}) /\ Cardinality({j \in S : j <= k}) \in Nat
  <2> SUFFICES ASSUME NEW k \in Nat, NEW P, P = {j \in S : j <= k}
               PROVE  IsFiniteSet(P) /\ Cardinality(P) \in Nat
    OBVIOUS
  <2>1. P \in SUBSET S
    OBVIOUS
  <2> QED
    BY <1>1, <2>1, FS_Subset, FS_CardinalityType
<1>3. PICK F \in [Nat -> Nat] : \A k \in Nat : F[k] = Cardinality({j \in S : j <= k})
  <2> DEFINE G == [k \in Nat |-> Cardinality({j \in S : j <= k})]
  <2>1. G \in [Nat -> Nat]
    BY <1>2
  <2> QED
    BY <2>1
<1>4. F[0] = 0 /\ F[m] = Cardinality(S)
  <2>1. {j \in S : j <= 0} = {} /\ {j \in S : j <= m} = S
    <3>1. \A j \in S : ~(j <= 0) /\ j <= m
      BY <1>0
    <3> QED
      BY <3>1
  <2> QED
    BY <1>3, <2>1, FS_EmptySet
<1>5. PICK k \in Nat : F[k] >= n /\ \A l \in Nat : F[l] >= n => k <= l
  <2> DEFINE T == {k \in Nat : F[k] >= n}
  <2>1. T \in SUBSET Nat /\ T # {}
    BY <1>1, <1>4
  <2> HIDE DEF T
  <2>2. PICK k \in T : \A l \in T : k <= l
    BY <2>1, LeastOf
  <2> QED
    BY <2>2 DEF T
<1>6. PICK b \in Nat : k = b + 1 /\ F[b] < n
  <2>1. k # 0 /\ n \in Nat /\ n >= 1
    BY <1>1, <1>4, <1>5
  <2>2. k - 1 \in Nat /\ k = (k - 1) + 1 /\ ~(k <= k - 1)
    BY <2>1
  <2>3. F[k - 1] \in Nat
    BY <2>2
  <2> QED
    BY <1>5, <2>1, <2>2, <2>3
<1>7. PICK P, Q : P = {j \in S : j <= b} /\ Q = {j \in S : j <= k}
  OBVIOUS
<1>8. F[b] = Cardinality(P) /\ F[k] = Cardinality(Q) /\ IsFiniteSet(P) /\ Cardinality(P) \in Nat
  BY <1>2, <1>3, <1>7
<1>9. CASE k \notin S
  <2>1. \A j \in S : j <= k <=> j <= b
    BY <1>0, <1>6, <1>9
  <2>2. P = Q
    BY <1>7, <2>1
  <2> QED
    BY <1>1, <1>5, <1>6, <1>8, <2>2
<1>10. CASE k \in S
  <2>1. (\A j \in S : j <= k <=> j <= b \/ j = k) /\ ~(k <= b)
    BY <1>0, <1>6
  <2>2. Q = P \cup {k} /\ k \notin P
    BY <1>6, <1>7, <1>10, <2>1
  <2>3. Cardinality(Q) = Cardinality(P) + 1
    BY <1>8, <2>2, FS_AddElement
  <2>4. Cardinality(Q) = n
    BY <1>1, <1>5, <1>6, <1>8, <2>3
  <2> QED
    BY <1>7, <1>10, <2>4
<1> QED
  BY <1>9, <1>10

\* What is picked from a sequence is in it.
LEMMA PickedIn ==
  ASSUME NEW T, NEW s \in Seq(T), NEW S \in SUBSET (DOMAIN s)
  PROVE  /\ Picked(s, S) \in Seq(T)
         /\ \A n \in DOMAIN Picked(s, S) : \E i \in S : Picked(s, S)[n] = s[i]
<1>1. PICK m \in Nat : m = Len(s) /\ DOMAIN s = 1..m
  OBVIOUS
<1>2. PICK N \in Nat : N = Cardinality(S)
  <2>1. IsFiniteSet(1..m)
    BY FS_Interval
  <2> QED
    BY <1>1, <2>1, FS_Subset, FS_CardinalityType
<1>3. ASSUME NEW n \in 1..N
      PROVE  (CHOOSE i \in S : Cardinality({j \in S : j <= i}) = n) \in S
  <2>1. n \in 1..Cardinality(S) /\ S \in SUBSET (1..m)
    BY <1>1, <1>2
  <2>2. \E i \in S : Cardinality({j \in S : j <= i}) = n
    BY <2>1, NthOf
  <2> QED
    BY <2>2
<1>4. PICK at \in [1..N -> S] :
        at = [n \in 1..N |-> CHOOSE i \in S : Cardinality({j \in S : j <= i}) = n]
  BY <1>3
<1>5. Picked(s, S) = [n \in 1..N |-> s[at[n]]]
  BY <1>2, <1>4 DEF Picked
<1>6. \A n \in 1..N : at[n] \in S /\ s[at[n]] \in T
  BY <1>1
<1>7. [n \in 1..N |-> s[at[n]]] \in Seq(T)
  BY <1>6
<1> QED
  BY <1>5, <1>6, <1>7

\* A row that the reconciler has in hand, as it was read.
Entries == [of : Recipients, row : Grants]

\* The block that confirmed it is on the chain.
There(row) == \E h \in DOMAIN chain : chain[h].id = row.proof /\ chain[h].tx \in row.candidates

Known(e) ==
  /\ e \in Entries /\ Fits(e.of, e.row)
  /\ e.row.candidates \subseteq grant[e.of].candidates
  /\ e.row.status = "confirmed" =>
       e.row.tx \in e.row.candidates /\ (reorgs = 0 => There(e.row))

RowsOrdered == updated \in Seq(Recipients) /\ reorgs \in Nat
ListKnown == scan.list \in Seq(Entries) /\ \A n \in DOMAIN scan.list : Known(scan.list[n])
LookKnown == scan.look.outcome # "none" =>
  /\ scan.list # <<>> /\ scan.look.tx \in scan.list[1].row.candidates
  /\ reorgs = 0 =>
       /\ scan.look.outcome # "orphaned"
       /\ \E h \in DOMAIN chain : chain[h].id = scan.look.id /\ chain[h].tx = scan.look.tx
GrantsThere == reorgs = 0 =>
  \A r \in Recipients : grant[r].status = "confirmed" => There(grant[r])

Scanning == RowsOrdered /\ ListKnown /\ LookKnown /\ GrantsThere

LEMMA TouchedType ==
  ASSUME updated \in Seq(Recipients), NEW r \in Recipients
  PROVE  Touched(r) \in Seq(Recipients)
<1>1. PICK S \in SUBSET (DOMAIN updated) : S = {n \in DOMAIN updated : updated[n] # r}
  OBVIOUS
<1>2. PICK s \in Seq(Recipients) : s = Picked(updated, S)
  BY PickedIn
<1>3. Touched(r) = Append(s, r)
  BY <1>1, <1>2 DEF Touched
<1> QED
  BY <1>3

LEMMA EveryTouch ==
  ASSUME Fitting, ListKnown, LookKnown, [Next]_vars
  PROVE  UNCHANGED updated \/ \E r \in Recipients : updated' = Touched(r)
<1>1. ASSUME NEW w \in Workers, worker[w].at # "idle" PROVE worker[w].to \in Recipients
  BY <1>1 DEF Fitting, RequestsFit, RequestFits
<1>2. ASSUME NEW w \in Workers, Request(w)
      PROVE  \/ UNCHANGED updated
             \/ worker[w].at # "idle" /\ updated' = Touched(worker[w].to)
  <2>1. CASE Reserve(w)
    BY <2>1 DEF Reserve, At, rows, Write
  <2>2. CASE StartSubmission(w)
    BY <2>2 DEF StartSubmission, At, Write
  <2>3. CASE MarkFailed(w) \/ MarkReplaced(w)
    BY <2>3 DEF MarkFailed, MarkReplaced, At, Write
  <2>4. CASE MarkTransactionPrepared(w)
    BY <2>4 DEF MarkTransactionPrepared, At, Write
  <2>5. CASE MarkTransferResult(w)
    BY <2>5 DEF MarkTransferResult, At, Write
  <2>6. \/ Reserve(w) \/ StartSubmission(w) \/ MarkFailed(w) \/ MarkReplaced(w)
        \/ MarkTransactionPrepared(w) \/ MarkTransferResult(w) \/ UNCHANGED updated
    BY <1>2 DEF Request, Ask, RecordFailure, Load, TakeSignerLock, FailReservation, SwitchOff,
                Prepare, Ambiguous, Submit, LoseLocks, EndRequest, rows
  <2> QED
    BY <2>1, <2>2, <2>3, <2>4, <2>5, <2>6
<1>3. CASE MarkCanonicalOutcome
  <2>1. scan.list # <<>> /\ scan.list \in Seq(Entries)
    BY <1>3 DEF MarkCanonicalOutcome, ListKnown, LookKnown
  <2>2. Head(scan.list) \in Entries
    BY <2>1
  <2>3. PICK r \in Recipients : r = Head(scan.list).of
    BY <2>2 DEF Entries
  <2>4. UNCHANGED updated \/ updated' = Touched(Head(scan.list).of)
    BY <1>3 DEF MarkCanonicalOutcome, Write
  <2> QED
    BY <2>3, <2>4
<1>4. CASE Environment \/ ListCandidates \/ Look \/ UNCHANGED vars
  BY <1>4 DEF Environment, MineEmpty, SignElsewhere, Reorganise, Include, Mine, ListCandidates,
              Look, rows, vars
<1> QED
  BY <1>1, <1>2, <1>3, <1>4 DEF Next, Reconcile

\* Until the chain reorganises, its blocks stay.
LEMMA BlocksStay ==
  ASSUME Fitting, RowsOrdered, [Next]_vars
  PROVE  /\ reorgs' \in Nat
         /\ reorgs' = 0 => reorgs = 0 /\ \A h \in DOMAIN chain : h \in DOMAIN chain' /\ chain'[h] = chain[h]
<1>1. CASE Reorganise
  BY <1>1 DEF Reorganise, RowsOrdered
<1>2. ASSUME ~Reorganise
      PROVE  UNCHANGED reorgs /\ (UNCHANGED chain \/ \E t \in Txs \cup {NoTx}, ok \in BOOLEAN : Mine(t, ok))
  <2>1. CASE SignElsewhere
    <3>1. PICK f \in Fees : Mine([to |-> Outside, nonce |-> NextNonce, fee |-> f], TRUE)
      BY <2>1 DEF SignElsewhere
    <3>2. NextNonce \in Nat
      BY FinitelyManyBlocks DEF NextNonce, Signed, Fitting, RestFits
    <3>3. [to |-> Outside, nonce |-> NextNonce, fee |-> f] \in Txs
      BY <3>2 DEF Txs
    <3> QED
      BY <2>1, <3>1, <3>3 DEF SignElsewhere, Fault
  <2>2. CASE MineEmpty
    BY <2>2 DEF MineEmpty, NoFault, bounds
  <2>3. ASSUME NEW ok \in BOOLEAN, Include(ok)
        PROVE  UNCHANGED reorgs /\ \E t \in Txs \cup {NoTx} : Mine(t, ok)
    BY <2>3 DEF Include, NoFault, Fault, bounds, Fitting, RestFits
  <2>4. ASSUME NEW w \in Workers, Request(w) PROVE UNCHANGED <<chain, reorgs>>
    BY <2>4 DEF Request, Ask, Reserve, RecordFailure, Load, TakeSignerLock, FailReservation,
                StartSubmission, SwitchOff, MarkFailed, MarkReplaced, Prepare, Submit,
                MarkTransactionPrepared, MarkTransferResult, Ambiguous, LoseLocks, EndRequest,
                arb, bounds, Fault
  <2>5. CASE Reconcile \/ UNCHANGED vars
    BY <2>5 DEF Reconcile, ListCandidates, Look, MarkCanonicalOutcome, vars, arb, bounds
  <2> QED
    BY <1>2, <2>1, <2>2, <2>3, <2>4, <2>5 DEF Next, Environment
<1>3. ASSUME NEW t \in Txs \cup {NoTx}, NEW ok \in BOOLEAN, Mine(t, ok)
      PROVE  \A h \in DOMAIN chain : h \in DOMAIN chain' /\ chain'[h] = chain[h]
  <2>1. chain \in Seq(Blocks) /\ [id |-> mined + 1, tx |-> t, ok |-> ok] \in Blocks
    BY DEF Fitting, RestFits, Blocks
  <2> QED
    BY <1>3, <2>1 DEF Mine
<1> QED
  BY <1>1, <1>2, <1>3 DEF RowsOrdered

\* What the chain says of a row.
LEMMA VerdictFound ==
  ASSUME Fitting, NEW row
  PROVE  /\ Verdict(row).outcome \in {"confirmed", "failed"} =>
              \E h \in DOMAIN chain : /\ chain[h].id = Verdict(row).id
                                      /\ chain[h].tx = Verdict(row).tx
                                      /\ chain[h].tx \in row.candidates
         /\ Verdict(row).outcome \in {"orphaned", "throws"} =>
              Evidence(row) = {} /\ row.status = "confirmed"
         /\ Verdict(row).outcome = "orphaned" => Verdict(row).tx = row.tx
<1> DEFINE h == CHOOSE b \in Evidence(row) : TRUE
<1>1. CASE Evidence(row) # {}
  <2>1. h \in DOMAIN chain /\ chain[h].tx \in row.candidates
    BY <1>1 DEF Evidence
  <2>2. Verdict(row) = IF Len(chain) - h + 1 < ConfirmationDepth THEN Nothing("pending")
                       ELSE [outcome |-> Settles(chain[h]), tx |-> chain[h].tx,
                             id |-> chain[h].id, height |-> h]
    BY <1>1 DEF Verdict
  <2> HIDE DEF h
  <2>3. Settles(chain[h]) \in {"confirmed", "failed"}
    BY DEF Settles
  <2>4. Verdict(row).outcome \in {"confirmed", "failed"} =>
          Verdict(row).id = chain[h].id /\ Verdict(row).tx = chain[h].tx
    BY <2>2 DEF Nothing
  <2>5. Verdict(row).outcome \notin {"orphaned", "throws"}
    BY <2>2, <2>3 DEF Nothing
  <2> QED
    BY <2>1, <2>4, <2>5
<1>2. CASE Evidence(row) = {}
  BY <1>2 DEF Verdict, Nothing
<1> QED
  BY <1>1, <1>2

LEMMA VerdictOutcome ==
  ASSUME NEW row
  PROVE  Verdict(row).outcome \in {"confirmed", "failed", "orphaned", "pending", "throws"}
<1> DEFINE h == CHOOSE b \in Evidence(row) : TRUE
<1>1. CASE Evidence(row) # {}
  <2>1. Verdict(row) = IF Len(chain) - h + 1 < ConfirmationDepth THEN Nothing("pending")
                       ELSE [outcome |-> Settles(chain[h]), tx |-> chain[h].tx,
                             id |-> chain[h].id, height |-> h]
    BY <1>1 DEF Verdict
  <2> HIDE DEF h
  <2> QED
    BY <2>1 DEF Nothing, Settles
<1>2. CASE Evidence(row) = {}
  BY <1>2 DEF Verdict, Nothing
<1> QED
  BY <1>1, <1>2

\* A row that was read stays known.
LEMMA KnownStays ==
  ASSUME Fitting, RowsOrdered, [Next]_vars, NEW e, Known(e)
  PROVE  Known(e)'
<1>1. e \in Entries /\ e.of \in Recipients
  BY DEF Known, Entries
<1>2. grant[e.of].candidates \subseteq grant'[e.of].candidates
  BY <1>1, EveryWrite, WritesFit
<1>3. reorgs' = 0 /\ There(e.row) => There(e.row)'
  BY BlocksStay DEF There
<1>4. reorgs' = 0 => reorgs = 0
  BY BlocksStay
<1> QED
  BY <1>1, <1>2, <1>3, <1>4 DEF Known, Fits

\* A grant as it is read.
LEMMA KnownNow ==
  ASSUME Fitting, ProofsArePaid, GrantsThere, NEW r \in Recipients
  PROVE  Known([of |-> r, row |-> grant[r]])
<1>1. PICK g \in Grants : g = grant[r] /\ Fits(r, g)
  BY DEF Fitting, GrantsFit
<1>2. PICK e : e = [of |-> r, row |-> g]
  OBVIOUS
<1>3. e \in Entries /\ e.of = r /\ e.row = g
  BY <1>2 DEF Entries
<1>4. ASSUME g.status = "confirmed" PROVE g.tx \in g.candidates
  <2>1. g.candidates # {}
    BY <1>1, <1>4 DEF ProofsArePaid
  <2> QED
    BY <1>1, <2>1 DEF Fits
<1>5. Known(e)
  BY <1>1, <1>3, <1>4 DEF Known, GrantsThere
<1> QED
  BY <1>1, <1>2, <1>5

LEMMA TailOf ==
  ASSUME NEW T, NEW s \in Seq(T), s # <<>>
  PROVE  /\ Tail(s) \in Seq(T)
         /\ \A n \in DOMAIN Tail(s) : n + 1 \in DOMAIN s /\ Tail(s)[n] = s[n + 1]
<1>1. PICK m \in Nat : m = Len(s) /\ DOMAIN s = 1..m
  OBVIOUS
<1>2. m # 0
  BY <1>1
<1>3. Tail(s) \in Seq(T) /\ Len(Tail(s)) = m - 1 /\ \A n \in 1..(m - 1) : Tail(s)[n] = s[n + 1]
  BY <1>1, <1>2
<1>4. DOMAIN Tail(s) = 1..(m - 1)
  BY <1>1, <1>2, <1>3
<1> QED
  BY <1>1, <1>3, <1>4

\* The list holds rows as they were read, also as it gets shorter.
LEMMA ListStays ==
  ASSUME Fitting, ProofsArePaid, Scanning, [Next]_vars
  PROVE  ListKnown'
<1>1. ASSUME NEW list \in Seq(Entries), scan'.list = list,
             \A n \in DOMAIN list : Known(list[n])
      PROVE  ListKnown'
  <2>1. \A n \in DOMAIN list : Known(list[n])'
    BY <1>1, KnownStays DEF Scanning
  <2> QED
    BY <1>1, <2>1 DEF ListKnown, Known, Fits, There
<1>2. scan.list \in Seq(Entries) /\ \A n \in DOMAIN scan.list : Known(scan.list[n])
  BY DEF Scanning, ListKnown
<1>3. CASE UNCHANGED scan
  BY <1>1, <1>2, <1>3
<1>4. CASE scan' = NoScan
  BY <1>4 DEF NoScan, ListKnown
<1>5. CASE scan.list # <<>> /\ scan' = [NoScan EXCEPT !.list = Tail(scan.list)]
  <2>1. PICK s \in Seq(Entries) : s = scan.list
    BY <1>2
  <2>2. PICK t \in Seq(Entries) : /\ t = Tail(s)
                                  /\ \A n \in DOMAIN t : n + 1 \in DOMAIN s /\ t[n] = s[n + 1]
    BY <1>5, <2>1, TailOf
  <2>3. scan'.list = t
    BY <1>5, <2>1, <2>2 DEF NoScan
  <2> QED
    BY <1>1, <1>2, <2>1, <2>2, <2>3
<1>6. CASE Look
  <2>1. \/ scan'.list = scan.list
        \/ scan' = NoScan \/ scan' = [NoScan EXCEPT !.list = Tail(scan.list)]
    BY <1>6 DEF Look, Fitting, ScanFits
  <2> QED
    BY <1>1, <1>2, <1>4, <1>5, <1>6, <2>1 DEF Look
<1>7. CASE MarkCanonicalOutcome
  BY <1>4, <1>5, <1>7 DEF MarkCanonicalOutcome, Scanning, LookKnown
<1>8. CASE ListCandidates
  <2>1. PICK u \in Seq(Recipients) : u = updated
    BY DEF Scanning, RowsOrdered
  <2>2. PICK S \in SUBSET (DOMAIN u) : S = {n \in DOMAIN u : Listed(grant[u[n]])}
    OBVIOUS
  <2>3. PICK due \in Seq(Recipients) : due = Picked(u, S)
    BY PickedIn
  <2>4. PICK m \in 0..Len(due) : m = IF Len(due) < Batch THEN Len(due) ELSE Batch
    <3>1. Len(due) \in Nat /\ Batch \in Nat
      BY BoundsAssumption
    <3> QED
      BY <3>1
  <2>5. PICK batch \in Seq(Recipients) : batch = SubSeq(due, 1, m)
    <3>1. /\ Len(due) \in Nat /\ DOMAIN due = 1..Len(due) /\ m \in Nat /\ m <= Len(due)
          /\ \A n \in DOMAIN due : due[n] \in Recipients
      OBVIOUS
    <3>2. \A n \in 1..m : due[n] \in Recipients
      BY <3>1
    <3>3. [n \in 1..m |-> due[n]] \in Seq(Recipients)
      BY <3>1, <3>2
    <3>4. SubSeq(due, 1, m) = [n \in 1..m |-> due[n]]
      BY <3>1
    <3> QED
      BY <3>3, <3>4
  <2>6. PICK list : list = [n \in DOMAIN batch |-> [of |-> batch[n], row |-> grant[batch[n]]]]
    OBVIOUS
  <2>7. scan'.list = list
    BY <1>8, <2>1, <2>2, <2>3, <2>4, <2>5, <2>6 DEF ListCandidates, NoScan
  <2>8. ASSUME NEW n \in DOMAIN batch PROVE Known(list[n]) /\ list[n] \in Entries
    <3>1. PICK r \in Recipients : r = batch[n]
      BY <2>8
    <3>2. list[n] = [of |-> r, row |-> grant[r]]
      BY <2>6, <3>1
    <3> QED
      BY <3>2, KnownNow DEF Scanning, Known
  <2>9. list \in Seq(Entries) /\ DOMAIN list = DOMAIN batch
    BY <2>6, <2>8
  <2> QED
    BY <1>1, <2>7, <2>8, <2>9
<1>9. ASSUME NEW w \in Workers, Request(w) PROVE UNCHANGED scan
  BY <1>9 DEF Request, Ask, Reserve, RecordFailure, Load, TakeSignerLock, FailReservation,
              StartSubmission, SwitchOff, MarkFailed, MarkReplaced, Prepare, Submit,
              MarkTransactionPrepared, MarkTransferResult, Ambiguous, LoseLocks, EndRequest
<1>10. CASE Environment \/ UNCHANGED vars
  BY <1>3, <1>10 DEF Environment, MineEmpty, SignElsewhere, Reorganise, Include, Mine, vars
<1> QED
  BY <1>3, <1>6, <1>7, <1>8, <1>9, <1>10 DEF Next, Reconcile


\* What was found is recorded in the row it was found for.
LEMMA LookStays ==
  ASSUME Fitting, Scanning, [Next]_vars
  PROVE  LookKnown'
<1>1. ASSUME scan'.look = Nothing("none") PROVE LookKnown'
  BY <1>1 DEF LookKnown, Nothing
<1>2. ASSUME NEW list, scan' = [NoScan EXCEPT !.list = list] PROVE LookKnown'
  BY <1>1, <1>2 DEF NoScan
<1>3. CASE scan' = NoScan
  BY <1>1, <1>3 DEF NoScan
<1>4. CASE UNCHANGED scan
  <2>1. reorgs' = 0 => reorgs = 0 /\ \A h \in DOMAIN chain : h \in DOMAIN chain' /\ chain'[h] = chain[h]
    BY BlocksStay DEF Scanning
  <2> QED
    BY <1>4, <2>1 DEF Scanning, LookKnown
<1>5. CASE Look
  <2>1. PICK e : e = Head(scan.list)
    OBVIOUS
  <2>2. scan.list # <<>> /\ scan.list \in Seq(Entries)
    BY <1>5 DEF Look, Scanning, ListKnown
  <2>3. 1 \in DOMAIN scan.list /\ e = scan.list[1]
    BY <2>1, <2>2
  <2>4. Known(e)
    BY <2>3 DEF Scanning, ListKnown
  <2>5. PICK v : v = Verdict(e.row)
    OBVIOUS
  <2>6. CASE scan' = [scan EXCEPT !.look = v]
    <3>1. scan'.look = v /\ scan'.list = scan.list /\ UNCHANGED <<chain, reorgs>>
      BY <1>5, <2>6 DEF Fitting, ScanFits, Look, arb, bounds
    <3>2. CASE v.outcome \in {"confirmed", "failed"}
      <4>1. PICK h \in DOMAIN chain :
              chain[h].id = v.id /\ chain[h].tx = v.tx /\ chain[h].tx \in e.row.candidates
        BY <2>5, <3>2, VerdictFound
      <4> QED
        BY <2>2, <2>3, <3>1, <3>2, <4>1 DEF LookKnown
    <3>3. CASE v.outcome = "orphaned"
      <4>1. Evidence(e.row) = {} /\ e.row.status = "confirmed" /\ v.tx = e.row.tx
        BY <2>5, <3>3, VerdictFound
      <4>2. e.row.tx \in e.row.candidates /\ (reorgs = 0 => There(e.row))
        BY <2>4, <4>1 DEF Known
      <4>3. reorgs # 0
        BY <4>1, <4>2 DEF There, Evidence
      <4> QED
        BY <2>2, <2>3, <3>1, <4>1, <4>2, <4>3 DEF LookKnown
    <3>4. v.outcome \in {"confirmed", "failed", "orphaned", "pending", "throws"}
      BY <2>5, VerdictOutcome
    <3> QED
      BY <1>5, <2>1, <2>5, <3>1, <3>2, <3>3, <3>4, <1>1, <1>2, <1>3 DEF Look
  <2> QED
    BY <1>2, <1>3, <1>5, <2>1, <2>5, <2>6 DEF Look
<1>6. CASE ListCandidates \/ MarkCanonicalOutcome
  BY <1>2, <1>3, <1>6 DEF ListCandidates, MarkCanonicalOutcome
<1>7. ASSUME NEW w \in Workers, Request(w) PROVE UNCHANGED scan
  BY <1>7 DEF Request, Ask, Reserve, RecordFailure, Load, TakeSignerLock, FailReservation,
              StartSubmission, SwitchOff, MarkFailed, MarkReplaced, Prepare, Submit,
              MarkTransactionPrepared, MarkTransferResult, Ambiguous, LoseLocks, EndRequest
<1>8. CASE Environment \/ UNCHANGED vars
  BY <1>4, <1>8 DEF Environment, MineEmpty, SignElsewhere, Reorganise, Include, Mine, vars
<1> QED
  BY <1>4, <1>5, <1>6, <1>7, <1>8 DEF Next, Reconcile

\* A grant is confirmed by a block that is there.
LEMMA GrantsThereStays ==
  ASSUME Fitting, Scanning, [Next]_vars
  PROVE  GrantsThere'
<1> SUFFICES ASSUME reorgs' = 0, NEW r \in Recipients, grant'[r].status = "confirmed"
             PROVE  There(grant[r])'
  BY DEF GrantsThere
<1>1. reorgs = 0 /\ \A h \in DOMAIN chain : h \in DOMAIN chain' /\ chain'[h] = chain[h]
  BY BlocksStay DEF Scanning
<1>2. GrantStep
  BY EveryWrite
<1>3. CASE grant'[r] = grant[r]
  BY <1>1, <1>3 DEF Scanning, GrantsThere, There
<1>4. CASE grant'[r] # grant[r]
  <2>1. PICK q \in Recipients, g \in Grants : grant' = [grant EXCEPT ![q] = g] /\ Rewrites(q, g)
    BY <1>2, <1>4 DEF GrantStep
  <2>2. q = r /\ grant'[r] = g
    BY <1>4, <2>1 DEF Fitting, GrantsFit
  <2>3. scan.look.outcome = "confirmed" /\ g.proof = scan.look.id /\ scan.look.tx \in g.candidates
    BY <2>1, <2>2 DEF Rewrites
  <2>4. PICK h \in DOMAIN chain : chain[h].id = scan.look.id /\ chain[h].tx = scan.look.tx
    BY <1>1, <2>3 DEF Scanning, LookKnown
  <2> QED
    BY <1>1, <2>2, <2>3, <2>4 DEF There
<1> QED
  BY <1>3, <1>4

LEMMA AlwaysScanning == Spec => [](Proven /\ Scanning)
<1>1. Init => Scanning
  BY DEF Init, NoScan, Nothing, NoGrant, Scanning, RowsOrdered, ListKnown, LookKnown, GrantsThere
<1>2. Proven /\ Scanning /\ [Next]_vars => Scanning'
  <2> SUFFICES ASSUME Proven, Scanning, [Next]_vars PROVE Scanning'
    OBVIOUS
  <2>1. Fitting /\ ProofsArePaid
    BY DEF Proven, Chained, Sending
  <2>2. RowsOrdered'
    <3>1. UNCHANGED updated \/ \E r \in Recipients : updated' = Touched(r)
      BY <2>1, EveryTouch DEF Scanning
    <3>2. updated' \in Seq(Recipients)
      BY <3>1, TouchedType DEF Scanning, RowsOrdered
    <3> QED
      BY <2>1, <3>2, BlocksStay DEF Scanning, RowsOrdered
  <2> QED
    BY <2>1, <2>2, ListStays, LookStays, GrantsThereStays DEF Scanning
<1> QED
  BY <1>1, <1>2, AlwaysProven, PTL DEF Spec

\* Two blocks with transactions of one grant are one block.
LEMMA OneOfARow ==
  ASSUME Proven, NEW r \in Recipients, NEW g \in DOMAIN chain, NEW h \in DOMAIN chain,
         chain[g].tx \in grant[r].candidates, chain[h].tx \in grant[r].candidates
  PROVE  g = h
<1>1. Fitting /\ NoncesInOrder
  BY DEF Proven, Chained, Sending
<1>2. g \in Nat /\ h \in Nat
  BY <1>1, BlockType
<1>3. \A t \in grant[r].candidates : t # NoTx /\ t.nonce = grant[r].nonce
  <2>1. grant[r].candidates \subseteq Txs
    BY <1>1 DEF Fitting, GrantsFit, Grants
  <2> QED
    BY <1>1, <2>1, NamesAssumption DEF Fitting, GrantsFit, Fits, Txs
<1> QED
  BY <1>1, <1>2, <1>3, NoncesDiffer

\* The reconciler writes what it saw of a row that it read a while ago. Requests
\* have written the row since and blocks were added; still what it found is of
\* the row, and nothing but a reorganisation ends its scan with an error before
\* the last row (sponsor-grants.ts, markCanonicalOutcome; sponsor.ts,
\* reconcileOnce).
THEOREM ReconcilerGetsThrough == Spec => []ScanGoesThrough
<1>1. Proven /\ Scanning => ScanGoesThrough
  <2> SUFFICES ASSUME Proven, Scanning, scan.list # <<>>
               PROVE  /\ scan.look.outcome # "none" =>
                           scan.look.tx \in grant[Head(scan.list).of].candidates
                      /\ reorgs = 0 /\ scan.look.outcome # "none" =>
                           ~MarkThrows(grant[Head(scan.list).of], scan.look)
                      /\ reorgs = 0 => Verdict(Head(scan.list).row).outcome # "throws"
    BY DEF ScanGoesThrough
  <2>1. Fitting
    BY DEF Proven, Chained, Sending
  <2>2. PICK e : e = Head(scan.list)
    OBVIOUS
  <2>3. scan.list \in Seq(Entries)
    BY DEF Scanning, ListKnown
  <2>4. 1 \in DOMAIN scan.list /\ e = scan.list[1]
    BY <2>2, <2>3
  <2>5. Known(e)
    BY <2>4 DEF Scanning, ListKnown
  <2>6. PICK r \in Recipients : r = e.of
    BY <2>5 DEF Known, Entries
  <2>7. e.row.candidates \subseteq grant[r].candidates
    BY <2>5, <2>6 DEF Known
  <2>8. scan.look.outcome # "none" => scan.look.tx \in grant[r].candidates
    BY <2>4, <2>7 DEF Scanning, LookKnown
  <2>9. ASSUME reorgs = 0, scan.look.outcome # "none" PROVE ~MarkThrows(grant[r], scan.look)
    <3>1. PICK h \in DOMAIN chain : chain[h].id = scan.look.id /\ chain[h].tx = scan.look.tx
      BY <2>9 DEF Scanning, LookKnown
    <3>2. ASSUME grant[r].status = "confirmed" PROVE grant[r].proof = scan.look.id
      <4>1. PICK g \in DOMAIN chain : chain[g].id = grant[r].proof /\ chain[g].tx \in grant[r].candidates
        BY <2>9, <3>2 DEF Scanning, GrantsThere, There
      <4>2. g = h
        BY <2>8, <2>9, <3>1, <4>1, OneOfARow
      <4> QED
        BY <3>1, <4>1, <4>2
    <3> QED
      BY <2>8, <2>9, <3>2 DEF MarkThrows
  <2>10. ASSUME reorgs = 0 PROVE Verdict(e.row).outcome # "throws"
    <3> SUFFICES ASSUME Verdict(e.row).outcome = "throws" PROVE FALSE
      OBVIOUS
    <3>1. Evidence(e.row) = {} /\ e.row.status = "confirmed"
      BY <2>1, VerdictFound
    <3>2. There(e.row)
      BY <2>5, <2>10, <3>1 DEF Known
    <3> QED
      BY <3>1, <3>2 DEF There, Evidence
  <2> QED
    BY <2>2, <2>6, <2>8, <2>9, <2>10
<1> QED
  BY <1>1, AlwaysScanning, PTL
=============================================================================
