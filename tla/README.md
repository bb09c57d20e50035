# OpenTab in TLA+

OpenTab sells products of merchants for USDC on Arbitrum One. A customer signs
in with a Magic wallet, Particle moves the value from other chains and calls the
settlement contract, an indexer projects the events of the contract into
PostgreSQL, and the web application shows what is projected. This directory
models the parts in which money, the order of events and failures meet, checks
the models with TLC on small instances and proves the central invariants with
TLAPS for instances of any size.

Paths below are relative to the repository (`src/`).

## 1. The system

| Component | State | Operations | What is hard | What makes it correct |
| --- | --- | --- | --- | --- |
| Settlement contract `packages/contracts/src/OpenTabCheckout.sol` | merchants, products, orders, locked / credited / withdrawn buckets per merchant and platform, loyalty, pause | create and change merchants and products, `pay`, `refund`, `finalizeOrder`, two withdrawals, administration | rounding of refunds cut into parts; many orders draw on shared buckets; terms change while signed intents travel; time | solvency, buckets agree with the orders, nothing trapped, limits hold, orders only mature |
| Pass contract `OpenTabPass1155.sol` | passes per product and holder, bound checkout | bind, configure, mint, burn, transfer | called from `pay` and `refund` | passes agree with orders |
| Split contract `OpenTabSplitReimbursement.sol` | used and revoked payment keys | `reimburse`, `revokePaymentKey`, pause | a payment races a revocation | a key is paid or revoked, once |
| Indexer `apps/indexer/src/scanner.ts`, `packages/db/src/indexer-store.ts` | cursor, lease, block headers, canonical logs | scan, commit a range, detect a reorganisation, rewind | several workers, an expiring lease, separate RPC calls, reorganisations, crashes | what is projected is the history of one branch; it catches up |
| Projections `packages/db/src/projectors.ts` and the rebuilds of `indexer-store.ts` | orders, receipts, credits, refunds, withdrawals, passes, splits | one handler per event, one rebuild per aggregate | event order inside a transaction, rewinds, quarantine | the projection is a function of the canonical events |
| Payment workflow `packages/db/src/workflow-store.ts`, `packages/application/src/use-cases/commerce.ts`, `apps/web/src/application/browser-application-service.ts` | one order and one payment attempt per checkout, the plan in the memory of one tab | create, prepare, start submission, submit, register | lost answers, late requests, closed tabs around an irreversible step | money moves only past a durable boundary, and is then followed up |
| Payment reconciliation `apps/indexer/src/reconciler.ts`, `reconciliation-runtime.ts`, `packages/db/src/reconciliation-store.ts` | BullMQ jobs, provider observations, dead letters | seed, take a job, ask the provider, record, reschedule | long calls, redelivered jobs, job ids that are remembered | only the chain says paid; a confirmed payment ends as paid |
| Refund and withdrawal operations `workflow-store.ts:593-779` | contract operations that reserve amounts | create, register, confirm | checked against a projection that lags or rewinds | never more reserved than there is |
| Idempotency `packages/db/src/idempotency.ts`, `unit-of-work.ts` | one record per scope and key | execute, record a failure | failure recorded in a second transaction | at most one effect per key |
| Sponsor grants `use-cases/sponsor.ts`, `sponsor-grants.ts`, `integrations/src/sponsor.ts`, `sponsor-reconciler.ts`, `sponsor-budget.ts` | grants, reserved nonces, transaction hashes, daily budgets | reserve, start, prepare, broadcast, reconcile | crash between hash and broadcast, one nonce sequence for all, reorganisations | a recipient is funded at most once; nobody waits for ever |
| Sessions `session-service.ts`, `use-cases/auth-session.ts` | token and CSRF hashes with versions | create, verify, refresh, revoke | rotation by concurrent verifiers | one valid token, no lost session |
| Redis `redis.ts` | locks, rate counters, one-time continuations | with lock, consume, issue | a lock lost while it is held | mutual exclusion while the signal is quiet |
| RPC failover `apps/indexer/src/failover.ts` | failure count, cool-down | call | shared by concurrent calls | the primary comes back |
| Web: API, pages, `checkout-machine.ts` | views of the workflow | commands, polling | a final state shown for something that is not final | what is shown agrees with what is stored |
| Decoder, signing and vendor adapters, configuration, schema, queries, evidence, observability, UI | none of their own that interacts | conversion, reading, reporting | | |

How they interact: the page calls the application service, which runs the
transactions of the workflow store through idempotent API commands and talks to
wallet and provider itself. The provider calls `pay` with the intent that the
server signed. The scanner reads the chain through the failover port and writes
cursor, headers, logs and projections in one transaction per range; the payment
projection changes the same attempt row as the tab and the reconciler. The
reconciler shares nothing with the tab but that row. Everything that may be
called twice is protected by a row lock, a unique key or an idempotency record.

`PROJECT.json` lists every component with what is and is not modelled, and the
hazards of the code at their lines.

## 2. Modules

| Module | What it is |
| --- | --- |
| `Amounts` | sums over finite functions, rounded-down shares, checked subtraction |
| `Checkout` | the settlement contract, one action per external function, with USDC and passes as balances |
| `Escrow` | what the contract promises about money, without books |
| `CheckoutEscrow` | the refinement mapping from `Checkout` to `Escrow`, each part of it named |
| `Indexer` | scanner, cursor, lease, headers, logs, rewind, over a chain that reorganises |
| `Feed` | what a consumer of a reorganising chain is promised, without how the chain is read |
| `PaymentAttempt` | tabs, server, provider, chain, projection and reconciliation of one payment |
| `Projection` | the rows of settled orders as the indexer builds and rebuilds them, and the refund and withdrawal requests it confirms |
| `Splits` | one split: participants, creator, contract, projection and rewind |
| `SponsorGrant` | activation grants: requests, locks, budget, the signer's nonces, broadcast, reconciler |
| `MCCheckout`, `MCIndexer`, `MCPaymentAttempt`, `MCProjection`, `MCSplits`, `MCSponsorGrant` | instances for TLC |
| `AmountsProofs` | lemmas on sums and shares |
| `CheckoutProofs`, `IndexerProofs`, `PaymentAttemptProofs`, `ProjectionProofs`, `SplitsProofs`, `SponsorGrantProofs` | theorems about the module of the same name |
| `CheckoutLedgerProofs` | theorems about the books of `Checkout`, and that it implements `Escrow` |

A definition `X_Something` is a broken variant of `X`: a mistake that one of the
properties must catch. Nothing uses it.

`Indexer` leaves the content of projections out, and `Projection`, `Splits` and
`PaymentAttempt` take from it what it shows: the rows are built from a prefix of
one branch, in order, and a rewind takes back a suffix (`AppliedIsHistory`). In
each of them the contract is a sequence of calls that obeys the checks of the
contract, so an event exists only where the contract would emit it.

### Checkout

Each external function is one action because a transaction is atomic; a `revert`
is a false guard, checked subtraction included (`CanTake`). A struct that was
never written has its zero value. The order of checks does not matter where all
of them only refuse. Roles are not managed in the model: a function with a role
may be called at any time by its holder. `SignIntent` is the server: it signs
what `commerce.ts` builds from a product, and signed intents stay usable in any
order until they are paid or expire. `Donate` is somebody sending USDC to the
contract, `Tick` the clock.

The mint callback inside `pay` is not a step: state is written before the mint
and the functions are guarded against re-entry. `platformFeeBps` of the contract
only changes what `quote` answers; the fee of an order comes from its intent.
ERC-20 and ERC-1155 are balances.

`Escrow` knows funded orders, what they still hold, credits and a vault.
`ImplementsEscrow` says that `Checkout`, read through `CheckoutEscrow`, is one.

### Indexer

A block is its history: the sequence of the contents of the blocks from genesis.
Equal hashes are equal histories, and a removed block can return. Every RPC call
and every database transaction of `scanOnce` is a step: load the cursor (before
the lease, as in the code), take the lease, latest block, compare the last
processed block, walk back, rewind, read logs in halving ranges, read headers,
commit, release. Between any two of them the chain, another worker, the clock of
the lease or a crash may act.

`ProofBlocks` are the headers that `#loadProofBlocks` stores: sparse, with a
window behind the end of the range. `CommitRange` is the whole transaction:
cursor comparison, continuity, conflicts, insertion without overwriting,
projection, cursor. `Rewind` marks headers and logs behind the ancestor
non-canonical and moves the cursor.

`Feed` knows a live chain, the block up to which a consumer was fed and what it
was fed: the next events of the live chain are delivered, and once the last block
fed is not live, exactly the events that are not live are taken back.
`ImplementsFeed` says that `Indexer` is such a feed of the live chain to the
projections, with cursor and applied logs for the consumer's state. It is one when
`Steady`: the chain does not reorganise, or one worker scans alone, no
reorganisation falls between the first read of a scan and its write, and no block
that was removed comes back. It is none without any of the three conditions, as
section 3 says.

Not modelled: the second look at quarantined logs (`#reprocessDecoderQuarantines`
takes those that did not decode; here every log decodes), the re-check of the
ancestor after a rewind, which only throws, and the content of projections.

### PaymentAttempt

`attempt` is the row of `payment_attempts` (status and
`reconciliation_required`), `order` the status of its order, `proof` the final
provider observation. A tab walks through `#prepareCheckoutPayment` and
`#submitCheckoutPayment`: the plan is in its memory only, `at` is the call it is
in. Each call of the server may be performed and answered, performed and not
answered, or lost; a request to start the submission may also arrive after the
tab gave up on it (`late`, `LateStart`). `Attach` is `attachSubmission`, with its
refusals. `Include`, `Finish`, `Reorganise` are provider and chain;
`ApplyOrderPaid` and `Rewind` are what projection and rebuild do to this order
and attempt.

A job is a number of a delivery; `Enqueued` ignores a number that the queue
remembers, as BullMQ does with a job id (completed jobs are kept for seven days,
failed ones for good). A worker loads the candidate, asks the provider, records,
reschedules and completes, in separate steps; `Stall` is the loss of the lock of
a job, with its worker dead or only slow. `JobFails` is the error path with its
dead letter.

Only the tab that created the attempt ever holds a plan, since the idempotency
key of the creation has a random part and a second creation is refused. The
statuses `failed_confirmed` and `failed_pre_submission` are written nowhere. The
branch for an attempt without a provider id is out of reach past the boundary.
`listPending` and the enqueueing of its result are one step. Amounts, digests,
quotes and the content of observations are not in the model.

### Projection

The chain is a sequence of calls of one merchant's orders; `applied` is the part
projected, `agreed` how much of it the chain still has. `OrderPaid`,
`OrderRefunded`, `OrderFinalized` and `MerchantWithdrawal` are the handlers of
`projectors.ts` with every row they write: order and attempt, receipt, loyalty
award, merchant credit, refund or withdrawal row and the contract operation it is
bound to. An event whose check fails goes to `refused`, the quarantine.
`PassFound` is the handler of the pass transfer, which comes before `OrderPaid`
in the same transaction. `Rewind` is one database transaction: which orders it
touches (`Touched`), the rebuild of their rows (`RebuiltOrder`, `RebuiltCredit`,
`RebuiltReceipt`), the plan of all withdrawals again (`Replanned`) and the
operations that become `orphaned` (`Unconfirmed`). If the plan does not fit the
credits the whole transaction is rolled back. The code refuses every pass transfer
(section 3), so `NothingRefused` is about the other events.

`CreateRefund` and `CreateWithdrawal` reserve amounts against the rows;
`StartSubmission` and `RegisterSubmission` are their registration, with the
hash known or not; calls in `Direct` reach the contract past the application.
`Bound` finds the operation an event belongs to. An event does not name its
request, so two unfinished requests of one amount (`Twins`) with unknown hashes
cannot be told apart: `ExecutedIsConfirmed` and `PromisesCovered` speak of
requests without a twin, and the second of withdrawals that all go through the
application.

### Splits

One split. `PrepareSplitPayment`, `RecordSplitIntent` and `PrepareOperation` are
the three transactions of a participant's request; a request that is repeated
within the second signs the same digest, but its binding has another expiry or
signature, so an operation may be stored beside the first one (up to
`MaxOperations`); repeated later it signs another digest and is refused
(`MayRecord`). `RegisterOperation` (a submission started, submitted with its hash,
or submitted with an unknown outcome) and `RegisterSplitPaymentSubmission` are the
registration; `EndRequest` ends a request between any two. The second of them
reads the payment before and in its transaction; the model has one read, so it
leaves out a payment that is projected and taken back between the two. The event
of a payment is matched with its operations as `#confirmContractOperation` does
(`Selected`, `Confirmed`): by the hash, or the only one that has none; otherwise
it confirms none of them, and the payment is paid beside an operation that is
still open. `PrepareSplitRevocation`, `PrepareRevocation`, `StartRevocation`,
`SendRevocation`, `RecordRevocation`, `FailRevocation` and `FailOverdue` are the
steps of the creator's request, which loops over the payments it saw. `Reimburse`
and `RevokePaymentKey` are the contract, `SplitReimbursed`, `SplitPaymentRevoked`
and `Rewind` the indexer. A participant with a signature may send it without
telling the application.

Expiry of payments and the pause of the contract only refuse and have no
variable. The lock of the signer is not relied on.

### SponsorGrant

A grant stands for its recipient, a transaction for its hash. A worker is a server
process with the one request it runs and its cache of results; two requests of one
process that share the cache are not in the model, since the lock of the recipient
orders them as long as it holds. Each lock, transaction and remote call of
`use-cases/sponsor.ts` and `sponsor-grants.ts` is an action: take the lock of the
recipient, reserve under the idempotency key (which charges the budget and stores
the grant), take the lock of the signer, read the pending nonce and claim one,
sign, record the hash, broadcast, record the outcome, release. A lock may be lost
while its holder goes on; a request may fail or its process die between any two
steps; a failure of a key is recorded in a second transaction that may come late.
A provider may know fewer transactions than were sent, a broadcast may be taken
with or without its answer, a transfer may revert, the operator may sign elsewhere
with the same key, the chain may reorganise. The reconciler lists a batch in the
order of `updatedAt`, looks every row up on the chain and marks its outcome.

Narrower than the code: the several RPC calls of a look are one step, and there is
one reconciler; the balance, the pending transfers and the reservation are read
and written in one step, and recipients have no other ether; a provider may miss
transactions of the pool but knows the blocks of the chain, so its pending nonce is
not below the chain's. The store compares the nonce with what it has given, which
is what safety rests on.

`submitted` and `submitted_unknown` are one status: no query tells them apart.
`in_progress` of a key is written and replaced in one transaction.

## 3. Runs

Every run explores its whole state space, except those that end with a
counterexample: these state what the code or its documentation says and show how
the code departs from it.

| Run | Instance | Shows |
| --- | --- | --- |
| `checkout_lifecycle` | 1 merchant, 1 product with 2 versions of terms, 1 order, time 0..3, every function from the empty deployment | `AlwaysAWayOut` |
| `checkout_settlement` | 2 merchants, 2 products, 2 orders, amounts 3, 5 and 6 with fee 3/10, every split of a refund, donations | `TypeOK`, `Solvent`, `Conservation` (with `LockedBuckets`), `RefundSplitExact`, `PassesAndPoints`, `LimitsKept`, `OrdersOnlyMature`, `ImplementsEscrow` |
| `indexer_reorg` | 1 worker, height 5, window 2, ranges up to 3, 2 reorganisations, 1 fault | `TypeOK`, `NeverStuck`, `ImplementsFeed`, `EventuallyCaughtUp` |
| `indexer_workers` | 2 workers, height 4, the lease may expire at any step, 1 fault, no reorganisation | `AppliedIsHistory` (with `StoreConsistent`), `NeverBackwards` |
| `payment_races` | 1 tab that can be closed and reopened, 2 workers, 2 deliveries, 1 reorganisation, 1 fault, 1 late request | `TypeOK`, `PaidIsCanonical`, `SubmissionIsKnown`, `UnconfirmedIsListed` |
| `payment_confirmed` | 1 tab, 1 worker, 2 deliveries, 2 reorganisations, 1 fault | `EventuallyConfirmed` |
| `payment_seed` | 1 worker, 3 deliveries, no fault | counterexample to `Recoverable` |
| `projection` | 2 orders, one without refunds; 2 refunds of one order, one of them past the application; 2 withdrawals; 1 reorganisation of any depth, the indexer up to 2 calls behind | `TypeOK`, `ProjectionIsHistory`, `WithdrawnIsHistory`, `NothingRefused`, `ConfirmedByTheChain`, `ExecutedIsConfirmed`, `PromisesCovered`, `RewindPossible` |
| `splits` | 2 participants with 1 operation each, 2 digests, 2 hashes, submissions reported as submitted, 2 revocation operations per payment, one request of the creator at a time, 1 fault, the indexer 1 call behind | `ConfirmedIsHistory` (with `TypeOK`), `NothingRefused`, `RevokedStopsPayments` |
| `splits_revoking` | 2 participants, 1 request of the creator, 1 fault | counterexample to `PendingUntilConfirmed` |
| `sponsor` | 1 wallet, 2 processes, 1 key, 2 fee quotes, 2 hashes per grant, 2 faults, 1 reorganisation, 3 blocks | `TypeOK`, `FundedOnce`, `Charged`, `SentIsRecorded`, `GivenUpIsUnsent`, `ConfirmedIsPaid`, `CompletedKept` |
| `sponsor_outcomes` | 2 wallets, 1 process, 1 hash per grant, depth 2, 1 fault, 3 blocks, no reorganisation | `NoncePerGrant`, `OutcomeProven` |

Why the bounds are enough. Two orders of different merchants are what it takes
for one to draw on the money of another; amounts 3, 5 and 6 with a fee of 3/10
round at every step of a refund; a third time step lets windows open, close and
refunds mature. A reorganisation as deep as the window, a second one on top of
it and ranges longer and shorter than the window are the cases the floor of the
stored headers was made for. One tab is enough for the payment since a second
one never has a plan and only polls; two workers are what it takes for an answer
to be stale. In `projection` two refunds of one order round once and meet each
other, an order that matures at once lets a withdrawal overtake a refund, two
withdrawals are what a plan over two credits needs, and a lag of 2 lets requests
be checked against rows the chain has left behind. In `splits` two participants
are what it takes for a split to be paid in part, for one to pay while the other
is revoked, and for a loop of revocations to be interrupted between two; two
hashes let a payment be registered with the hash of another transaction, so that
its event matches no operation, and two digests let a retry sign again. That several
operations of one payment are stored, that an outcome is reported as unknown, and
more faults in one behaviour are in the theorems only: with two participants they
are too many states. In `sponsor` two processes are what a lost lock needs and two
fee quotes what a second transaction with one nonce needs; two wallets in
`sponsor_outcomes` are what a shared nonce needs. The theorems below remove these
bounds for what they state.

Passing runs leave out what their properties are conditioned against: in `Indexer`
reorganisations during a scan, two workers with a reorganisation, and removed blocks
that return; in `Projection` a second reorganisation; in `sponsor_outcomes` a list
that does not hold all rows and a reorganisation. Section "Where the conditions are
needed" says how each of them fails. The confirmation depth of `Indexer` is the
configured minimum, so that reorganisations reach processed blocks.

Deadlock is checked for the indexer, which never stops. It is not checked for
the contract (nobody has to call it, time is bounded), nor for payments, rows,
splits and grants, which may be finished or given up.

Symmetry is used in safety runs only, over order keys, transactions, tabs,
workers, participants with equal amounts, digests, fees, which the models only
compare.

### Fairness

`Indexer`: each worker keeps scanning (`runner.ts` loops until it is stopped and
goes on after an error) and an expired lease can be taken. Faults and
reorganisations are bounded by the instance; the chain owes nothing.
`PaymentAttempt`: the indexer keeps projecting and rewinding, the recovery timer
keeps firing (`reconciliation-runtime.ts:102`) and each worker goes on with its
job. Tabs, provider and chain owe nothing: `EventuallyConfirmed` asks that the
payment stays on the chain, not that it gets there.
`SponsorGrant`: only the reconciler is fair; the scan loop calls it after every
scan. Requests, signer and chain owe nothing: `OutcomeProven` speaks of transfers
that are on the chain and deep enough, while the list of the reconciler has room
for every row and the chain does not reorganise.

### What the counterexamples say

- `payment_seed`: a delivery that finds the attempt changed ends without a
  successor, and the recovery, which always enqueues delivery 1, is ignored while
  the queue remembers that id. The payment is still confirmed by the chain; what
  is lost is the provider's answer, and with it the way to learn of a failure.
- `splits_revoking`: any rewind, even of blocks without an event of the split,
  computes its status again and keeps `revoking` only while an unfinished
  revocation operation is stored. Before the first one, or between two, the split
  becomes active again, its invitations can be prepared and signed, and the
  request that is revoking it is refused.

### Where the conditions are needed

The code does not keep these properties outside their conditions. TLC finds each of
the following when the constants of a run are changed, or the condition or exception of
the property is dropped, as said.

- `AppliedIsHistory` with one worker, one reorganisation and `ReorgsDuringScans`: the
  logs of a range are read before the headers that are to prove them
  (`scanner.ts:205-206`), and only the headers of blocks with a log in the list are
  compared with it. When the chain reorganises in between, the list of the old branch
  may be committed under the headers of the new one, and the event that the new
  branch has there is never projected.
- `AppliedIsHistory` with two workers and one reorganisation: `rewind` compares
  nothing with what it was computed from (`indexer-store.ts:449-461`), so a worker
  that lost its lease after it walked back undoes what another one has committed on
  the new branch since, and the undone rows are not projected again.
- `AncestorStored` with `ForksReturn` and three reorganisations: a block that leaves
  the chain and returns keeps its row non-canonical, since the row exists already
  (`indexer-store.ts:345`); after another reorganisation no ancestor is found within
  the window and every scan fails.
- `WithdrawnIsHistory` with two orders, two withdrawals and two reorganisations: the
  rebuild of an order writes a credit with nothing withdrawn
  (`indexer-store.ts:1258,1269`), and withdrawals are planned again only when a
  `MerchantWithdrawal` is among what was removed (`indexer-store.ts:500-507,727-733`).
  The first reorganisation takes a withdrawal away, and the one that stays is planned
  over the credit of an older order that matured after it; the second takes away only
  that maturation, the credit is built again, and what was withdrawn of it is
  forgotten. `NothingRefused` and `ExecutedIsConfirmed` fail as a consequence: a
  withdrawal that the contract makes is refused.
- `NothingRefused` without its exception: the contract mints a pass before it emits
  `OrderPaid` (`OpenTabCheckout.sol:473-474`), and the projector looks for a canonical
  `OrderPaid` (`projectors.ts:1532`), so the pass of a receipt is not marked issued by
  its own transaction. Nothing in the applications calls `replayQuarantined`.
- `ConfirmedIsHistory` without its exception: a payment whose event was matched with
  none of its operations is paid, and a registration of such an operation puts it
  back to confirming (`backend-api-store.ts:886-909`); every later rewind sums up the
  payments that are paid (`indexer-store.ts:789-806`) and shows less than what the
  contract moved. The property says that nothing else does.
- `OutcomeProven` without `ListHoldsAll`, `Batch` 1 and two wallets: rows that are
  pending or confirmed and not touched fill the list of the reconciler for ever
  (`sponsor-grants.ts:461`); with 100 of them in the code no later grant is looked at.
- `OutcomeProven` without `ListHoldsAll`, two wallets and one reorganisation: a
  confirmed transfer that was moved to another block is found with another proof, the
  write throws (`sponsor-grants.ts:533`) on every scan, and ends it for the rows
  behind. Nothing else ends a scan (`ReconcilerGetsThrough`).

### What the models show beyond the runs

Each of these is a behaviour of the model that no property is about.

- `Projection`: nothing marks a refund or withdrawal request failed, so an
  abandoned one keeps its reservation. Of several unfinished requests of one
  amount with an unknown hash none is confirmed. Beyond 500 unfinished operations,
  or 1000 matured credits, requests are no longer found or withdrawals no longer
  planned.
- `Splits`: after the first projected payment the split is `partially_paid`, and
  `prepareSplitPayment` asks for `active`: nobody else can be given a signature
  any more. A registration that comes late turns a revoked payment back, which
  the next rewind reads as an open split. A request that dies between
  `recordSplitIntent` and `prepareContractOperation` leaves a payment that can
  only be revoked. An unknown or orphaned revocation is never sent again; two
  overlapping requests of the creator send one twice, and the contract refuses
  the second.
- `SponsorGrant`: a grant whose broadcast was lost, or which cannot be prepared
  again, holds its nonce and with it every later grant, until an operator acts.
  Failed and replaced grants stay charged to the budget. A transfer that failed,
  and after a deep reorganisation succeeds, stays failed.
- `PaymentAttempt`: `startSubmission` writes the status `expired` and throws in
  the same transaction (`workflow-store.ts:473-479`), so the write is rolled back
  and an attempt with an expired quote stays `prepared`. The page ends in a final
  failure for an `orphaned` order (`live-checkout-page.tsx:174-178`), which the
  next inclusion undoes.

## 4. Proofs

TLAPS checks them; nothing is assumed but the named assumptions on constants.

**CheckoutProofs.** `IInv == TypeOK /\ OrdersSane /\ Solvent`. `Solvent` is not
inductive: that a refund takes as much from the vault as from the locked total
needs that the parts of merchant and platform add up to the refund, which needs
that what was refunded so far is the rounded-down share of the cumulative
amount, which is what `OrdersSane` says of each paid order. `AmountsProofs`
shows the facts on shares: they add up, grow with the amount, and never pass the
whole. There is one lemma per group of functions that moves no money and one per
function that does. From it: `TypeCorrect`, `AlwaysSolvent`, `RefundsExact`,
`OrdersMature`. `TypeCorrect` is about types only: a function whose subtraction
would revert is not enabled (`CanTake`), so that none reverts is a theorem of its
own, `NeverShort` below. The proofs use
`AddressAssumption`, `FeeAssumption`, `LimitAssumption`, `InputAssumption` and
`BoundAssumption`.

**CheckoutLedgerProofs.** The books, on top of `IInv`. What is summed over the
orders is a column, a function from sane orders to naturals (`LockedColumn`,
`NetColumn`, `PassColumn`, `SoldColumn` and so on), and a step that rewrites one
order moves the sum of every column by the difference of two entries
(`ColumnMoves`). `LInv` says of each counter which column it is the sum of:
`LockedAgree`, `TotalsAgree`, `ReceiptsAgree`, `HoldingsAgree`, `SalesAgree`;
`LimitsAgree` keeps sales within terms, and `FreshIds` is what it needs when a
product takes a new id. From it: `MoneyConserved`, `HoldingsExact`, `LimitsHold`,
and `NeverShort`, that no refund, finalization or withdrawal which is due can
fail for want of a bucket, points, passes or money in the vault: that is the part
of `AlwaysAWayOut` that can be stated without ENABLED. `EscrowImplemented` is the
refinement: the initial states map to those of `Escrow`, and each function maps
to funding, returning, releasing, paying out, or to no step.

**IndexerProofs.** `Bounds` keeps the numbers a scan works with in range; it is
inductive by itself, for any number of workers, faults and reorganisations, and
gives `TypeCorrect`. `History` relates the tables (`Settled`, `Tables`: one
canonical block per height, logs under their headers), the ancestor that a walk
back will find (`Anchor`), the cursor (`Following`) and what every scan has read
(`Abreast`). It needs `Steady`: the chain never reorganises, or there is one
worker, the chain does not change between two reads of one scan, and a removed
block does not come back. Outside `Steady` it is false (section 3), so the
condition is the code's and not the proof's. From it: `AppliedHistory` and
`AncestorsKept`, for any number of reorganisations of one worker or any number of
workers on a chain that does not reorganise, and `CursorNeverBack` for the latter.

Two more facts close the loop. `NoRepeat`: no transaction is in two blocks of the
live chain, so a log that is canonical elsewhere does not conflict with a range.
`Turned`: a scan walks back only when its last block has left the live chain, so
the ancestor is below it and an incident has a positive depth. With them
`ScansSucceed` shows that no scan fails for what it read, which is the safety part
of `EventuallyCaughtUp`: whatever stops a scan is a fault or another worker.
`IsFeed` is the refinement, when `Steady`, action by action: `CommitRange` maps to a
delivery, `Rewind` to taking back, everything else to a move of the chain or no
step. The proofs use `NameAssumption`, `OptionAssumption` and `ChainAssumption`.

**PaymentAttemptProofs.** `IInv` adds to the checked invariants two facts:
`TabsPastBoundary` (a tab that goes on to the provider has made the boundary
durable) and `ChainNeedsProvider` (no payment without an operation). They are
what makes `PaidIsCanonical` inductive: when a payment is projected the attempt
is past the boundary, so its status is one that the projection turns into paid.
Types first, action by action; then the three safety facts, by actors. From it:
`TypeCorrect`, `OnlyTheChainPays`, `NoUnknownSubmission`, `NothingForgotten` and
the action property `NoWayBack`, for any number of tabs, workers, deliveries,
late requests, faults and reorganisations. The proofs use `DeliveryAssumption`
and `BoundAssumption`.

**ProjectionProofs.** The contract first: every prefix of the chain is `Legal`,
that is, each call was allowed after those before it and its sums are within
their bounds (`Solid`); so is what is projected, before and after a rewind. Then
the rows, order by order (`Tells`): the projector recomputes from projected totals
what the contract computed, and agrees; a rebuild from a prefix finds each event
it needs, because none was refused. Then the requests (`RowsSound`). Together they
are `IInv`, inductive without any condition on reorganisations, and give
`TypeCorrect`, `RowsAreHistory`, `ConfirmedByACall` and `RewindNeverThrows`.

Three layers follow. They hold until the second reorganisation, for any
`MaxReorgs`, which is why their theorems read `Spec => [](reorgs <= 1 => ...)`.
With `MaxReorgs = 2` TLC refutes `WithdrawnIsHistory`, and as a consequence
`NothingRefused` and `ExecutedIsConfirmed`; it finds no counterexample to
`PromisesCovered` in that instance, but its proof rests on the others.

- `WInv`, of what is withdrawn: `creditOrder` lists each credit once, in the order
  of the payments (`CreditsListed`); a greedy plan over a list takes exactly what
  was asked when the list holds it (`DebitsAddUp`), by summing over positions and
  not by induction; and only a credit that was finalized before some withdrawal
  has anything withdrawn (`PaidOutKnown`), so that a rewind that removes no
  withdrawal touches no such credit. Gives `WithdrawnExactly`, `NoEventRefused`.
- `EInv`, of requests and their own calls: a call on the chain is of a request that
  was sent, a hash that is known is the request's own (`CallsKnown`), and a request
  without a twin is confirmed by a call that comes no later than its own
  (`CallsHeld`). The last is the strengthening needed for rewinds: a rewind that
  takes the confirming call away takes the own one too. Gives
  `ExecutedGetsConfirmed`.
- `PInv`, of promises: all that was ever asked for (`Asked`) is at most what the
  orders past their refund window are worth after the calls of the chain
  (`Worth`), and after those that are projected. Refunds of such an order may
  leave the chain but none is added (`WindowsSound`), so a reorganisation takes
  nothing from that worth, only from what has matured. Gives
  `PromisesAreCovered`.

What a second rewind gets wrong is one-sided. `OInv` says that the credits
together have no more withdrawn than the projected withdrawals took: a
withdrawal, planned or planned again, writes what it took and no more
(`WithdrawalAdds`), and a rebuild only forgets. It is inductive on `IInv` alone, so
`NothingIsWithheld` has no condition on reorganisations nor on what can be read:
what the credits leave free is never less than what the contract owes the
merchant. No run checks `NothingWithheld`.

The theorems of the three layers assume `CreditsRead` (no more orders than credits
that are read) and those of the last two `CandidatesRead` (no more requests than
operations that are looked at): beyond these limits the code stops planning and
confirming. The proofs use the four assumptions of `Projection`.

**SplitsProofs.** `Agreed` adds to the types

- `Booked`: the confirmed amount is the sum of what participants are shown to have
  paid, each by a projected reimbursement of that amount;
- `Keys`: the contract uses a key once, on the chain and in what is projected;
- `Signing`: a signature is out only for a payment that was recorded with its
  digest, and every operation of a payment has that digest;
- `Followed`: what is shown as paid or revoked was projected, and a revoked split
  has no other issued payment;
- `Matched`: beside a projected reimbursement every operation of the payment is
  confirmed or `Untold` (the event could not tell it from another one, or it has
  another hash), and the payment is paid or has a `Mistaken` one, that is, untold and
  registered;
- `Requesting`: what the creator's request knows of the payment it is at;

and that nothing was refused. `Matched` is what a late registration may break and
what makes the exception in `ConfirmedIsHistory` as small as it is. One lemma per
action. From it: `ConfirmedHistory`, `NothingEverRefused` and the action property
`RevokedIsFinal`, for any number of participants, digests, operations, hashes and
faults. That the confirmed amount is always the sum of the projected
reimbursements is false (section 3).

**SponsorGrantProofs.** All safety properties of `SponsorGrant`, for any number
of wallets, processes, keys, faults and reorganisations. The base is `Fitting`:
the types, what a row of each status must hold (`Fits`), what a request at each
step knows of its row, and what the scan has in hand. It is inductive by itself,
one lemma per action. Three summaries then replace the actions in the proofs that
follow: what a step may write into a grant (`GrantStep`, `Rewrites`), what it may
do to a request (`RequestStep`) and to the chain (`ChainStep`). On them rest

- `Sending`: every transaction in the pool carries the nonce of its grant, and no
  two grants have one nonce; gives `NoncesNotShared` and `NothingUnrecorded`;
- `Chained`: the nonces on the chain grow block by block, so that two transfers
  of one grant, which share a nonce, cannot both be there; gives
  `OneGrantPerWallet`;
- `LookIsPaid`, `ProofsArePaid`: what the reconciler saw, and what it wrote, was
  on the chain; gives `ConfirmedWasPaid`;
- `BudgetAgrees`: what was charged is the sum over the grants; with `FundedOnce`
  and `TotalAtMost` it gives `SpendingCharged`;
- `Scanning`: each row in the hands of the reconciler, as it was read, has its
  hashes among those of the grant as it is now, and as long as the chain has not
  reorganised the block of its confirmation is there (`Known`); so is the block of
  what was found for it (`LookKnown`) and of every confirmed grant
  (`GrantsThere`). Two blocks with hashes of one grant share its nonce, hence are
  one block. Gives `ReconcilerGetsThrough`: the hash that is written is always
  recorded, and no look and no write throws before the first reorganisation. No
  run checks `ScanGoesThrough`; after a reorganisation its last two parts fail, see
  section 3.

`GivingUpIsSafe` and the action property `GrantedKeysStay` follow from the
summaries alone. The proofs use `PolicyAssumption`, `NamesAssumption` and
`BoundsAssumption`.

**Only model-checked.** Liveness (`EventuallyCaughtUp`, `EventuallyConfirmed`,
`OutcomeProven`) and `AlwaysAWayOut`, which uses ENABLED, are out of the prover's
reach; `NeverShort` is what of the latter can be proved. Every other property of
a passing run is stated by a theorem, with the conditions named above for
`Indexer` and for `WithdrawnIsHistory`, `NothingRefused`, `ExecutedIsConfirmed`
and `PromisesCovered` of `Projection`. The runs that end with a
counterexample have nothing to prove.

## 5. Plan

Done: `Checkout` with `Escrow`, `Indexer`, `PaymentAttempt`, `Projection` (with the
requests of refunds and withdrawals), `Splits` (with its contract),
`SponsorGrant` (with idempotency, locks and budget), and the proofs above. Next,
in this order:

1. `Catalogue`: the projections of merchants and products and their rebuilds. A
   rebuild of a merchant whose creation was removed falls back to a draft with
   the owner's wallet, and one of a product keeps the last metadata, so events
   that return may not match their rows.
2. `Session`: the rotation of token hashes by concurrent verifiers.
3. `Failover`: threshold and cool-down of the primary, and two providers that
   answer from different branches.

## 6. Not modelled

Parsing and formatting, cryptography, vendor payloads, queries, configuration,
telemetry and presentation: they keep no state that interacts, and are tested as
functions by the repository. Role administration and re-entrancy guards are those
of OpenZeppelin. The database is taken at its word: a transaction happens at once
or not at all, row locks and unique keys hold. Deployment scripts, evidence
collection and migrations run once and alone. The cross-chain spikes
(`spikes/`) are experiments that no application imports. These parts are most of
the lines of the repository, which is why the map names a small share of them.
Sessions, failover and the catalogue are not modelled yet; see the plan.
