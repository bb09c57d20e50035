--------------------------- MODULE PaymentAttempt ---------------------------
(***************************************************************************)
(* The payment of one checkout: its order and its only payment attempt,    *)
(* changed by browser tabs (browser-application-service.ts through the     *)
(* transactions of workflow-store.ts), by the workers that reconcile it    *)
(* with the payment provider (reconciler.ts, reconciliation-store.ts and   *)
(* the job queue of reconciliation-runtime.ts), and by the indexer.        *)
(*                                                                         *)
(* A request and its answer are one step when nothing can come between     *)
(* that matters; each may be lost, and a request to start the submission   *)
(* may arrive after its tab gave up on it.                                 *)
(***************************************************************************)
EXTENDS Naturals, FiniteSets

CONSTANTS Tabs, Workers, MaxDeliveries

\* What the environment may do in an instance.
CONSTANTS MaxReorgs, MaxFaults, MaxLate

ASSUME DeliveryAssumption == MaxDeliveries \in Nat \ {0}
ASSUME BoundAssumption == MaxReorgs \in Nat /\ MaxFaults \in Nat /\ MaxLate \in Nat

VARIABLES
  attempt,      \* status and reconciliationRequired of the payment attempt
  order,        \* status of the order
  quoteExpired, \* preparedExpiresAt has passed
  proof,        \* the provider's final answer is recorded
  deadLettered,
  tabs,         \* what each tab is doing, whether it holds the validated plan,
                \* and whether its page shows a final failure
  late,         \* requests to start the submission that are still under way
  provider,     \* the provider's operation
  included,     \* which inclusion of OrderPaid is on the chain, 0 if none
  applied,      \* which one is projected
  jobs,         \* the queue: the delivery of each number
  worker,       \* what each worker knows
  reorgs, faults

server == <<attempt, order, quoteExpired, proof, deadLettered>>
browser == <<tabs, late>>
world == <<provider, included, reorgs>>
queue == <<jobs, worker>>
vars == <<server, browser, world, queue, applied, faults>>

PreSubmission == {"created", "prepared", "expired"}
Pending == {"submission_started", "submitted", "submitted_unknown", "executing", "confirming"}
Boundary == Pending \cup {"paid"}
Statuses == {"none"} \cup PreSubmission \cup Boundary

Attempt(status, required) == [status |-> status, required |-> required]
NoAttempt == Attempt("none", FALSE)
Deliveries == 1..MaxDeliveries

NewTab == [at |-> "idle", plan |-> FALSE, failed |-> FALSE]
Idle == [at |-> "idle", n |-> 1, locked |-> FALSE, candidate |-> NoAttempt, answer |-> "none"]

Init ==
  /\ attempt = NoAttempt /\ order = "none" /\ quoteExpired = FALSE
  /\ proof = FALSE /\ deadLettered = FALSE
  /\ tabs = [t \in Tabs |-> NewTab] /\ late = 0
  /\ provider = "none" /\ included = 0 /\ applied = 0
  /\ jobs = [n \in Deliveries |-> "none"] /\ worker = [w \in Workers |-> Idle]
  /\ reorgs = 0 /\ faults = 0

-----------------------------------------------------------------------------
(* Browser tabs and the server's transactions                                *)

TabGoes(t, at) == tabs' = [tabs EXCEPT ![t].at = at]
OnlyBrowserAndServer == UNCHANGED <<world, queue, applied, faults>>

\* A checkout gets one order with one attempt, ever.
CreateAttempt(t) ==
  /\ tabs[t].at = "idle" /\ attempt = NoAttempt
  /\ attempt' = Attempt("created", FALSE) /\ order' = "created"
  /\ \E at \in {"prepare", "idle"} : TabGoes(t, at)
  /\ UNCHANGED <<quoteExpired, proof, deadLettered, late>> /\ OnlyBrowserAndServer

\* The provider prepares the operation and the server records it.  The plan
\* lives in the memory of the tab and is lost with the answer.
RecordPrepared(t) ==
  /\ tabs[t].at = "prepare" /\ attempt.status = "created"
  /\ attempt' = Attempt("prepared", FALSE) /\ quoteExpired' = FALSE
  /\ \E held \in BOOLEAN : tabs' = [tabs EXCEPT ![t].at = "idle", ![t].plan = held]
  /\ UNCHANGED <<order, proof, deadLettered, late>> /\ OnlyBrowserAndServer

QuoteExpires ==
  /\ attempt.status = "prepared" /\ ~quoteExpired
  /\ quoteExpired' = TRUE
  /\ UNCHANGED <<attempt, order, proof, deadLettered, browser>> /\ OnlyBrowserAndServer

\* The tab reads the attempt, finds it prepared, and has the wallet sign.
BeginSubmission(t) ==
  /\ tabs[t].at = "idle" /\ tabs[t].plan /\ attempt.status = "prepared"
  /\ TabGoes(t, "start")
  /\ UNCHANGED <<server, late>> /\ OnlyBrowserAndServer

\* Starting a prepared attempt is the boundary after which money may move.  The
\* refusal of an expired quote throws inside the transaction that marked it.
CanStart == attempt.status = "prepared" /\ ~quoteExpired
Start == attempt' = IF CanStart THEN Attempt("submission_started", TRUE) ELSE attempt

StartSubmission(t) ==
  /\ tabs[t].at = "start"
  /\ Start
  /\ tabs' = [tabs EXCEPT ![t].at = IF CanStart THEN "submit" ELSE "idle",
                          ![t].plan = ~CanStart]
  /\ UNCHANGED <<order, quoteExpired, proof, deadLettered, late>> /\ OnlyBrowserAndServer

\* Without an answer, or without a signature, the tab never goes on to the provider.
AfterLostStart_Submits == "submit"
AfterLostStart == "idle"

LoseStartAnswer(t) ==
  /\ tabs[t].at = "start"
  /\ \/ Start /\ UNCHANGED late
     \/ UNCHANGED <<attempt, late>>
     \/ late < MaxLate /\ late' = late + 1 /\ UNCHANGED attempt
  /\ TabGoes(t, AfterLostStart)
  /\ UNCHANGED <<order, quoteExpired, proof, deadLettered>> /\ OnlyBrowserAndServer

LateStart ==
  /\ late > 0 /\ late' = late - 1
  /\ Start
  /\ UNCHANGED <<order, quoteExpired, proof, deadLettered, tabs>> /\ OnlyBrowserAndServer

\* The provider may take the signed plan and its answer may still be lost.
SubmitValidated(t) ==
  /\ tabs[t].at = "submit"
  /\ \E taken, answered \in BOOLEAN :
       /\ provider' = IF taken THEN "moving" ELSE provider
       /\ TabGoes(t, IF taken /\ answered THEN "register" ELSE "unknown")
  /\ UNCHANGED <<server, late, included, reorgs, queue, applied, faults>>

\* attachSubmission: only from the boundary; the same status again is no change.
Attach(status) ==
  IF attempt.status = "submission_started"
  THEN attempt' = Attempt(status, TRUE) /\ order' = "submitted"
  ELSE UNCHANGED <<attempt, order>>

RegisterSubmission(t) ==
  /\ tabs[t].at = "register"
  /\ \/ Attach("submitted") /\ TabGoes(t, IF attempt.status \in {"submission_started", "submitted"}
                                          THEN "idle" ELSE "unknown")
     \/ Attach("submitted") /\ TabGoes(t, "unknown")
     \/ UNCHANGED <<attempt, order>> /\ TabGoes(t, "unknown")
  /\ UNCHANGED <<quoteExpired, proof, deadLettered, late>> /\ OnlyBrowserAndServer

RegisterUnknown(t) ==
  /\ tabs[t].at = "unknown"
  /\ Attach("submitted_unknown") \/ UNCHANGED <<attempt, order>>
  /\ TabGoes(t, "idle")
  /\ UNCHANGED <<quoteExpired, proof, deadLettered, late>> /\ OnlyBrowserAndServer

\* The page polls; an orphaned order is reported as a final failure.
PollPage(t) ==
  /\ tabs[t].at = "idle" /\ order = "orphaned" /\ ~tabs[t].failed
  /\ tabs' = [tabs EXCEPT ![t].failed = TRUE]
  /\ UNCHANGED <<server, late>> /\ OnlyBrowserAndServer

CloseTab(t) ==
  /\ tabs[t] # NewTab
  /\ tabs' = [tabs EXCEPT ![t] = NewTab]
  /\ UNCHANGED <<server, late>> /\ OnlyBrowserAndServer

-----------------------------------------------------------------------------
(* Provider, chain and indexer                                               *)

Include ==
  /\ provider \in {"moving", "succeeded"} /\ included = 0
  /\ included' = reorgs + 1
  /\ UNCHANGED <<provider, reorgs, server, browser, queue, applied, faults>>

Finish ==
  /\ provider = "moving"
  /\ provider' = IF included # 0 THEN "succeeded" ELSE "failed"
  /\ UNCHANGED <<included, reorgs, server, browser, queue, applied, faults>>

Reorganise ==
  /\ included # 0 /\ reorgs < MaxReorgs
  /\ included' = 0 /\ reorgs' = reorgs + 1
  /\ UNCHANGED <<provider, server, browser, queue, applied, faults>>

\* The statuses that a projected OrderPaid turns into paid.
Payable_Unconfirmed == {"created", "prepared"} \cup (Pending \ {"confirming"})
Payable == {"created", "prepared"} \cup Pending

ApplyOrderPaid ==
  /\ included # 0 /\ applied = 0
  /\ applied' = included
  /\ order' = "paid"
  /\ attempt' = IF attempt.status \in Payable THEN Attempt("paid", FALSE) ELSE attempt
  /\ UNCHANGED <<quoteExpired, proof, deadLettered, browser, world, queue, faults>>

Unpaid_Unwatched == Attempt("confirming", FALSE)
Unpaid == Attempt("confirming", TRUE)

\* rewind and rebuildOrderAfterReorg.
Rewind ==
  /\ applied # 0 /\ applied # included
  /\ applied' = 0
  /\ order' = "orphaned"
  /\ attempt' = IF attempt.status = "paid" THEN Unpaid ELSE attempt
  /\ UNCHANGED <<quoteExpired, proof, deadLettered, browser, world, queue, faults>>

-----------------------------------------------------------------------------
(* Reconciliation with the provider                                          *)

OnlyQueue == UNCHANGED <<server, browser, world, applied, faults>>

\* listPending: what may have moved money and is not confirmed, and what is
\* paid without the provider's final answer.
Listed == \/ attempt.status \in Pending /\ attempt.required
          \/ attempt.status = "paid" /\ ~proof

\* The queue takes a job number once, as long as it remembers the number.
Enqueued(n) == [jobs EXCEPT ![n] = IF @ = "none" THEN "waiting" ELSE @]

SeedPending ==
  /\ Listed
  /\ jobs' = Enqueued(1)
  /\ UNCHANGED worker /\ OnlyQueue

TakeJob(w, n) ==
  /\ worker[w].at = "idle" /\ jobs[n] = "waiting"
  /\ jobs' = [jobs EXCEPT ![n] = "active"]
  /\ worker' = [worker EXCEPT ![w] = [Idle EXCEPT !.at = "load", !.n = n, !.locked = TRUE]]
  /\ OnlyQueue

LoadCandidate(w) ==
  /\ worker[w].at = "load"
  /\ worker' = [worker EXCEPT ![w].candidate = attempt,
       ![w].at = IF attempt.required \/ attempt.status = "paid" THEN "ask" ELSE "complete"]
  /\ UNCHANGED jobs /\ OnlyQueue

\* What the provider says of its operation; nothing when the call fails.
Answers == {"none"} \cup
  CASE provider = "none" -> {"unknown"}
    [] provider = "moving" -> {"unknown", "executing"}
    [] OTHER -> {provider}

GetOperation(w) ==
  /\ worker[w].at = "ask"
  /\ \E answer \in Answers :
       worker' = [worker EXCEPT ![w].answer = answer,
         ![w].at = IF answer # "succeeded"
                      /\ (answer = "none" \/ worker[w].candidate.status = "paid")
                   THEN "schedule" ELSE "record"]
  /\ UNCHANGED jobs /\ OnlyQueue

NextStatus_AsAnswered(answer) == answer
NextStatus(answer) ==
  CASE answer = "succeeded" -> "confirming"
    [] answer = "executing" -> "executing"
    [] OTHER -> "submitted_unknown"

\* The observation is recorded only on an attempt that has the status it was
\* loaded with and, unless it is paid, still asks to be reconciled.
Recordable_Stale(candidate) == candidate.status = "paid" \/ candidate.required
Recordable(candidate) ==
  attempt.status = candidate.status /\ (candidate.status = "paid" \/ attempt.required)

RecordObservation(w) ==
  LET s == worker[w]
      paid == s.candidate.status = "paid" IN
  /\ s.at = "record"
  /\ IF ~Recordable(s.candidate)
     THEN UNCHANGED <<attempt, proof>> /\ worker' = [worker EXCEPT ![w].at = "complete"]
     ELSE /\ attempt' = IF paid THEN attempt ELSE Attempt(NextStatus(s.answer), TRUE)
          /\ proof' = (s.answer = "succeeded")
          /\ worker' = [worker EXCEPT ![w].at = IF paid THEN "complete" ELSE "schedule"]
  /\ UNCHANGED <<order, quoteExpired, deadLettered, jobs, browser, world, applied, faults>>

\* The next delivery, or a dead letter after the last one.
Schedule(w) ==
  LET n == worker[w].n IN
  /\ worker[w].at = "schedule"
  /\ IF n = MaxDeliveries
     THEN deadLettered' = TRUE /\ UNCHANGED jobs
     ELSE jobs' = Enqueued(n + 1) /\ UNCHANGED deadLettered
  /\ worker' = [worker EXCEPT ![w].at = "complete"]
  /\ UNCHANGED <<attempt, order, quoteExpired, proof, browser, world, applied, faults>>

\* Only the worker that holds the lock of a job can end it.
JobBecomes(w, state) ==
  jobs' = IF worker[w].locked THEN [jobs EXCEPT ![worker[w].n] = state] ELSE jobs

CompleteJob(w) ==
  /\ worker[w].at = "complete"
  /\ JobBecomes(w, "done")
  /\ worker' = [worker EXCEPT ![w] = Idle]
  /\ OnlyQueue

\* The lock of a job expires and the queue delivers it again: its worker has
\* died, or is only slow.
Stall(w) ==
  /\ worker[w].at # "idle" /\ worker[w].locked /\ faults < MaxFaults
  /\ faults' = faults + 1
  /\ JobBecomes(w, "waiting")
  /\ \E dead \in BOOLEAN :
       worker' = [worker EXCEPT ![w] = IF dead THEN Idle ELSE [@ EXCEPT !.locked = FALSE]]
  /\ UNCHANGED <<server, browser, world, applied>>

\* An error in a job, of the database, of the queue or in what the provider
\* answered: a dead letter, and the job has failed.
JobFails(w) ==
  /\ worker[w].at \in {"load", "ask", "record", "schedule"} /\ faults < MaxFaults
  /\ faults' = faults + 1
  /\ deadLettered' = TRUE
  /\ JobBecomes(w, "failed")
  /\ worker' = [worker EXCEPT ![w] = Idle]
  /\ UNCHANGED <<attempt, order, quoteExpired, proof, browser, world, applied>>

-----------------------------------------------------------------------------
Browser(t) ==
  \/ CreateAttempt(t) \/ RecordPrepared(t) \/ BeginSubmission(t) \/ StartSubmission(t)
  \/ LoseStartAnswer(t) \/ SubmitValidated(t) \/ RegisterSubmission(t) \/ RegisterUnknown(t)
  \/ PollPage(t) \/ CloseTab(t)

Reconcile(w) ==
  \/ \E n \in Deliveries : TakeJob(w, n)
  \/ LoadCandidate(w) \/ GetOperation(w) \/ RecordObservation(w) \/ Schedule(w) \/ CompleteJob(w)

Next ==
  \/ \E t \in Tabs : Browser(t)
  \/ LateStart \/ QuoteExpires
  \/ Include \/ Finish \/ Reorganise
  \/ ApplyOrderPaid \/ Rewind
  \/ SeedPending \/ \E w \in Workers : Reconcile(w) \/ Stall(w) \/ JobFails(w)

Spec == Init /\ [][Next]_vars

\* The indexer keeps scanning, the recovery timer keeps firing and the workers
\* keep taking jobs.  Browsers, the provider and the chain owe nothing.
Fairness ==
  /\ WF_vars(ApplyOrderPaid) /\ WF_vars(Rewind) /\ WF_vars(SeedPending)
  /\ \A w \in Workers : WF_vars(Reconcile(w))

FairSpec == Spec /\ Fairness

-----------------------------------------------------------------------------
(* Properties *)

\* Every variable has its type.
TypeOK ==
  /\ attempt \in [status : Statuses, required : BOOLEAN]
  /\ order \in {"none", "created", "submitted", "paid", "orphaned"}
  /\ quoteExpired \in BOOLEAN /\ proof \in BOOLEAN /\ deadLettered \in BOOLEAN
  /\ tabs \in [Tabs -> [at : {"idle", "prepare", "start", "submit", "register", "unknown"},
                        plan : BOOLEAN, failed : BOOLEAN]]
  /\ late \in 0..MaxLate
  /\ provider \in {"none", "moving", "succeeded", "failed"}
  /\ included \in 0..(MaxReorgs + 1) /\ applied \in 0..(MaxReorgs + 1)
  /\ jobs \in [Deliveries -> {"none", "waiting", "active", "done", "failed"}]
  /\ worker \in [Workers -> [at : {"idle", "load", "ask", "record", "schedule", "complete"},
                             n : Deliveries, locked : BOOLEAN,
                             candidate : [status : Statuses, required : BOOLEAN],
                             answer : {"none", "unknown", "executing", "succeeded", "failed"}]]
  /\ reorgs \in 0..MaxReorgs /\ faults \in 0..MaxFaults

\* Only the chain says paid: order and attempt are paid exactly while an
\* OrderPaid is projected, whatever late registrations, the provider and slow
\* workers have to say.
PaidIsCanonical ==
  /\ order = "paid" <=> applied # 0
  /\ attempt.status = "paid" <=> applied # 0

\* Money moves only after the server knows that it may: the provider has never
\* taken the plan of an attempt that could still be prepared, started or expire.
SubmissionIsKnown == provider # "none" => attempt.status \in Boundary

\* An attempt that may have moved money is watched until the chain confirms it:
\* it is in the list of the recovery, also after a reorganisation.
UnconfirmedIsListed == attempt.status \in Pending => Listed

\* A payment that stays on the chain ends as paid, for good.
EventuallyConfirmed == <>[](included # 0) => <>[](attempt.status = "paid" /\ order = "paid")

\* The recovery recovers: a listed attempt that was not given up has a delivery
\* under way, or gets one from the next seed.
Recoverable ==
  Listed /\ ~deadLettered =>
    jobs[1] = "none" \/ \E n \in Deliveries : jobs[n] \in {"waiting", "active"}
=============================================================================
