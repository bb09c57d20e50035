------------------------ MODULE PaymentAttemptProofs ------------------------
(***************************************************************************)
(* What holds of a payment attempt for any number of tabs, workers,        *)
(* deliveries, reorganisations, faults and late requests.                  *)
(***************************************************************************)
EXTENDS PaymentAttempt, TLAPS

\* A tab that goes on to the provider, or is past it, has started the submission.
TabsPastBoundary ==
  \A t \in Tabs : tabs[t].at \in {"submit", "register", "unknown"}
                    => attempt.status \in Boundary

\* Only an operation that the provider has taken can pay on the chain.
ChainNeedsProvider == included # 0 => provider # "none"

\* The inductive invariant.  That the attempt is payable when its payment is
\* projected, hence paid with its order, needs the boundary; the boundary needs
\* the tabs.
IInv ==
  /\ TypeOK
  /\ PaidIsCanonical /\ SubmissionIsKnown /\ UnconfirmedIsListed
  /\ TabsPastBoundary /\ ChainNeedsProvider

-----------------------------------------------------------------------------
(* Types *)

AttemptType == [status : Statuses, required : BOOLEAN]
TabType == [at : {"idle", "prepare", "start", "submit", "register", "unknown"},
            plan : BOOLEAN, failed : BOOLEAN]
WorkerType == [at : {"idle", "load", "ask", "record", "schedule", "complete"},
               n : Deliveries, locked : BOOLEAN, candidate : AttemptType,
               answer : {"none", "unknown", "executing", "succeeded", "failed"}]

\* The first state is well typed.
LEMMA InitType == Init => TypeOK
<1> SUFFICES ASSUME Init PROVE TypeOK
  OBVIOUS
<1>1. NoAttempt \in AttemptType
  BY DEF NoAttempt, Attempt, AttemptType, Statuses
<1>2. 1 \in Deliveries
  BY DeliveryAssumption DEF Deliveries
<1>3. Idle \in WorkerType
  BY <1>1, <1>2 DEF Idle, WorkerType
<1>4. NewTab \in TabType
  BY DEF NewTab, TabType
<1>5. tabs \in [Tabs -> TabType] /\ worker \in [Workers -> WorkerType]
  BY <1>3, <1>4 DEF Init
<1>6. jobs \in [Deliveries -> {"none", "waiting", "active", "done", "failed"}]
  BY DEF Init
<1>7. /\ late \in 0..MaxLate /\ included \in 0..(MaxReorgs + 1)
      /\ applied \in 0..(MaxReorgs + 1) /\ reorgs \in 0..MaxReorgs /\ faults \in 0..MaxFaults
  BY BoundAssumption DEF Init
<1> QED
  BY <1>1, <1>5, <1>6, <1>7 DEF Init, TypeOK, AttemptType, TabType, WorkerType

\* One record of a function of records changes.
LEMMA TabChanges ==
  ASSUME TypeOK, NEW t \in Tabs, NEW new \in TabType, tabs' = [tabs EXCEPT ![t] = new]
  PROVE  tabs' \in [Tabs -> TabType]
<1>1. \A u \in Tabs : tabs'[u] \in TabType
  BY DEF TypeOK, TabType
<1> QED
  BY <1>1 DEF TypeOK

LEMMA TabMoves ==
  ASSUME TypeOK, NEW t \in Tabs,
         NEW at \in {"idle", "prepare", "start", "submit", "register", "unknown"},
         TabGoes(t, at)
  PROVE  tabs' \in [Tabs -> TabType]
<1>1. [tabs[t] EXCEPT !.at = at] \in TabType
  BY DEF TypeOK, TabType
<1> QED
  BY <1>1, TabChanges DEF TabGoes

\* A status and a flag make an attempt.
LEMMA AttemptTyped ==
  ASSUME NEW status \in Statuses, NEW required \in BOOLEAN
  PROVE  Attempt(status, required) \in AttemptType
  BY DEF Attempt, AttemptType

\* The transactions that change the attempt keep its type.
LEMMA StartTyped == ASSUME TypeOK, Start PROVE attempt' \in AttemptType
  BY AttemptTyped DEF TypeOK, AttemptType, Statuses, Boundary, Pending, Start

LEMMA AttachTyped ==
  ASSUME TypeOK, NEW status \in {"submitted", "submitted_unknown"}, Attach(status)
  PROVE  /\ attempt' \in AttemptType
         /\ order' \in {"none", "created", "submitted", "paid", "orphaned"}
<1>1. status \in Statuses
  BY DEF Statuses, Boundary, Pending
<1> QED
  BY <1>1, AttemptTyped DEF TypeOK, AttemptType, Attach
\* Steps of a tab keep the types.
LEMMA BrowserType ==
  ASSUME TypeOK, NEW t \in Tabs, Browser(t)
  PROVE  TypeOK'
<1> DEFINE Orders == {"none", "created", "submitted", "paid", "orphaned"}
           Browsing == /\ attempt' \in AttemptType /\ order' \in Orders
                       /\ quoteExpired' \in BOOLEAN /\ late' \in 0..MaxLate
                       /\ tabs' \in [Tabs -> TabType]
                       /\ provider' \in {"none", "moving", "succeeded", "failed"}
                       /\ UNCHANGED <<proof, deadLettered, included, applied, reorgs,
                                      faults, jobs, worker>>
<1> SUFFICES Browsing
  BY DEF TypeOK, AttemptType, TabType
<1>1. /\ attempt \in AttemptType /\ order \in Orders /\ late \in 0..MaxLate
      /\ quoteExpired \in BOOLEAN /\ tabs \in [Tabs -> TabType] /\ tabs[t] \in TabType
      /\ provider \in {"none", "moving", "succeeded", "failed"}
  BY DEF TypeOK, AttemptType, TabType
<1>2. CASE CreateAttempt(t)
  <2>1. tabs' \in [Tabs -> TabType]
    BY <1>2, TabMoves DEF CreateAttempt
  <2>2. attempt' \in AttemptType
    BY <1>2, AttemptTyped DEF CreateAttempt, Statuses, PreSubmission
  <2> QED
    BY <1>1, <1>2, <2>1, <2>2 DEF CreateAttempt, OnlyBrowserAndServer, world, queue
<1>3. CASE RecordPrepared(t)
  <2>1. PICK held \in BOOLEAN : tabs' = [tabs EXCEPT ![t].at = "idle", ![t].plan = held]
    BY <1>3 DEF RecordPrepared
  <2>2. [tabs[t] EXCEPT !.at = "idle", !.plan = held] \in TabType
    BY <1>1 DEF TabType
  <2>3. tabs' = [tabs EXCEPT ![t] = [tabs[t] EXCEPT !.at = "idle", !.plan = held]]
    BY <2>1, <1>1
  <2>4. tabs' \in [Tabs -> TabType]
    BY <2>2, <2>3, TabChanges
  <2>5. attempt' \in AttemptType
    BY <1>3, AttemptTyped DEF RecordPrepared, Statuses, PreSubmission
  <2> QED
    BY <1>1, <1>3, <2>4, <2>5 DEF RecordPrepared, OnlyBrowserAndServer, world, queue
<1>4. CASE BeginSubmission(t)
  <2>1. tabs' \in [Tabs -> TabType]
    BY <1>4, TabMoves DEF BeginSubmission
  <2> QED
    BY <1>1, <1>4, <2>1 DEF BeginSubmission, OnlyBrowserAndServer, world, queue, server
<1>5. CASE StartSubmission(t)
  <2>1. [tabs[t] EXCEPT !.at = IF CanStart THEN "submit" ELSE "idle", !.plan = ~CanStart]
          \in TabType
    BY <1>1 DEF TabType
  <2>2. tabs' \in [Tabs -> TabType]
    BY <1>5, <1>1, <2>1, TabChanges DEF StartSubmission
  <2>3. attempt' \in AttemptType
    BY <1>5, StartTyped DEF StartSubmission
  <2> QED
    BY <1>1, <1>5, <2>2, <2>3 DEF StartSubmission, OnlyBrowserAndServer, world, queue
<1>6. CASE LoseStartAnswer(t)
  <2>1. tabs' \in [Tabs -> TabType]
    BY <1>6, TabMoves DEF LoseStartAnswer, AfterLostStart
  <2>2. attempt' \in AttemptType
    BY <1>1, <1>6, StartTyped DEF LoseStartAnswer
  <2>3. late' \in 0..MaxLate
    BY <1>1, <1>6, BoundAssumption DEF LoseStartAnswer
  <2> QED
    BY <1>1, <1>6, <2>1, <2>2, <2>3 DEF LoseStartAnswer, OnlyBrowserAndServer, world, queue
<1>7. CASE SubmitValidated(t)
  <2>1. tabs' \in [Tabs -> TabType]
    BY <1>7, TabMoves DEF SubmitValidated
  <2> QED
    BY <1>1, <1>7, <2>1 DEF SubmitValidated, queue, server
<1>8. CASE RegisterSubmission(t)
  <2>1. tabs' \in [Tabs -> TabType]
    BY <1>8, TabMoves DEF RegisterSubmission
  <2>2. attempt' \in AttemptType /\ order' \in Orders
    BY <1>1, <1>8, AttachTyped DEF RegisterSubmission
  <2> QED
    BY <1>1, <1>8, <2>1, <2>2 DEF RegisterSubmission, OnlyBrowserAndServer, world, queue
<1>9. CASE RegisterUnknown(t)
  <2>1. tabs' \in [Tabs -> TabType]
    BY <1>9, TabMoves DEF RegisterUnknown
  <2>2. attempt' \in AttemptType /\ order' \in Orders
    BY <1>1, <1>9, AttachTyped DEF RegisterUnknown
  <2> QED
    BY <1>1, <1>9, <2>1, <2>2 DEF RegisterUnknown, OnlyBrowserAndServer, world, queue
<1>10. CASE PollPage(t)
  <2>1. [tabs[t] EXCEPT !.failed = TRUE] \in TabType
    BY <1>1 DEF TabType
  <2>2. tabs' \in [Tabs -> TabType]
    BY <1>10, <2>1, TabChanges DEF PollPage
  <2> QED
    BY <1>1, <1>10, <2>2 DEF PollPage, OnlyBrowserAndServer, world, queue, server
<1>11. CASE CloseTab(t)
  <2>1. NewTab \in TabType
    BY DEF NewTab, TabType
  <2>2. tabs' \in [Tabs -> TabType]
    BY <1>11, <2>1, TabChanges DEF CloseTab
  <2> QED
    BY <1>1, <1>11, <2>2 DEF CloseTab, OnlyBrowserAndServer, world, queue, server
<1> QED
  BY <1>2, <1>3, <1>4, <1>5, <1>6, <1>7, <1>8, <1>9, <1>10, <1>11 DEF Browser

\* Steps of the provider, the chain, the indexer and the clock keep the types.
LEMMA EnvironmentType ==
  ASSUME TypeOK,
         LateStart \/ QuoteExpires \/ Include \/ Finish \/ Reorganise \/ ApplyOrderPaid \/ Rewind
  PROVE  TypeOK'
<1>1. CASE LateStart
  <2>1. attempt' \in AttemptType
    BY <1>1, StartTyped DEF LateStart
  <2>2. late' \in 0..MaxLate
    BY <1>1, BoundAssumption DEF LateStart, TypeOK
  <2> QED
    BY <1>1, <2>1, <2>2
    DEF LateStart, TypeOK, AttemptType, OnlyBrowserAndServer, world, queue
<1>2. CASE QuoteExpires
  BY <1>2 DEF QuoteExpires, TypeOK, OnlyBrowserAndServer, world, queue, browser
<1>3. CASE Include
  BY <1>3, BoundAssumption DEF Include, TypeOK, server, browser, queue
<1>4. CASE Finish
  BY <1>4 DEF Finish, TypeOK, server, browser, queue
<1>5. CASE Reorganise
  BY <1>5, BoundAssumption DEF Reorganise, TypeOK, server, browser, queue
<1>6. CASE ApplyOrderPaid
  <2>1. attempt' \in AttemptType
    BY <1>6, AttemptTyped DEF ApplyOrderPaid, TypeOK, AttemptType, Statuses, Boundary
  <2> QED
    BY <1>6, <2>1 DEF ApplyOrderPaid, TypeOK, AttemptType, browser, world, queue
<1>7. CASE Rewind
  <2>1. attempt' \in AttemptType
    BY <1>7, AttemptTyped
    DEF Rewind, Unpaid, TypeOK, AttemptType, Statuses, Boundary, Pending
  <2>2. 0 \in 0..(MaxReorgs + 1)
    BY BoundAssumption
  <2> QED
    BY <1>7, <2>1, <2>2 DEF Rewind, TypeOK, AttemptType, browser, world, queue
<1> QED
  BY <1>1, <1>2, <1>3, <1>4, <1>5, <1>6, <1>7
\* What one worker knows changes.
LEMMA WorkerChanges ==
  ASSUME TypeOK, NEW w \in Workers, NEW new \in WorkerType,
         worker' = [worker EXCEPT ![w] = new]
  PROVE  worker' \in [Workers -> WorkerType]
<1>1. \A u \in Workers : worker'[u] \in WorkerType
  BY DEF TypeOK, WorkerType, AttemptType
<1> QED
  BY <1>1 DEF TypeOK

LEMMA WorkerMoves ==
  ASSUME TypeOK, NEW w \in Workers,
         NEW at \in {"idle", "load", "ask", "record", "schedule", "complete"},
         worker' = [worker EXCEPT ![w].at = at]
  PROVE  worker' \in [Workers -> WorkerType]
<1>1. [worker[w] EXCEPT !.at = at] \in WorkerType
  BY DEF TypeOK, WorkerType, AttemptType
<1> QED
  BY <1>1, WorkerChanges

\* Steps of the queue, of a worker or of what befalls it keep the types.
LEMMA QueueType ==
  ASSUME TypeOK,
         \/ SeedPending
         \/ \E w \in Workers : Reconcile(w) \/ Stall(w) \/ JobFails(w)
  PROVE  TypeOK'
<1> DEFINE JobStates == {"none", "waiting", "active", "done", "failed"}
           Working == /\ attempt' \in AttemptType /\ proof' \in BOOLEAN
                      /\ deadLettered' \in BOOLEAN /\ faults' \in 0..MaxFaults
                      /\ jobs' \in [Deliveries -> JobStates]
                      /\ worker' \in [Workers -> WorkerType]
                      /\ UNCHANGED <<order, quoteExpired, tabs, late, provider, included,
                                     applied, reorgs>>
<1> SUFFICES Working
  BY DEF TypeOK, AttemptType, WorkerType
<1>1. /\ attempt \in AttemptType /\ proof \in BOOLEAN /\ deadLettered \in BOOLEAN
      /\ faults \in 0..MaxFaults /\ jobs \in [Deliveries -> JobStates]
      /\ worker \in [Workers -> WorkerType]
      /\ \A w \in Workers : worker[w] \in WorkerType
  BY DEF TypeOK, AttemptType, WorkerType
<1>2. Idle \in WorkerType
  <2>1. 1 \in Deliveries
    BY DeliveryAssumption DEF Deliveries
  <2>2. NoAttempt \in AttemptType
    BY AttemptTyped DEF NoAttempt, Statuses
  <2> QED
    BY <2>1, <2>2 DEF Idle, WorkerType
<1>3. \A n \in Deliveries : Enqueued(n) \in [Deliveries -> JobStates]
  BY <1>1 DEF Enqueued
<1>4. ASSUME NEW w \in Workers, NEW state \in JobStates, JobBecomes(w, state)
      PROVE  jobs' \in [Deliveries -> JobStates]
  BY <1>1, <1>4 DEF JobBecomes
<1>5. CASE SeedPending
  BY <1>1, <1>3, <1>5, DeliveryAssumption
  DEF SeedPending, OnlyQueue, server, browser, world, Deliveries
<1>6. ASSUME NEW w \in Workers, NEW n \in Deliveries, TakeJob(w, n) PROVE Working
  <2>1. [Idle EXCEPT !.at = "load", !.n = n, !.locked = TRUE] \in WorkerType
    BY <1>2 DEF WorkerType
  <2>2. worker' \in [Workers -> WorkerType]
    BY <1>6, <2>1, WorkerChanges DEF TakeJob
  <2> QED
    BY <1>1, <1>6, <2>2 DEF TakeJob, OnlyQueue, server, browser, world
<1>7. ASSUME NEW w \in Workers, LoadCandidate(w) PROVE Working
  <2>1. \A at \in {"ask", "complete"} :
          [worker[w] EXCEPT !.candidate = attempt, !.at = at] \in WorkerType
    BY <1>1 DEF WorkerType
  <2>2. PICK at \in {"ask", "complete"} :
          worker' = [worker EXCEPT ![w].candidate = attempt, ![w].at = at]
    BY <1>7 DEF LoadCandidate
  <2>3. worker' = [worker EXCEPT ![w] = [worker[w] EXCEPT !.candidate = attempt, !.at = at]]
    BY <2>2, <1>1
  <2>4. worker' \in [Workers -> WorkerType]
    BY <2>1, <2>3, WorkerChanges
  <2> QED
    BY <1>1, <1>7, <2>4 DEF LoadCandidate, OnlyQueue, server, browser, world
<1>8. ASSUME NEW w \in Workers, GetOperation(w) PROVE Working
  <2>1. Answers \subseteq {"none", "unknown", "executing", "succeeded", "failed"}
    BY DEF Answers, TypeOK
  <2>2. PICK answer \in Answers, at \in {"schedule", "record"} :
          worker' = [worker EXCEPT ![w].answer = answer, ![w].at = at]
    BY <1>8 DEF GetOperation
  <2>3. worker' = [worker EXCEPT ![w] = [worker[w] EXCEPT !.answer = answer, !.at = at]]
    BY <2>2, <1>1
  <2>4. [worker[w] EXCEPT !.answer = answer, !.at = at] \in WorkerType
    BY <1>1, <2>1 DEF WorkerType
  <2>5. worker' \in [Workers -> WorkerType]
    BY <2>3, <2>4, WorkerChanges
  <2> QED
    BY <1>1, <1>8, <2>5 DEF GetOperation, OnlyQueue, server, browser, world
<1>9. ASSUME NEW w \in Workers, RecordObservation(w) PROVE Working
  <2>1. worker' \in [Workers -> WorkerType]
    BY <1>9, WorkerMoves DEF RecordObservation
  <2>2. \A answer : NextStatus(answer) \in Statuses
    BY DEF NextStatus, Statuses, Boundary, Pending
  <2>3. attempt' \in AttemptType
    BY <1>1, <1>9, <2>2, AttemptTyped DEF RecordObservation
  <2> QED
    BY <1>1, <1>9, <2>1, <2>3 DEF RecordObservation, browser, world
<1>10. ASSUME NEW w \in Workers, Schedule(w) PROVE Working
  <2>1. worker' \in [Workers -> WorkerType]
    BY <1>10, WorkerMoves DEF Schedule
  <2>2. worker[w].n # MaxDeliveries => worker[w].n + 1 \in Deliveries
    BY <1>1, DeliveryAssumption DEF WorkerType, Deliveries
  <2> QED
    BY <1>1, <1>3, <1>10, <2>1, <2>2 DEF Schedule, browser, world
<1>11. ASSUME NEW w \in Workers, CompleteJob(w) PROVE Working
  <2>1. worker' \in [Workers -> WorkerType]
    BY <1>2, <1>11, WorkerChanges DEF CompleteJob
  <2> QED
    BY <1>1, <1>4, <1>11, <2>1 DEF CompleteJob, OnlyQueue, server, browser, world
<1>12. ASSUME NEW w \in Workers, Stall(w) PROVE Working
  <2>1. [worker[w] EXCEPT !.locked = FALSE] \in WorkerType
    BY <1>1 DEF WorkerType
  <2>2. worker' \in [Workers -> WorkerType]
    BY <1>2, <1>12, <2>1, WorkerChanges DEF Stall
  <2> QED
    BY <1>1, <1>4, <1>12, <2>2, BoundAssumption DEF Stall, server, browser, world
<1>13. ASSUME NEW w \in Workers, JobFails(w) PROVE Working
  <2>1. worker' \in [Workers -> WorkerType]
    BY <1>2, <1>13, WorkerChanges DEF JobFails
  <2> QED
    BY <1>1, <1>4, <1>13, <2>1, BoundAssumption DEF JobFails, browser, world
<1> QED
  BY <1>5, <1>6, <1>7, <1>8, <1>9, <1>10, <1>11, <1>12, <1>13 DEF Reconcile

\* Every step keeps the types.
LEMMA StepType == TypeOK /\ [Next]_vars => TypeOK'
<1> SUFFICES ASSUME TypeOK, [Next]_vars PROVE TypeOK'
  OBVIOUS
<1>1. CASE UNCHANGED vars
  BY <1>1 DEF TypeOK, vars, server, browser, world, queue
<1>2. CASE Next
  BY <1>2, BrowserType, EnvironmentType, QueueType DEF Next
<1> QED
  BY <1>1, <1>2
-----------------------------------------------------------------------------
(* The boundary, the chain and the list of the recovery *)

\* The transactions of the tabs never make an attempt paid nor touch a paid one,
\* and leave one past the boundary past it and watched.
LEMMA StartSafe ==
  ASSUME PaidIsCanonical, UnconfirmedIsListed, Start, UNCHANGED <<order, applied, proof>>
  PROVE  /\ PaidIsCanonical' /\ UnconfirmedIsListed'
         /\ attempt.status \in Boundary => attempt'.status \in Boundary
         /\ CanStart => attempt'.status \in Boundary
  BY DEF PaidIsCanonical, UnconfirmedIsListed, Listed, Start, CanStart, Attempt, Boundary,
         Pending

LEMMA AttachSafe ==
  ASSUME PaidIsCanonical, UnconfirmedIsListed, UNCHANGED <<applied, proof>>,
         NEW status \in {"submitted", "submitted_unknown"}, Attach(status)
  PROVE  /\ PaidIsCanonical' /\ UnconfirmedIsListed'
         /\ attempt.status \in Boundary => attempt'.status \in Boundary
  BY DEF PaidIsCanonical, UnconfirmedIsListed, Listed, Attach, Attempt, Boundary, Pending

\* What the steps below show: order and attempt agree with the projection, an
\* attempt past the boundary stays there and is watched.
Safe ==
  /\ PaidIsCanonical' /\ UnconfirmedIsListed'
  /\ attempt.status \in Boundary => attempt'.status \in Boundary

\* A step that leaves order, attempt, projection and proof alone is safe.
LEMMA Unconcerned ==
  ASSUME IInv, UNCHANGED <<attempt, order, applied, proof>> PROVE Safe
  BY DEF IInv, Safe, PaidIsCanonical, UnconfirmedIsListed, Listed

\* Steps of a tab.
LEMMA BrowserSafe ==
  ASSUME IInv, NEW t \in Tabs, Browser(t)
  PROVE  Safe /\ TabsPastBoundary' /\ SubmissionIsKnown' /\ ChainNeedsProvider'
<1>1. CASE CreateAttempt(t)
  <2>1. tabs'[t].at \in {"prepare", "idle"} /\ \A u \in Tabs \ {t} : tabs'[u] = tabs[u]
    BY <1>1 DEF CreateAttempt, TabGoes, IInv, TypeOK
  <2>2. attempt.status = "none" /\ attempt'.status = "created"
    BY <1>1 DEF CreateAttempt, NoAttempt, Attempt
  <2>3. Safe
    BY <1>1, <2>2 DEF IInv, Safe, PaidIsCanonical, UnconfirmedIsListed, CreateAttempt,
         OnlyBrowserAndServer, Boundary, Pending
  <2> QED
    BY <1>1, <2>1, <2>2, <2>3
    DEF IInv, TabsPastBoundary, SubmissionIsKnown, ChainNeedsProvider, CreateAttempt,
        OnlyBrowserAndServer, world, Boundary, Pending
<1>2. CASE RecordPrepared(t)
  <2>1. tabs'[t].at = "idle" /\ \A u \in Tabs \ {t} : tabs'[u] = tabs[u]
    BY <1>2 DEF RecordPrepared, IInv, TypeOK
  <2>2. attempt.status = "created" /\ attempt'.status = "prepared"
    BY <1>2 DEF RecordPrepared, Attempt
  <2>3. Safe
    BY <1>2, <2>2 DEF IInv, Safe, PaidIsCanonical, UnconfirmedIsListed, RecordPrepared,
         OnlyBrowserAndServer, Boundary, Pending
  <2> QED
    BY <1>2, <2>1, <2>2, <2>3
    DEF IInv, TabsPastBoundary, SubmissionIsKnown, ChainNeedsProvider, RecordPrepared,
        OnlyBrowserAndServer, world, Boundary, Pending
<1>3. CASE BeginSubmission(t) \/ PollPage(t) \/ CloseTab(t)
  <2>1. \A u \in Tabs : \/ tabs'[u].at = tabs[u].at
                        \/ tabs'[u].at \in {"idle", "start"}
    BY <1>3 DEF BeginSubmission, PollPage, CloseTab, TabGoes, NewTab, IInv, TypeOK
  <2>2. UNCHANGED <<attempt, order, applied, proof, included, provider>>
    BY <1>3 DEF BeginSubmission, PollPage, CloseTab, OnlyBrowserAndServer, world, server
  <2> QED
    BY <2>1, <2>2, Unconcerned
    DEF IInv, TabsPastBoundary, SubmissionIsKnown, ChainNeedsProvider
<1>4. CASE StartSubmission(t)
  <2>1. /\ tabs'[t].at = IF CanStart THEN "submit" ELSE "idle"
        /\ \A u \in Tabs \ {t} : tabs'[u] = tabs[u]
    BY <1>4 DEF StartSubmission, IInv, TypeOK
  <2>2. UNCHANGED <<order, applied, proof, included, provider>>
    BY <1>4 DEF StartSubmission, OnlyBrowserAndServer, world
  <2>3. Safe /\ (CanStart => attempt'.status \in Boundary)
    BY <1>4, <2>2, StartSafe DEF StartSubmission, Safe, IInv
  <2> QED
    BY <2>1, <2>2, <2>3
    DEF IInv, Safe, TabsPastBoundary, SubmissionIsKnown, ChainNeedsProvider
<1>5. CASE LoseStartAnswer(t)
  <2>1. tabs'[t].at = "idle" /\ \A u \in Tabs \ {t} : tabs'[u] = tabs[u]
    BY <1>5 DEF LoseStartAnswer, AfterLostStart, TabGoes, IInv, TypeOK
  <2>2. UNCHANGED <<order, applied, proof, included, provider>>
    BY <1>5 DEF LoseStartAnswer, OnlyBrowserAndServer, world
  <2>3. Safe
    BY <1>5, <2>2, StartSafe, Unconcerned DEF LoseStartAnswer, Safe, IInv
  <2> QED
    BY <2>1, <2>2, <2>3
    DEF IInv, Safe, TabsPastBoundary, SubmissionIsKnown, ChainNeedsProvider
<1>6. CASE SubmitValidated(t)
  <2>1. attempt.status \in Boundary
    BY <1>6 DEF IInv, TabsPastBoundary, SubmitValidated
  <2>2. UNCHANGED <<attempt, order, applied, proof, included>>
    BY <1>6 DEF SubmitValidated, server
  <2>3. provider' = provider \/ provider' = "moving"
    BY <1>6 DEF SubmitValidated
  <2> QED
    BY <2>1, <2>2, <2>3, Unconcerned
    DEF IInv, TabsPastBoundary, SubmissionIsKnown, ChainNeedsProvider
<1>7. CASE RegisterSubmission(t) \/ RegisterUnknown(t)
  <2>1. tabs[t].at \in {"register", "unknown"}
    BY <1>7 DEF RegisterSubmission, RegisterUnknown
  <2>2. attempt.status \in Boundary
    BY <2>1 DEF IInv, TabsPastBoundary
  <2>3. UNCHANGED <<applied, proof, included, provider>>
    BY <1>7 DEF RegisterSubmission, RegisterUnknown, OnlyBrowserAndServer, world
  <2>4. Safe
    BY <1>7, <2>3, AttachSafe, Unconcerned DEF RegisterSubmission, RegisterUnknown, Safe, IInv
  <2> QED
    BY <2>2, <2>3, <2>4
    DEF IInv, Safe, TabsPastBoundary, SubmissionIsKnown, ChainNeedsProvider
<1> QED
  BY <1>1, <1>2, <1>3, <1>4, <1>5, <1>6, <1>7 DEF Browser
\* Steps of the clock, the provider, the chain and the indexer.
LEMMA EnvironmentSafe ==
  ASSUME IInv,
         LateStart \/ QuoteExpires \/ Include \/ Finish \/ Reorganise \/ ApplyOrderPaid \/ Rewind
  PROVE  Safe /\ TabsPastBoundary' /\ SubmissionIsKnown' /\ ChainNeedsProvider'
<1>1. CASE LateStart
  <2>1. UNCHANGED <<order, applied, proof, included, provider, tabs>>
    BY <1>1 DEF LateStart, OnlyBrowserAndServer, world
  <2>2. Safe
    BY <1>1, <2>1, StartSafe DEF LateStart, Safe, IInv
  <2> QED
    BY <2>1, <2>2 DEF IInv, Safe, TabsPastBoundary, SubmissionIsKnown, ChainNeedsProvider
<1>2. CASE QuoteExpires \/ Include \/ Finish \/ Reorganise
  <2>1. UNCHANGED <<attempt, order, applied, proof, tabs>>
    BY <1>2 DEF QuoteExpires, Include, Finish, Reorganise, OnlyBrowserAndServer, server,
         browser
  <2>2. /\ provider' # "none" <=> provider # "none"
        /\ included' # 0 => included # 0 \/ provider # "none"
    BY <1>2 DEF QuoteExpires, Include, Finish, Reorganise, OnlyBrowserAndServer, world
  <2> QED
    BY <2>1, <2>2, Unconcerned
    DEF IInv, TabsPastBoundary, SubmissionIsKnown, ChainNeedsProvider
<1>3. CASE ApplyOrderPaid
  <2>1. attempt.status \in Boundary /\ attempt.status # "paid"
    BY <1>3 DEF IInv, SubmissionIsKnown, ChainNeedsProvider, PaidIsCanonical, ApplyOrderPaid
  <2>2. attempt'.status = "paid" /\ order' = "paid" /\ applied' # 0
    BY <1>3, <2>1 DEF ApplyOrderPaid, Payable, Boundary, Attempt
  <2>3. Safe
    BY <2>2 DEF Safe, PaidIsCanonical, UnconfirmedIsListed, Boundary, Pending
  <2> QED
    BY <1>3, <2>1, <2>3
    DEF IInv, Safe, TabsPastBoundary, SubmissionIsKnown, ChainNeedsProvider, ApplyOrderPaid,
        browser, world
<1>4. CASE Rewind
  <2>1. attempt.status = "paid"
    BY <1>4 DEF IInv, PaidIsCanonical, Rewind
  <2>2. attempt' = Attempt("confirming", TRUE) /\ order' = "orphaned" /\ applied' = 0
    BY <1>4, <2>1 DEF Rewind, Unpaid
  <2>3. Safe
    BY <2>2 DEF Safe, PaidIsCanonical, UnconfirmedIsListed, Listed, Attempt, Boundary, Pending
  <2> QED
    BY <1>4, <2>1, <2>3
    DEF IInv, Safe, TabsPastBoundary, SubmissionIsKnown, ChainNeedsProvider, Rewind,
        browser, world
<1> QED
  BY <1>1, <1>2, <1>3, <1>4

\* Steps of the queue, of a worker or of what befalls it.
LEMMA QueueSafe ==
  ASSUME IInv,
         \/ SeedPending
         \/ \E w \in Workers : Reconcile(w) \/ Stall(w) \/ JobFails(w)
  PROVE  Safe /\ TabsPastBoundary' /\ SubmissionIsKnown' /\ ChainNeedsProvider'
<1>1. UNCHANGED <<order, applied, included, provider, tabs>>
  BY DEF SeedPending, Reconcile, TakeJob, LoadCandidate, GetOperation, RecordObservation,
         Schedule, CompleteJob, Stall, JobFails, OnlyQueue, server, browser, world
<1>2. CASE UNCHANGED <<attempt, proof>>
  BY <1>1, <1>2, Unconcerned
  DEF IInv, TabsPastBoundary, SubmissionIsKnown, ChainNeedsProvider
<1>3. CASE \E w \in Workers : RecordObservation(w)
  <2>1. PICK w \in Workers : RecordObservation(w)
    BY <1>3
  <2>2. CASE attempt' = attempt
    BY <1>1, <2>2 DEF IInv, Safe, PaidIsCanonical, UnconfirmedIsListed, Listed,
         TabsPastBoundary, SubmissionIsKnown, ChainNeedsProvider, Boundary, Pending
  <2>3. CASE attempt' # attempt
    <3>1. /\ attempt.status # "paid"
          /\ attempt' = Attempt(NextStatus(worker[w].answer), TRUE)
      BY <2>1, <2>3 DEF RecordObservation, Recordable
    <3>2. NextStatus(worker[w].answer) \in Pending
      BY DEF NextStatus, Pending
    <3>3. attempt'.status \in Pending /\ attempt'.required = TRUE
      BY <3>1, <3>2 DEF Attempt
    <3>4. Safe /\ attempt'.status \in Boundary
      BY <1>1, <3>1, <3>3
      DEF IInv, Safe, PaidIsCanonical, UnconfirmedIsListed, Listed, Boundary, Pending
    <3> QED
      BY <1>1, <3>4 DEF IInv, TabsPastBoundary, SubmissionIsKnown, ChainNeedsProvider
  <2> QED
    BY <2>2, <2>3
<1>4. UNCHANGED <<attempt, proof>> \/ \E w \in Workers : RecordObservation(w)
  BY DEF SeedPending, Reconcile, TakeJob, LoadCandidate, GetOperation,
         Schedule, CompleteJob, Stall, JobFails, OnlyQueue, server
<1> QED
  BY <1>2, <1>3, <1>4

-----------------------------------------------------------------------------
(* Theorems *)

\* The first state satisfies the invariant.
LEMMA InitInv == Init => IInv
  BY InitType DEF Init, IInv, PaidIsCanonical, SubmissionIsKnown, UnconfirmedIsListed,
     TabsPastBoundary, ChainNeedsProvider, NewTab, NoAttempt, Attempt, Pending

\* Every step keeps the invariant.
LEMMA StepInv == IInv /\ [Next]_vars => IInv'
<1> SUFFICES ASSUME IInv, [Next]_vars PROVE IInv'
  OBVIOUS
<1>1. TypeOK'
  BY StepType DEF IInv
<1>2. CASE UNCHANGED vars
  <2>1. UNCHANGED <<attempt, order, applied, proof, tabs, included, provider>>
    BY <1>2 DEF vars, server, browser, world
  <2> QED
    BY <1>1, <2>1, Unconcerned
    DEF IInv, Safe, TabsPastBoundary, SubmissionIsKnown, ChainNeedsProvider
<1>3. CASE Next
  <2>1. Safe /\ TabsPastBoundary' /\ SubmissionIsKnown' /\ ChainNeedsProvider'
    BY <1>3, BrowserSafe, EnvironmentSafe, QueueSafe DEF Next
  <2> QED
    BY <1>1, <2>1 DEF IInv, Safe
<1> QED
  BY <1>2, <1>3

\* The inductive invariant holds.
THEOREM Invariant == Spec => []IInv
  BY InitInv, StepInv, PTL DEF Spec

\* Status, queue and every other variable keep their types, whoever acts.
THEOREM TypeCorrect == Spec => []TypeOK
  BY Invariant, PTL DEF IInv

\* Only the chain says paid, for order and attempt alike: registrations, provider
\* answers and slow workers, however many, never do nor take it back.
THEOREM OnlyTheChainPays == Spec => []PaidIsCanonical
  BY Invariant, PTL DEF IInv

\* Nothing that the provider has taken is unknown to the server.
THEOREM NoUnknownSubmission == Spec => []SubmissionIsKnown
  BY Invariant, PTL DEF IInv

\* What may have moved money stays in the list of the recovery.
THEOREM NothingForgotten == Spec => []UnconfirmedIsListed
  BY Invariant, PTL DEF IInv

\* Past the boundary there is no way back: no request, job, projection or
\* reorganisation makes an attempt startable again, so none is started twice.
THEOREM NoWayBack == Spec => [][attempt.status \in Boundary => attempt'.status \in Boundary]_vars
<1>1. IInv /\ [Next]_vars => [attempt.status \in Boundary => attempt'.status \in Boundary]_vars
  BY BrowserSafe, EnvironmentSafe, QueueSafe DEF Next, Safe
<1> QED
  BY <1>1, Invariant, PTL DEF Spec
=============================================================================
