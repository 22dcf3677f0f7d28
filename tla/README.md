# A verification project for ApplyPack

ApplyPack sells a researched job search.  A visitor fills in an anonymous intake
draft, is told whether a search is feasible, pays at a provider's checkout page,
and is owed ten positions within 24 hours, or a refund; application materials
are bought on top.  Nearly all of its state is in PostgreSQL.  Every operation
that changes it is a PL/pgSQL function (`src/supabase/migrations/`), one
transaction, called by Next.js route handlers, by cron workers and by provider
webhooks (`src/src/app/api/`, `src/src/lib/`).  What goes wrong in such a
program goes wrong between the transactions: a handler calls a function, then
the provider, then another function, and dies or is overtaken in between; a
webhook arrives late, twice or after its order was replaced; two customers want
the last unit of capacity; a table trigger refuses the fourth update of a
function whose first three were right.

This directory holds TLA+ models of those parts, TLC runs that check them on
small instances, and TLAPS proofs of their main properties for every instance.

## Inventory

| Component | State | Operations | Hard behaviour | What makes it correct | Modelled in |
|---|---|---|---|---|---|
| Capacity reservation | `ap_capacity_pools`, `_buckets`, `_allocations` | `ap_reserve_capacity`; spending and returning by its callers | concurrent calls, same key twice, waiting for the pool row | no bucket oversold, one debit per key, a hold is spent or returned once | `CapacityReserve`, `CapacityLedger` |
| Search checkout | `ap_quotes`, `ap_external_commands`, `ap_checkout_attempts`, `ap_payment_attempts`, the provider's sessions | begin, promote, reopen, compensate, expire, cancel, settle | provider calls between transactions, crashes, late, duplicate and stale payments, triggers | lock, hold and checkout agree; every charge answered once; one search per draft | `SearchCheckout`, `SearchPromise` |
| Anonymous draft and intake | `ap_anonymous_drafts`, `ap_document_versions`, `ap_intake_snapshots` | save steps, register, remove and review documents, finalize, edit | edits racing an open checkout | a locked draft does not change under its checkout | `DraftDocuments` (documents), `SearchCheckout` (locks and edits) |
| Feasibility assessment | `ap_feasibility_requests`, `_assessments` | request, claim, persist, invalidate | leases, answers during an evaluation | only a current likely assessment is sold | `Feasibility`; `SearchCheckout` (what is sold of it) |
| Search service and adjustments | `ap_search_services`, `ap_criteria_amendments`, releases | propose, accept, decline, expire, deadline, review, release, dispute | deadline racing delivery, adjustments racing disputes | delivered or refunded, never both, on one unit of capacity | `SearchService`, `ServicePromise` |
| Refunds and disputes | `ap_refund_operations`, `ap_disputes` | queue, retry, reconcile, provider events | events out of order, retry of a failed refund | money goes back once | `RefundOperation`, `RefundPromise`; `SearchService` and `MaterialLines` (what starts a refund, disputes) |
| Scheduled jobs | `ap_scheduled_jobs` | enqueue, claim, renew, complete, retry, dead-letter | leases running out under a live worker | no job lost, none applied twice | `RefundOperation` (the queue's protocol); the jobs that decide something in `SearchCheckout`, `SearchService`, `MaterialLines` |
| Outbox and email | `ap_outbox_messages` | claim, renew, complete, fail | a send repeated after a crash | sent or given up with an alert, and once while the provider keeps the key | `Outbox` |
| Order access | `ap_order_access_capabilities` | issue, use, replace | parallel use | a link is used once | not modelled |
| Materials checkout and lines | `ap_material_checkouts`, `_lines`, releases, corrections, entitlement claims | quote, pay, propose, substitute, correct, release, dispute | nine calls that may each decide a line, claims that change hands | a line is released or refunded, and a match is sold once at a time | `MaterialLines` |
| References | permissions, regenerations | grant, revoke, regenerate | revocation while a line is written | nothing released with a revoked reference | not modelled; an amendment of a line is in `MaterialLines` |
| Job board | entitlements, recompute jobs | filter, recompute, publish | recompute racing a changed filter | a board shows its current filter | not modelled |
| Job source synchronisation | sources, runs, inventories | claim, collect, stage, project | partial runs, takeover of a run | an incomplete run closes no job | not modelled |
| Document processing | processing jobs | claim, review, complete, retry | lease takeover, a reader that dies three times | a completed reading has a review, and every reading ends | `DraftDocuments` |
| Unpaid retention | cleanup jobs | claim, authorise, finish | deletion racing a hold or a payment | no paid or held file is deleted, and what is recorded as deleted is | `DraftDocuments` |
| Webhook inbox | event rows | claim, mark processed | redelivery while processing | an event is applied once and not lost | the redelivery within `SearchCheckout` and `RefundOperation` |
| Legacy order workflow | the first schema's tables | as above, superseded | | | not modelled |
| Matching engine | none: it computes from persisted evidence | evaluate requirements and pay, classify, reduce and select | unknown facts under nested alternatives, several kinds of blame, two rules for what is a duplicate, ties | the result is right for every candidate the evidence leaves possible | `RequirementTree`, `MatchEvaluation`, `MatchSelection` |
| Operations | readiness, alerts, heartbeat | diagnose, run the stages, verify, report | overlapping and dying requests, alerts that gate the next request | an alert is closed on grounds, and the system comes back to a verified heartbeat | `Maintenance` |
| Document rendering, authentication, pages, scripts | none shared | files, sessions, user interface | | | not modelled |

How they interact.  A request handler, a worker and a webhook never share memory;
they meet in the rows of the database and at the payment provider.  The intake
finalizes a snapshot of a draft; the feasibility worker assesses it; the checkout
reserves a unit of capacity for an assessment, opens a session at the provider
and locks the draft to it; the payment webhook converts the draft into an order
with a search service, or queues a refund; the service is researched, amended and
released, or its refund is queued; refunds, releases and decisions queue
messages in the outbox; scheduled jobs carry every deadline.

## The modules

    CapacityLedger <---- CapacityReserve <---- CapacityReserveProofs
          ^                     ^------------- MCCapacityReserve
          |
          '------ SearchCheckout <---- SearchCheckoutProofs
    SearchPromise <----'   ^---------- MCSearchCheckout

    ServicePromise <---- SearchService <---- SearchServiceProofs
                                ^----------- MCSearchService

    RefundPromise <---- RefundOperation <---- RefundOperationProofs

    MaterialLines <---- MaterialLinesProofs
          ^------------ MCMaterialLines

    Outbox <---- Maintenance <-----.
    DraftDocuments <---------------+---- MCPlatform <---- PlatformProofs
    Feasibility <------------------'     .   .
    RequirementTree <---- MatchEvaluation    MatchSelection

    DraftDocuments, Feasibility <---- DraftProofs <---- PlatformProofs
    MatchEvaluation, MatchSelection <---- MatchingProofs <.... PlatformProofs

An arrow to an abstract module (`CapacityLedger`, `SearchPromise`, `ServicePromise`,
`RefundPromise`) is a refinement: the detailed module INSTANCEs it with a mapping of its
own state, and the run and the theorem of the name `KeepsLedger` or `KeepsPromise` say
that it implements it.  The other arrows are EXTENDS; dots are a named INSTANCE for a
size.

In every module a PL/pgSQL function is one action, because it is one transaction
and takes the row locks of what it decides on; what raises rolls back, so raise
conditions (of the functions and of the table triggers they meet) are guards, and
what the caller does with the error is an action of the caller.  A handler or a
worker that calls several functions, or the provider in between, has a program
counter and one action per call.  Operators commented "Fault:" are not part of
the specifications.  Each is the mutated form of one definition, a mistake that
could be made at that place in the code, under which some property must fail.

### CapacityReserve and CapacityLedger

`CapacityReserve` takes the one function that other transactions rely on under
concurrency, `ap_reserve_capacity` (`202609220047_capacity_retry_safety.sql`),
apart into its statements, as READ COMMITTED interleaves them: `LookUp`,
`LockPool` (the `for update` of the pool row), `LookUpAgain`, `Insert` or
`Unavailable`, then the caller's `Commit` or `Rollback`.  `Again` is the retry
of the same request key.  `Spend` and `Return` are the transactions that change
an allocation's debit state without the pool row, and `NextBucket` is time.

`CapacityLedger` is what the capacity tables promise whoever writes them: a unit
is debited once from one bucket, then spent or returned once, and no bucket is
debited beyond its total.  A slot is one unit of one allocation.

### SearchCheckout and SearchPromise

The largest module, on `202609060030_chunk4_commerce_release.sql`, its route
handlers and its workers.  `Attempt` names an assessment and everything whose
identifier the code derives from its request key: quote, external command,
checkout attempt, payment attempt, hold and provider session.

| In the module | In the code |
|---|---|
| `draft`, `current`, `binding`, `resume` | `ap_anonymous_drafts` state, snapshot and checkout binding; processing of its RESUME document |
| `assessment`, `quote`, `command`, `leased`, `lapsed` | feasibility assessment, quote, CREATE_SEARCH_CHECKOUT command, its lease, `expires_at` passed |
| `checkout`, `invalidated`, `bound`, `hold`, `reacquired` | `ap_checkout_attempts`, its allocation and the one late reservation |
| `settlement`, `services`, `refund` | `ap_payment_attempts`, `ap_search_services`, the queued `ap_refund_operations` |
| `session`, `offered` | the provider's session; sessions whose URL a browser has |
| `request`, `worker`, `cleanup` | where a handler and a worker are; the queued cleanup jobs |
| `DraftStep` | documents, `Finalize`, research rounds, answers to questions, `ap_begin_pre_activation_edit` |
| `RequestStep` | `POST /api/checkout/search`: begin, create the session, promote, or expire it and compensate; it may stop at every step |
| `WorkerStep` | `processChunk4Workers`: provisional cleanup and invalidated checkouts |
| `AttemptStep` | time, the customer, the provider's expiry and payment webhooks, the local expiry job, cancelling |

`CreateSession` is idempotent in its key, as the provider is; a session may expire
or be paid at any time it is open; the reply of the promotion may be lost; a
worker decides on rows it read before its provider call.  A payment is settled
by one of six actions, in the order the function asks: unverified, duplicate,
stale, capacity exception, activation on the hold, activation on a late
reservation.

`SearchPromise` is what the customer is promised: a charge is answered once, by a
search or a refund, an unverified charge buys nothing, and one draft buys one
search.

### SearchService and ServicePromise

A paid search after its activation.  A criteria revision is named by what it came
from: the service for the snapshot first paid for, the amendment for the snapshot
it accepted.  With the revision come its unit of capacity, its evaluations, its
deadline and its deadline job.

| In the module | In the code |
|---|---|
| `fulfillment`, `adjustment`, `active`, `refund` | `ap_search_services`: both states, active snapshot with its allocation, the refund started and its reason |
| `released`, `order`, `dispute` | the SEARCH_EXACT_TEN release, `orders.status`, the payment's dispute |
| `amendment`, `parent` | `ap_criteria_amendments` |
| `allocation`, `evaluated` | lifecycle of a revision's unit; revisions with ten current evaluations |
| `delivering` | what a delivery handler has selected and not yet committed |
| `lapsed`, `overdue`, `proposalJobs`, `deadlineJobs` | the two clocks and the scheduled jobs that act on them |
| `Propose`, `Accept`, `AcceptWithoutCapacity`, `Decline` | `ap_propose_`, `ap_accept_`, `ap_decline_search_adjustment` |
| `Review`, `BeginDelivery`, `Release`, `AbandonDelivery` | `ap_record_job_release_review`, the delivery route up to its commit, `ap_commit_exact_ten_release` |
| `StartRefund` | `ap_start_search_service_refund`, called by six of the actions |
| `ProposalJob`, `DeadlineJob` | `ap_apply_local_scheduled_job` |
| `OpenDispute`, `WinDispute`, `LoseDispute` | `ap_apply_search_dispute` |

`order` "paid" stands for `in_fulfillment` too, since nothing modelled asks which;
the later status `refunded` belongs to the refund operation.  The reads of the
delivery handler are one step: for criteria to be accepted between two of them, a
proposal, an answer and ten evaluations would have to fit into one request.
`ap_propose_search_adjustment` has no caller under `src/src`; operators and the
integration tests call it.  A revision is due after the one it amends and after
the proposals made against it, because the functions compute the dates so.

`ServicePromise` says: delivered or refunded, once; delivered only while nobody
disputes the payment; a dispute won before a delivery is answered by a refund.

### RefundOperation and RefundPromise

A queued refund, of a whole payment or of a material line, until the money is back.
Every try of an operation has a command, an idempotency key and a submit job of its
own, so that the number of the try names all three, and the provider's refund that
the key created.

| In the module | In the code |
|---|---|
| `state`, `refundId`, `retryCount` | `ap_refund_operations`; `provider_refund_id` by the try whose refund it names |
| `job` | the `REFUND_SUBMIT` jobs, one a try, and the one `REFUND_RECONCILE` job of the operation |
| `provider`, `posted` | the statuses each try's refund has had at the provider; those whose event was not applied yet |
| `worker` | where a run of `processChunk4Workers` is in `handleRefund`, with what it read and was answered |
| `crossed` | history: operations that recorded the result of another try than the last |
| `Claim`, `Retrieve`, `Create`, `Record`, `Complete` | the steps of `handleRefund`: claim and read, one call of the provider, `ap_record_search_refund_result`, completion of the job |
| `Raises`, `RetryLater`, `DeadLetter`, `GivesUp`, `Dies` | a call that raises, at any step; `ap_retry_scheduled_job`; its own raise; the end of the process |
| `RecordResult`, `Webhook` | `ap_record_search_refund_result`, called by a worker and by the webhook |
| `Retry` | `ap_retry_search_refund` |
| `ProviderSettles`, `Reports` | the bank decides; the provider posts an event |

A handler acts on the row it read before the provider call, and on the status it was
answered, however much has happened since.  `Create` is idempotent in its key: it
repeats the first answer.  Events arrive late, in any order, or after a worker
recorded the same status.  One event stands for all that carry a status, since the
second is stale like a late one.  A lease has no clock: a leased job may be claimed
again as soon as no handler has it in hand, and with `Overrun` even while one has.
`requires_action`, which the function takes for pending and the handler does not, is
left out.  That the provider never
turns a succeeded refund into a failed one is an assumption: the row could not
record it.

`RefundPromise` says: what is reported of a refund happened, a success is final, and
only a failure is retried.

### MaterialLines

Documents sold for the matches of a delivered search, on
`202609070031_chunk5_materials_delivery.sql`.  A line is a purchase of its own, with its
checkout intent, its revision and its payment.

| In the module | In the code |
|---|---|
| `line` | `ap_material_lines` and the checkout intent: fulfillment, the match, whether some of the files, the whole set or an approved set can be used, the unit of the revision, the last listing check, the deadline and its job, the release |
| `payment` | the charge (taken at the provider, then applied), the dispute, the refund |
| `claim`, `named` | `ap_material_entitlement_claims`; the match in the line's latest row of the entitlement history |
| `proposal` | `ap_material_change_proposals`: substitutions and fact corrections |
| `SellLine` | begin, promote, the customer's payment, expiry, `ap_apply_material_payment` with its refusal of an activation that is no longer valid |
| `SettleLine` | the deadline job, the dispute and its outcomes, the results of a refund |
| `WorkOnLine` | a file registered, a file approved, a listing checked before generation or release, `ap_commit_material_release`, references amended |
| `ChangeLine` | proposals offered, accepted, declined, expired |
| `StartRefund` | `ap_start_material_line_refund`, called by the deadline job and by a declined or expired proposal |

A call that finds no unit of capacity raises, which is a step not taken; what happens to
the units is the subject of `CapacityReserve`, and the refund at the provider that of
`RefundOperation`, of which `RefundSucceeds`, `RefundFails` and `RetryRefund` are the
results.  Every call may also be refused for a rule that is no longer current, a missing
permission or a reviewer's rights.  `unit` is the allocation that has the active
revision for a member: spent, superseded by a dispute, which a trigger then keeps from
being completed by a release, or none after an amendment, whose revision no allocation
has for a member.  Two history rows written in one transaction bear the
same time, and which of them counts as the latest is decided by random ids:
`AcceptSubstitution` chooses.  Left out: several lines of one purchase, whose units come
from one allocation, the substitution that is only recorded on the line, and the
regeneration of a released line.

### Outbox and Maintenance

`Outbox` takes the pass of `processChunk4Outbox` (`src/src/lib/commerce/outbox.ts`) over
the claimed messages apart at every call: `Claim`, `TakeNext`, two renewals of the lease,
`Submit` to the provider, `Complete` or `Fail`.  A pass may end at any of them.  All
passes have one owner, the environment's worker id, so that a pass may write the row
that another has claimed since.  A message has three clocks.  Its lease runs out at any
time.  The window in which it is retried begins at its first claim, and the provider's
memory of its key at the first submission, which is later; both take a day, so a key
lapses only after its window (`KeyLapses`), whatever the lease does.

`Maintenance` EXTENDS it with the request of the cron route
(`src/src/app/api/cron/maintenance/route.ts`, `src/src/lib/operations/`): diagnosis with
the stop it may end in, stages that end the request when they fail, stages that are
gated and only record it, the pass over the outbox as one of them, verification, the
outcome's alerts and then the heartbeat.  What one function writes to the alerts is one
step.  A failed stage other than the outbox pass is a choice; the queues share one status,
of which theirs is one (`EnterQueues`, `LeaveQueues`).

### DraftDocuments

The documents of one draft between three kinds of process.  The owner's handlers store
before they register and take the bytes back when the registration fails or its answer
is lost; a retry is two calls.  The readers (`processPendingDocumentExtractions`) claim
under a lease with three attempts, download, write a review and complete; a failed
extraction is written whoever holds the lease.  The cleaners
(`processUnpaidSourceRetention`) claim, authorize, remove the bytes and record it,
with an owner's token but not under a live lease.  A legal hold, the expiry of the draft
and the checkout that locks it come at any time.  All documents are of one kind, and
the retention periods end with the draft's own.

### Feasibility

From finalized criteria to an assessment: research rounds and their inventories,
evaluations, parser corrections, answers, new criteria, and the worker from its claim
over plan, inventory, derivation, insertion and check to the completion.  An answer takes
no lock that the worker's functions hold, so the derivation and the completion are two
steps each.  `overlapped` records that evidence was withdrawn between the derivation and
the insertion.  The hour after which an assessment is no longer shown is in no
module; what `SearchCheckout` lets lapse is a quote.

### RequirementTree, MatchEvaluation and MatchSelection

The deterministic part of the matching engine, each operator beside a definition of what
it is for.  `RequirementTree` evaluates the three-valued tree of a listing's
requirements bottom up, selects the satisfaction path and names the unknowns that decide
it alone; the reference is a candidate of whom all is known, quantified over those the
decisions leave possible.  `MatchEvaluation` adds the salary gate, with estimates,
currencies, variable pay and the rounding of the conversion, the gates of the customer's
criteria, the order in which eligibility gives its blame, and the two readings of an
evaluation's class, by the worker and by the count in SQL.  `MatchSelection` reduces
duplicate listings to independent ones, in the two stages of
`selectIndependentInventory`: of the listings of one id the first to arrive
(`FirstArrivals`), then of duplicates the better record.  Its
one caller, `deduplicateJobs`, is called by tests only; the inventories that are assessed
are built elsewhere.  It also selects with bounded diversity.  Reading facts, degrees and credentials out of text is
what these operators are given.

## What the runs check

| Run | Instance | Shows |
|---|---|---|
| `CapacityReserve_ledger` | three calls, two with one key, two buckets of two and three units, requests of one and two units | nothing oversold, nothing debited twice, a check made under the lock is true at the commit, waiting ends; implements `CapacityLedger` |
| `SearchCheckout_attempts` | one draft, one snapshot, two assessments, one handler, one worker, one unit | the rows of an attempt cohere; a unit is spent exactly when a search is activated; a closed checkout holds nothing; a paid session can be settled; the last unit is sold once |
| `SearchCheckout_snapshots` | one draft, two snapshots with an assessment each, one handler, two units | lock, checkout, snapshot and hold agree; one search per draft; implements `SearchPromise` |
| `SearchCheckout_liveness` | one attempt, one handler, one worker, one unit | payments settle, lapsed checkouts close; implements `CapacityLedger` |
| `SearchService_decided` | one search, two proposals | delivered or refunded, never both, and in the end one of them; capacity follows the criteria; nothing is released over an open proposal or on a disputed payment; every proposal ends; implements `ServicePromise` |
| `RefundOperation_returned` | one line's refund, one retry, two workers | rows, provider and workers agree; one refund pays unless tries were crossed; a pending refund is always in somebody's hands, and ends; implements `RefundPromise` |
| `MaterialLines_sold` | two lines that want one of two matches, one of them worked on; or one line with two proposals | delivered or refunded, never both; a line called off is refunded or disputed; a match is sold once at a time but for two crossings; an undisputed line comes to its end |
| `Platform` | eleven scenes, one of which the initial state picks | mail is sent or given up with an alert, and twice only after a day; held and bought documents keep their bytes; alerts close on grounds; feasibility shows what holds; the matching operators agree with their references; what is owed ends |
| `SearchCheckout_review`, `_answered`, `SearchService_disputed`, `RefundOperation_retried` | the smallest instance that shows it | four findings, below |

Why the bounds are enough.  Two attempts are what every hazard of the checkout
takes: two sessions of one draft, a late payment against a later hold, a reopened
draft.  A third would meet the others in pairs, through the same rows.  They share
a snapshot in one run, where the second follows an invalidated assessment, and
belong to two snapshots of a draft in the other, where it follows an edit.  With one
unit they compete for it; with two each can be paid.  Handlers and workers keep no
state but their program counter and the attempt they work on, and one handler
against one worker, webhooks and jobs already stops and resumes at every call; two
deliveries of the same event are in every run, because an event stays deliverable.
Two proposals to a search meet in both ways, against the same criteria, or one
against what the other had accepted.  Searches share only the capacity bucket,
which `AcceptWithoutCapacity` leaves open to every outcome, so one is enough.
Operations of refunds share nothing but the provider's limit, and the refund of
a line is the case where it does not help; two workers meet on the two jobs of a try
and on the one reconcile job; one retry is enough for every result to come from an
earlier try, and the finding takes two.  Every theorem below holds without these
bounds.

Lines of one purchase share only the claims of the matches, so a second line need only
be sold and settled: it stands for whoever wants the match.  Two proposals meet on the
revision of one line.  Two matches are the least that a substitution takes.

`Platform` holds components that share no row with each other.  Its initial state
picks the one that moves, so that the run is the sum of eleven small instances and not
their product: overlapping passes over one message; one request of maintenance with a
message, and two overlapping ones; two readers of a document; a document that is bought;
two cleaners of one document; one of two; two listings researched and corrected; two
sets of criteria; one listing under a worker that lives; and the inputs of the matching
operators.  `Enough`, ten in the code, is two.  The matching operators are checked for
all trees of up to three operators and three criteria, all comparable pays and floors of
up to three and six units in two periods, pays of every other kind against floors on both
sides of them, all triples of records that two employers, one
requisition, two pages and two fingerprints distinguish (the first employer's may be
official, and no record names one page twice), and all triples of scores for
two slots, the least in which a near equal of a near equal is out of reach.

Counters.  Bounds on what is counted: retries of a refund and of a document by its owner
(`MaxRetries`), deaths and failures of maintenance (`MaxFaults`), snapshots and plans of
a draft (`MaxCriteria`, `MaxPlans`).  All count what may stop at any time, so the bounds
add no behaviour.  A reader's attempts are counted by the code, up to three, and a
message taken twice is not told from one taken more often.  Leases, quotes and deadlines
are sets of what has run out, and how often an assessment, a proposal or a retry occurs
is bounded by the sets `Attempt` and `Amendment`, or not at all.

The runs of `RefundOperation`, `MaterialLines_sold` and `Platform` switch the deadlock
check off: a decided refund without an event or a job left rests, so does a settled
line, and so do a sent message and deleted documents, and the scene "evaluating" has no
step at all.  No other run does: no other modelled part comes to a halt, if only because
browsers, events and jobs may always come again.

## Fairness, and why the code justifies it

`SearchCheckout!Fairness`: the provider redelivers an event until it is acknowledged
(the webhook answers 500 whenever a function raised, and marks the event processed only
afterwards), and the cron route applies due local jobs on every run, retrying what
raised.  Requests, customers and operators have none.  `SearchService!Fairness`: clocks
move and due jobs are run.  No delivery, answer or operator is fair: a search that
nobody works on is still decided, by its deadline.  `CapacityReserve!Fairness`: a
transaction in progress goes on, and the database grants a row lock in turn; strong
fairness, because the lock is free only from time to time.

`RefundOperation!Fairness`: the bank decides, due and abandoned jobs are claimed,
handlers go on, processes are not killed for ever, and a job that always raises
becomes a dead letter, after twelve attempts or a day.  Webhooks and operators'
retries have none: the reconcile job must do without the events.  `Overrun` is FALSE
in the runs, because the handler renews its lease of five minutes just before its
one call of the provider, and only record and completion follow.

`MCMaterialLines!SceneFairness`: deadlines pass and their jobs are run.  No customer,
reviewer, bank or proposal is fair.

`MCPlatform` has one condition for each obligation, and only in the scenes that ask for
it.  Maintenance: requests keep coming and are carried on, of two overlapping ones only
the first; each dependency is ready again in the long run; leases, retries and the
day of a message pass.  Faults are bounded by `MaxFaults`, so that the last request
that dies is followed by others.  Readings: readers take their turns, leases and
retries pass; readers may die for ever, because the third attempt is the last.
Deletions: here nothing is counted, so in the long run one cleaner must live, must not
be outlived by its lease and must be answered by storage.  Assessment: the worker goes
on and does not die, because a claimed request has no lease and nothing takes it over.

These assume one thing that the code leaves to operators.  A failed refund or a
dead letter opens a critical alert, and while any is open the maintenance route
stops before it reaches the workers (`src/src/app/api/cron/maintenance/route.ts:58`,
`src/src/lib/operations/summary.ts:297`).  No function closes such an alert.  The
fairness of jobs is that of a system whose operators do.  `Maintenance` has the alert
and the stop, and its `MaintenanceUnsettled` asks for nothing once one is open.

The code gives up on a job after 24 hours or twelve attempts.  Except in
`RefundOperation` and `Outbox`, the fairness of the jobs stands for less than that.

## What is proved

All for every value of the constants, from the named assumptions only.

- `CapacityReserveProofs`, from `ReserveAssumption` (finitely many keys; units and
  totals are numbers): `NoOversell`, `RoomStaysTrue`, `ImplementsLedger`.  The
  invariant is the conjunction of `TypeOK`, `PoolIsHeld`, `PendingFits` and
  `CommittedFits`.  That committed rows fit is not inductive: the commit of an
  inserted row keeps it because its room was counted under the pool lock and no
  other caller can have inserted since, which is `PoolIsHeld` and `PendingFits`.
  `QuietFits` is the step that spends, returns or does nothing: it can only make
  room.
- `SearchCheckoutProofs`, from `CheckoutAssumption` (a finite set of attempts, a
  number of units): `TypeCorrect`, `LockSafety`, `OneSearch`, `SpendsWhatItServes`,
  `ClosedReturns`, `PaymentSafety`, `Capacity`, `ImplementsPromise`,
  `ImplementsLedger`.  The inductive invariant is the conjunction of the first
  four properties, `ClosedCheckoutHoldsNothing` and `RowsCohere`.  The last is the
  strengthening.  That a draft buys one search rests on the facts that a served
  draft stays converted and that only a locked draft converts, and it is the lock
  that ties it to one open checkout; that closing returns the unit rests on a
  standing quote being on the current snapshot.  Payment safety follows from the
  invariant without a step of its own.  Capacity is proved on top of it, by
  counting debits: a late reservation is made after the lapsed hold of the same
  attempt is returned.  The refinements then go action by action: most are quiet
  under the mapping, and the settling actions map to one abstract step each.
- `SearchServiceProofs`, from `ServiceAssumption`: `TypeCorrect`, `Decided`,
  `UnitsFollow`, `ReleaseWaits`, `DisputeStops`, `ImplementsPromise`.  The inductive
  invariant is `TypeOK`, `DeliveredOrRefunded`, `UnitFollowsCriteria` and
  `RowsCohere`.  That a dispute stops a release needs the whole of it: the delivery
  handler may have selected its jobs before the dispute, the function it calls does
  not ask for one and even accepts a superseded unit, and only the transition
  trigger refuses it.  So the invariant has to say that on a disputed, undecided
  search no handler is left whose revision still has a live unit, through every
  proposal accepted meanwhile.
- `RefundOperationProofs`, from `RefundAssumption`: `TypeCorrect`, `Consistent`,
  `PaysOnce`, `ImplementsPromise` for handlers of any duration, and `StaysWorked` for
  handlers that end within their lease.  The invariant of the first four is `TypeOK` and
  `RowsCohere`: a decided row names a refund that was so decided, and unless the row
  took another try's result, every earlier try failed.  From this the payment once
  follows without a step of its own: two live refunds of an uncrossed row would both be
  the last try's.  `StaysWorked` has an invariant of its own, with `HandsOver`: a run
  that is about to complete one of the two jobs of a pending refund leaves the other
  open.  Its hypothesis is needed.  With `Overrun`, TLC finds a handler that saw the
  refund failed and outlived its lease before it completes the reconcile job; meanwhile
  the refund is retried, its pending result arms the job anew and another run claims it.
  All runs share one owner, `APP_CHUNK4_WORKER_ID`, so the late completion is accepted,
  the other run's renewal raises, and a pending refund is left without a job.

- `MaterialLinesProofs`, from `MaterialAssumption`: `MaterialTypes`, `Answered`,
  `ClaimsFollow`.  The invariant of the first two says which rows of a line go together:
  only an applied payment gives a line work, files, a dispute, a refund or a release, and
  a refused one is always refunded.  That claims follow lines is not inductive on top of
  it, because the exception, a refund that released another line's match, is a
  statement about rows that were written earlier: it takes that the rows of a line
  whose refund succeeded no longer change (`Frozen`).
- `DraftProofs`, documents, from `DraftDocumentsAssumption`: `DocumentsAreSafe`,
  `DocumentTypesKept`.  The strengthening is that an authorization belongs to a draft
  that is over and bars holds (`AuthorizedFits`), that a cleaner past it removes what is
  authorized although its lease may have run out (`CleanerFits`), and that an id is
  registered once, after its bytes were stored (`RegistersOnce`).
- `DraftProofs`, feasibility, from `FeasibilityAssumption`: `FeasibilityIsSafe`,
  `FeasibilityTypesKept`.  The invariant `FeasibilityInv` keeps with every live
  assessment what the derivation read: an evaluation is never overwritten, only
  invalidated, so that the verdicts counted are the verdicts said (`ReadFrom`), and
  whatever invalidates one under a live assessment is a correction or came before the
  insertion (`RowHolds`).  The same is kept of what the worker carries from the
  derivation to the insertion (`AssessorHolds`).  The steps are divided into those that
  only add (`Grows`) and explain what they take away (`Explains`), and those that
  withdraw every assessment.
- `PlatformProofs`, mail, from `OutboxAssumption`: `MailIsSafe`.  A pass that is past the
  renewal for a message need not hold it any more.  The invariant says what is true even
  so: what is at the step after the provider's call was accepted once, and a key lapses
  only after the window in which the message is retried.
- `PlatformProofs`, maintenance, from `MaintenanceAssumption`: `MaintenanceRefinesOutbox`,
  `MaintenanceTypesKept`, `AlertsStay`.  The first takes each stage of a request to a step
  of the outbox or to none, so that whatever is proved of the outbox holds under
  maintenance.  The last is an action property and needs an invariant: that
  a request resolves only the failures of actions it has an outcome of takes that no
  stage is passed without one (`RequestsFit`).
- `PlatformProofs`, all of them side by side: `PlatformTypes`, `PlatformRefines`,
  `PlatformIsSafe`, `PlatformAlertsStay`.  A step of the platform, in whichever group of
  actors, is a step of its component, and leaves the others as they are; so what each
  promises alone it keeps here.  `EvaluationIsSound` is the property of the computed
  results, from the theorems of `MatchingProofs` for the two sizes of tree the run takes.
- `MatchingProofs`, from `NumberedTree` (finitely many nodes, operators numbered before
  criteria and 0 the root): `TreesAreSound`, `EligibleAreCertain`; and without it
  `CountedIsReleased`, `SalariesAreSound`, `InventoriesAreSound`, `SelectionsAreSound`.
  They hold for every tree, reason, amount, permission and set of jobs, and imply what
  the run checks on small inputs.  Of the inventory they say two things: the first
  listing of every id is kept or doubles a better one that is kept, and the order of
  arrival matters only between listings of one id.  These are computations by recursion,
  for which the prover has no induction principle, so the module makes its own.
  `RecursionOnFinite` says that a recursive function on a finite set exists when what it
  needs is nearer the start; what holds at every node is shown of the last node, or of
  the smallest set, at which it would fail.  That a tree's result is right for the
  candidates left possible rests on two of them: the one who has only what is decided to
  pass satisfies no more than what passes (`SureIsPassing`), the one who has all that is
  not failed whatever does not fail (`PossibleIsNotFailing`).  That an alternative
  always selects one child rests on the order of `Better`, whose mean is compared by
  cross-multiplication, being total and transitive (`RatiosAreOrdered`).  The salary
  theorem rests on `Rounding`: a year's pay, rounded to hours, reaches a floor exactly
  when it does up to half a cent.

The proofs of the properties that the runs check were made after TLC agreed on the
small instances, the invariants among the runs' INVARIANTs.

Only model-checked: the liveness properties (`PaidSettles`,
`LapsedCheckoutCloses`, `SearchIsDecided`, `ProposalIsAnswered`, `WaitEnds`,
`RefundEnds`, `PaidLineEnds`, `PlatformProgress`), which need reasoning about ENABLED
under fairness that the proof system does not do; and the four findings, which are
refuted.  Every invariant and every safety property of the passing runs is a theorem.

A note on form.  The record of an element is rewritten as a whole, as in
`[line EXCEPT ![l] = [@ EXCEPT !.x = .., !.y = ..]]`, in the modules proved about: this
version of the prover misreads an EXCEPT with two updates at one index, and would prove
what is false.

## Where the code and its documents part

- `ReviewCanBeEdited`.  The guard of quotes refuses a second invalidation, and
  editing a COMPLETE draft invalidates every quote of its snapshot.  After an
  expired or compensated checkout the draft can no longer be edited.  The same guard
  makes the expiry of an open checkout raise once an answer or a research round
  has invalidated its quote, so that its unit is not returned; this is why
  `LapsedCheckoutCloses` leaves that case out.
- `PaymentIsAnswered`.  A resume removed or replaced on a COMPLETE draft does not
  stop the promotion of its checkout.  The activation of the payment then raises on
  every redelivery: no search, no refund.  `PaidSettles` is the same property
  with this case excepted, and holds.
- `NoRefundInOpenDispute`.  An open dispute cancels the service without marking a
  refund as started, so a deadline, an expiry, a decline or an acceptance without
  capacity starts one while the dispute is open.
- `MoneyBackOnce`.  A retry clears the provider's id of the failed refund, and a row
  without an id takes a result with any.  A late event of the failed try therefore
  decides its retry, whose refund may be under way; that refund's own results are then
  refused, and the next retry pays the customer a second time.  The provider's limit
  prevents it for whole payments and not for one line of several.
  `PaysOnceUncrossed` is the same property with this case excepted, and holds.

More was met while modelling that no run states, because no document or test of the
repository promises the opposite, or because the model excepts it by name.

Refunds and checkout.

- A refund whose submit job became a dead letter stays PENDING, and only a FAILED one can
  be retried; `ap_retry_search_refund` is called by the integration tests only.
- The expiry of a provisional attempt asks for a transition of its command from CREATING
  to COMPENSATED that the trigger refuses: it always raises, and the unit stays held.
- A stale payment unbinds its draft but leaves it locked, and a draft locked to nothing
  raises when edited.  An unverified charge fails its payment attempt without a refund.
- A returned allocation is answered again to a retry of its key.
- A deadline job that runs in the very microsecond of its deadline does nothing and is
  completed, because the comparison is strict.

Search service.

- A proposal may be made or accepted on a service that a dispute canceled, which sets it
  to researching again, or be made beside an open one; accepting one of two leaves the
  other to expire, which then refunds the search.

Material lines.

- `ap_release_fully_refunded_entitlement` deletes a claim by order and match, not by line.
  The refund of a payment that came after its checkout had ended frees a match that has
  been sold to another line since.  So does the refund after a substitution, when of the
  two history rows of one time the old match's comes out as the latest.  These are the
  two crossings that `ClaimFollowsLine` excepts.
- Approving a file makes a line that a dispute called off READY_TO_RELEASE.  If its
  deadline job has already found nothing to do, the line is neither deliverable nor
  refunded after the dispute is won.  `PaidLineEnds` leaves disputed lines out; with them
  it fails in eleven steps.
- The unit of a line stays superseded after the dispute is won.  A line approved while
  disputed is then READY_TO_RELEASE, its release raises (`CommitRelease`), and only a new
  revision or its deadline ends that.
- A listing found closed before generation leaves the earlier check before the release
  valid for its hour.
- An accepted change leaves the other proposals of the line open; declining one of them,
  or its expiry, refunds the line.  A release while a correction is proposed delivers
  the uncorrected facts.
- The deadline, a decline and an expiry raise while the dispute is open or lost.
- The apply-packs route passes `p_reason_code` where the function takes `p_reason`, so
  that its compensation always fails and the expiry has to do it.

Feasibility.

- A claim of a request has no lease: a worker that dies keeps it for ever, and a later
  finalization, which would set the claimed request STALE without clearing its claim, is
  refused by the table's check.  This is why `FinalizeAgain` asks for an unclaimed
  request.
- The unique key of evaluations counts invalidated ones: after an answer a job is not
  evaluated again under the same versions.
- An answer between derivation and insertion leaves an assessment live that rests on
  withdrawn evidence (`overlapped`); one between check and completion completes the
  request on a withdrawn assessment.
- After a parser correction the assessment from before it is still shown, and the copied
  members have no evaluations of their own.

Matching.

- Unknowns that decide a tree only together name no leaf, and the blame falls back to a
  parser's uncertainty, for a reviewer.
- Listings of one requisition, or of one page, are reduced to the first to arrive before
  any quality is looked at (`deduplication.ts:56`).  A third party's record before the
  employer's own therefore keeps its place, and if a third listing displaces it through
  a shared page, the dropped one is lost although nothing that is kept doubles it.  The
  tests "is input-order stable and chooses the strict stronger record"
  (`src/tests/unit/chunk3-dedup-feasibility.test.ts:42`) and "keeps graph selection and
  ranking independent of input order" (`src/tests/unit/chunk3-properties.test.ts:24`)
  use no two listings of one id, and `src/docs/job-search/SOURCE_EXPANSION.md:41`
  promises that a direct employer's posting is preferred.  `InventoryHolds` and
  `OrderHolds` state what is true: the first of each id is kept or beaten, and any other
  change of order changes nothing.
- Half a cent below the floor passes after the conversion; a floor of nothing that only
  an upper end reaches counts as an overlap.  In its one caller (`salaryInput`) a
  permission for variable pay decides nothing, since such pay is refused for comparison
  before it is asked, and nothing is an estimate.
- A review may allow an omission that the customer's own policy blocks.
- What a release can name asks for a linked job, which the count of deliverable jobs
  does not.

Documents, mail and operations.

- An upload whose registration committed but whose answer was lost loses the bytes of a
  registered document; a retry handler that dies between its two calls leaves a document
  quarantined with no job.
- A message claimed after the provider's day may be sent twice: the claim does not look at
  `provider_idempotency_expires_at`.
- A failed diagnosis resolves open alerts of dependencies, because it reports none; the
  alert of an action's failure is also closed by a later request that skipped the action.

## What is not modelled, and why

The content of snapshots, quotes, evaluations and messages; amounts, which are
constants of the products; the checks of a release on its ten jobs, which depend on
that content and are one condition here (`evaluated`).  Authentication and rate
limits.  Row locks inside a function other than `ap_reserve_capacity`: the models
take each function as one step, so they cannot show a deadlock of the database.

- Order access: tokens of one row with a counter and an expiry, that no other component
  reads.
- Job board and job sources: collection against external pages, staged and projected in
  one transaction each.
- References: permissions and payloads; what they do to a line is `AmendReferences`.
- The states of an inbox row: the functions behind a webhook are safe to repeat, and the
  models repeat them.
- The first, superseded order workflow, which shares tables but no row with the corrected
  one.
- Document rendering, the reading of text, pages, scripts, generated types: computation
  and input/output without shared state.  They are most of the lines under `src/src`, and
  most of what is modelled is in `src/supabase/migrations`.

## Plan

Done, in the order of the harm done when a part goes wrong: capacity, the checkout, the
service, refunds; then lines of documents, mail and maintenance, documents of a draft,
feasibility and the matching operators.  What is left:

1. Several lines of one purchase on one allocation, with `CapacityLedger` as the abstract
   specification, partial refunds and regenerations.
2. One abstract specification of a lease, which the outbox, the readers, the cleaners and
   the jobs of a refund would implement: all four let a worker finish after its lease.
3. The row locks of draft, payment and service in the order in which the functions take
   them.
4.  The recomputation of the board against its filter, and the takeover of a collection
   run.
