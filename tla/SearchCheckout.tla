---------------------------- MODULE SearchCheckout ----------------------------
(***************************************************************************)
(* The search checkout: an anonymous intake draft, its finalized snapshots *)
(* and feasibility assessments, the quotes, capacity holds and checkout    *)
(* attempts built on them, the payment provider's session, and the three   *)
(* kinds of process that move them: checkout requests, background workers  *)
(* and provider webhooks.                                                  *)
(*                                                                         *)
(* Every PL/pgSQL function is one transaction, so one action.  A request   *)
(* handler or a worker job calls several of them with provider calls in    *)
(* between: each call is a step of its own.  A function that raises rolls  *)
(* back, so its raise conditions, the table triggers' included, are guards *)
(* here; what the caller does with the error is a step of the caller.      *)
(*                                                                         *)
(* All identifiers of an attempt are derived from its request key, which   *)
(* is a function of draft, snapshot and assessment: Attempt names an       *)
(* assessment together with the only quote, command, checkout, payment and *)
(* hold that can be built on it.                                           *)
(***************************************************************************)
EXTENDS Naturals, FiniteSets

CONSTANTS
  Draft,        \* ap_anonymous_drafts
  Snapshot,     \* ap_intake_snapshots a draft can still finalize
  Attempt,      \* assessments, each with its quote, checkout and payment
  Request,      \* POST /api/checkout/search handlers in flight
  Worker,       \* processes running processChunk4Workers
  DraftOf,      \* the draft of a snapshot
  SnapshotOf,   \* the snapshot of an attempt
  Total,        \* total_units of the search bucket now open
  None

ASSUME CheckoutAssumption ==
  /\ DraftOf \in [Snapshot -> Draft]
  /\ SnapshotOf \in [Attempt -> Snapshot]
  /\ IsFiniteSet(Attempt)
  /\ Total \in Nat
  /\ None \notin Snapshot
  /\ None \notin Attempt

VARIABLES
  draft,            \* ap_anonymous_drafts.state
  current,          \* ap_anonymous_drafts.finalized_snapshot_id
  binding,          \* ap_anonymous_drafts.checkout_attempt_id
  resume,           \* processing of the draft's current RESUME document
  staleEvaluation,  \* snapshots with an already invalidated match evaluation
  assessment,       \* a LIKELY ap_feasibility_assessments row, or none yet
  quote,            \* ap_quotes.invalidated_at
  command,          \* ap_external_commands.state of CREATE_SEARCH_CHECKOUT
  leased,           \* the attempts whose provisional lease is still running
  lapsed,           \* the attempts whose quote has reached expires_at
  checkout,         \* ap_checkout_attempts.state
  invalidated,      \* attempts with ap_checkout_attempts.invalidated_at set
  bound,            \* attempts with provider_checkout_session_id set
  hold,             \* ap_capacity_allocations.lifecycle of the reservation
  reacquired,       \* the one late reservation: UNTRIED, DENIED, CONSUMED
  settlement,       \* ap_payment_attempts.settlement
  services,         \* attempts with an activated ap_search_services row
  refund,           \* cause of the queued ap_refund_operations row
  session,          \* the provider's checkout session
  offered,          \* attempts whose session URL reached a browser
  cleanup,          \* attempts with a CHECKOUT_PROVISIONAL_CLEANUP job
  request,          \* program counter of every checkout request
  worker            \* program counter of every worker

intakeVars   == <<draft, current, binding, resume, staleEvaluation>>
quoteVars    == <<assessment, quote, command, leased, lapsed>>
checkoutVars == <<checkout, invalidated, bound, hold, reacquired>>
paymentVars  == <<settlement, services, refund>>
providerVars == <<session, offered>>
processVars  == <<cleanup, request, worker>>
vars == <<intakeVars, quoteVars, checkoutVars, paymentVars, providerVars,
          processVars>>

DraftState      == {"IN_PROGRESS", "COMPLETE", "LOCKED_TO_CHECKOUT",
                    "CONVERTED", "EXPIRED"}
ResumeState     == {"NONE", "PENDING", "READY"}
AssessmentState == {"NONE", "LIKELY", "INVALIDATED"}
QuoteState      == {"NONE", "VALID", "INVALIDATED"}
CommandState    == {"NONE", "CREATING", "APPLIED", "COMPENSATED"}
CheckoutState   == {"ABSENT", "NONE", "OPEN", "COMPLETED", "EXPIRED",
                    "CANCELED"}
HoldState       == {"NONE", "RESERVED", "CONSUMED", "RELEASED", "EXPIRED",
                    "SUPERSEDED"}
SessionState    == {"NONE", "OPEN", "EXPIRED", "COMPLETE", "UNVERIFIED"}
RefundCause     == {"NONE", "DUPLICATE_ATTEMPT", "STALE_ATTEMPT",
                    "FULL_SEARCH"}
ReacquiredState == {"UNTRIED", "DENIED", "CONSUMED"}
SettlementState == {"UNPAID", "PAID", "FAILED"}
RequestSteps    == {"BEGUN", "SESSION", "EXPIRING", "COMPENSATING"}
WorkerSteps     == {"REOPEN", "CREATE", "PROMOTE", "PROVIDER_EXPIRE", "EXPIRE"}
Idle            == [step |-> "IDLE", attempt |-> None]
Busy(steps)     == [step : steps, attempt : Attempt]

Owner(a)        == DraftOf[SnapshotOf[a]]
AttemptsOf(s)   == {a \in Attempt : SnapshotOf[a] = s}
IsCurrent(a)    == current[Owner(a)] = SnapshotOf[a]
\* Fault: a draft counts as editable while a checkout locks it.
LockedIsEditable == {"IN_PROGRESS", "COMPLETE", "LOCKED_TO_CHECKOUT"}

\* States in which documents may change and a snapshot be finalized.
Editable        == {"IN_PROGRESS", "COMPLETE"}

-------------------------------------------------------------------------------
\* Capacity: a unit is debited while HELD or SPENT.

Debits == ({a \in Attempt : hold[a] \in {"RESERVED", "CONSUMED"}} \X {"hold"})
     \cup ({a \in Attempt : reacquired[a] = "CONSUMED"} \X {"reacquired"})

\* Fault: the last unit is handed out twice.
RoomOffByOne(debits) == Cardinality(debits) <= Total

RoomIn(debits) == Cardinality(debits) < Total

\* Fault: the checkout's state is recorded for the lifecycle.
ReturnAsCheckout(a, lifecycle) ==
  [hold EXCEPT ![a] = IF @ = "RESERVED" THEN checkout[a] ELSE @]

\* Give a reservation back under the lifecycle the caller records.
Return(a, lifecycle) ==
  [hold EXCEPT ![a] = IF @ = "RESERVED" THEN lifecycle ELSE @]

-------------------------------------------------------------------------------
\* The draft: documents, finalizing, feasibility, editing.

RegisterResume(d) ==
  /\ draft[d] \in Editable
  /\ resume' = [resume EXCEPT ![d] = "PENDING"]
  /\ UNCHANGED <<draft, current, binding, staleEvaluation, quoteVars,
                 checkoutVars, paymentVars, providerVars, processVars>>

RemoveResume(d) ==
  /\ draft[d] \in Editable
  /\ resume[d] # "NONE"
  /\ resume' = [resume EXCEPT ![d] = "NONE"]
  /\ UNCHANGED <<draft, current, binding, staleEvaluation, quoteVars,
                 checkoutVars, paymentVars, providerVars, processVars>>

\* The isolated reader is given, and may record its review of, documents of a
\* draft in progress only.
ReviewResume(d) ==
  /\ draft[d] = "IN_PROGRESS"
  /\ resume[d] = "PENDING"
  /\ resume' = [resume EXCEPT ![d] = "READY"]
  /\ UNCHANGED <<draft, current, binding, staleEvaluation, quoteVars,
                 checkoutVars, paymentVars, providerVars, processVars>>

\* A snapshot's live assessment and quotes are invalidated together.
InvalidateSnapshot(s) ==
  /\ assessment' = [a \in Attempt |->
       IF SnapshotOf[a] = s /\ assessment[a] = "LIKELY"
         THEN "INVALIDATED" ELSE assessment[a]]
  /\ quote' = [a \in Attempt |->
       IF SnapshotOf[a] = s /\ quote[a] = "VALID"
         THEN "INVALIDATED" ELSE quote[a]]

Finalize(d, s) ==
  /\ draft[d] \in Editable
  /\ resume[d] = "READY"
  /\ DraftOf[s] = d
  /\ \A a \in AttemptsOf(s) : assessment[a] = "NONE"
  /\ current[d] # s
  /\ current' = [current EXCEPT ![d] = s]
  /\ draft' = [draft EXCEPT ![d] = "COMPLETE"]
  /\ InvalidateSnapshot(current[d])
  /\ hold' = [a \in Attempt |->
       IF SnapshotOf[a] = current[d] /\ hold[a] = "RESERVED"
         THEN "RELEASED" ELSE hold[a]]
  /\ UNCHANGED <<binding, resume, staleEvaluation, command, leased, lapsed,
                 checkout, invalidated, bound, reacquired, paymentVars,
                 providerVars, processVars>>

\* The feasibility worker derives a LIKELY assessment of the current snapshot.
\* A request is worked again only after its assessment was invalidated.
Assess(a) ==
  /\ assessment[a] = "NONE"
  /\ IsCurrent(a)
  /\ \A b \in AttemptsOf(SnapshotOf[a]) : assessment[b] # "LIKELY"
  /\ assessment' = [assessment EXCEPT ![a] = "LIKELY"]
  /\ UNCHANGED <<intakeVars, quote, command, leased, lapsed, checkoutVars,
                 paymentVars, providerVars, processVars>>

\* An operator opens another research round on the latest snapshot.
BeginResearchRound(d) ==
  /\ current[d] # None
  /\ InvalidateSnapshot(current[d])
  /\ UNCHANGED <<intakeVars, command, leased, lapsed, checkoutVars,
                 paymentVars, providerVars, processVars>>

\* The candidate answers an operator's question: the evaluation of that job is
\* invalidated too.  Nothing asks whether a checkout is open on the snapshot.
AnswerQuestion(d) ==
  /\ current[d] # None
  /\ \E a \in AttemptsOf(current[d]) : assessment[a] # "NONE"
  /\ InvalidateSnapshot(current[d])
  /\ staleEvaluation' = staleEvaluation \cup {current[d]}
  /\ UNCHANGED <<draft, current, binding, resume, command, leased, lapsed,
                 checkoutVars, paymentVars, providerVars, processVars>>

\* ap_guard_quote_immutable and ap_guard_invalidatable_immutable refuse a second
\* invalidation, so an edit that meets one raises.
EditRaises(d) ==
  \/ current[d] \in staleEvaluation
  \/ /\ draft[d] = "COMPLETE"
     /\ \E a \in Attempt : IsCurrent(a) /\ Owner(a) = d
                           /\ quote[a] = "INVALIDATED"
  \/ /\ draft[d] = "LOCKED_TO_CHECKOUT"
     /\ \/ binding[d] = None
        \/ checkout[binding[d]] # "OPEN"
        \/ quote[binding[d]] = "INVALIDATED"

EditComplete(d) ==
  /\ draft[d] = "COMPLETE"
  /\ ~EditRaises(d)
  /\ InvalidateSnapshot(current[d])
  /\ draft' = [draft EXCEPT ![d] = "IN_PROGRESS"]
  /\ UNCHANGED <<current, binding, resume, staleEvaluation, command, leased,
                 lapsed, checkoutVars, paymentVars, providerVars, processVars>>

EditLocked(d) ==
  LET a == binding[d] IN
  /\ draft[d] = "LOCKED_TO_CHECKOUT"
  /\ ~EditRaises(d)
  /\ hold' = Return(a, "SUPERSEDED")
  /\ quote' = [quote EXCEPT ![a] = "INVALIDATED"]
  /\ invalidated' = invalidated \cup {a}
  /\ binding' = [binding EXCEPT ![d] = None]
  /\ draft' = [draft EXCEPT ![d] = "IN_PROGRESS"]
  /\ UNCHANGED <<current, resume, staleEvaluation, assessment, command, leased,
                 lapsed, checkout, bound, reacquired, paymentVars,
                 providerVars, processVars>>

-------------------------------------------------------------------------------
\* Time: a lease lasts five minutes, a quote and its session thirty.  Either may
\* run out at any moment at which some code can still tell the difference.

LeaseLapses(a) ==
  /\ a \in leased
  /\ checkout[a] = "NONE"
  /\ leased' = leased \ {a}
  /\ UNCHANGED <<intakeVars, assessment, quote, command, lapsed, checkoutVars,
                 paymentVars, providerVars, processVars>>

QuoteLapses(a) ==
  /\ checkout[a] \in {"NONE", "OPEN"} \/ session[a] = "OPEN"
  /\ a \notin lapsed
  /\ lapsed' = lapsed \cup {a}
  /\ UNCHANGED <<intakeVars, assessment, quote, command, leased, checkoutVars,
                 paymentVars, providerVars, processVars>>

-------------------------------------------------------------------------------
\* The provider and the customer.

\* sessions.create with the command's idempotency key: the first call opens the
\* session, every later one is answered with the response saved then.
ProviderCreates(a) ==
  /\ session[a] = "NONE" => a \notin lapsed
  /\ session' = [session EXCEPT ![a] = IF @ = "NONE" THEN "OPEN" ELSE @]

ProviderExpires(a) ==
  /\ session[a] = "OPEN"
  /\ session' = [session EXCEPT ![a] = "EXPIRED"]

SessionLapses(a) ==
  /\ a \in lapsed
  /\ ProviderExpires(a)
  /\ UNCHANGED <<intakeVars, quoteVars, checkoutVars, paymentVars, offered,
                 processVars>>

\* A customer holding the URL completes the session; the charge passes
\* immediateSearchPayment (COMPLETE) or not (UNVERIFIED).
CustomerPays(a, outcome) ==
  /\ a \in offered
  /\ session[a] = "OPEN"
  /\ session' = [session EXCEPT ![a] = outcome]
  /\ UNCHANGED <<intakeVars, quoteVars, checkoutVars, paymentVars, offered,
                 processVars>>

-------------------------------------------------------------------------------
\* The checkout functions.

\* ap_begin_search_checkout: replays the rows of the request key, or reserves
\* a unit and provisions the attempt under a five minute lease.
BeginSearchCheckout(r, a) ==
  /\ request[r] = Idle
  /\ draft[Owner(a)] = "COMPLETE"
  /\ IsCurrent(a)
  /\ assessment[a] = "LIKELY"
  /\ IF quote[a] # "NONE"
       THEN UNCHANGED <<quote, command, leased, checkout, hold>>
       ELSE /\ RoomIn(Debits)
            /\ quote' = [quote EXCEPT ![a] = "VALID"]
            /\ command' = [command EXCEPT ![a] = "CREATING"]
            /\ leased' = leased \cup {a}
            /\ checkout' = [checkout EXCEPT ![a] = "NONE"]
            /\ hold' = [hold EXCEPT ![a] = "RESERVED"]
  /\ request' = [request EXCEPT ![r] = [step |-> "BEGUN", attempt |-> a]]
  /\ UNCHANGED <<intakeVars, assessment, lapsed, invalidated, bound,
                 reacquired, paymentVars, providerVars, cleanup, worker>>

\* What ap_promote_search_checkout and ap_guard_checkout_configuration ask
\* before a provisional attempt opens.
Promotable(a) ==
  /\ checkout[a] = "NONE"
  /\ command[a] = "CREATING"
  /\ a \in leased
  /\ a \notin lapsed
  /\ quote[a] = "VALID"
  /\ assessment[a] = "LIKELY"
  /\ hold[a] = "RESERVED"
  /\ draft[Owner(a)] = "COMPLETE"

PromoteSearchCheckout(a) ==
  \/ /\ checkout[a] = "OPEN"
     /\ UNCHANGED <<draft, binding, command, checkout, bound>>
  \/ /\ Promotable(a)
     /\ command' = [command EXCEPT ![a] = "APPLIED"]
     /\ checkout' = [checkout EXCEPT ![a] = "OPEN"]
     /\ bound' = bound \cup {a}
     /\ draft' = [draft EXCEPT ![Owner(a)] = "LOCKED_TO_CHECKOUT"]
     /\ binding' = [binding EXCEPT ![Owner(a)] = a]

PromotionRaises(a) == checkout[a] # "OPEN" /\ ~Promotable(a)

\* Fault: the quote of the compensated attempt is left standing.
CompensateKeepsQuote(a) ==
  /\ checkout[a] = "NONE"
  /\ quote[a] = "VALID"
  /\ command' = [command EXCEPT ![a] =
                   IF @ = "CREATING" THEN "COMPENSATED" ELSE @]
  /\ hold' = Return(a, "RELEASED")
  /\ invalidated' = invalidated \cup {a}
  /\ bound' = bound \cup {a}
  /\ UNCHANGED quote

\* ap_compensate_search_checkout, given the session it knows to be dead.
CompensateSearchCheckout(a) ==
  /\ checkout[a] = "NONE"
  /\ quote[a] = "VALID"
  /\ command' = [command EXCEPT ![a] =
                   IF @ = "CREATING" THEN "COMPENSATED" ELSE @]
  /\ hold' = Return(a, "RELEASED")
  /\ quote' = [quote EXCEPT ![a] = "INVALIDATED"]
  /\ invalidated' = invalidated \cup {a}
  /\ bound' = bound \cup {a}

\* Fault: an open checkout is not among the states that can expire.
OnlyProvisionalExpires(a) == checkout[a] = "NONE" /\ quote[a] = "VALID"

\* ap_expire_search_checkout raises on a provisional attempt, whose command the
\* trigger does not let go from CREATING to COMPENSATED, and wherever the quote
\* was invalidated before; on a closed attempt it changes nothing.
ExpiryCommits(a) ==
  /\ checkout[a] \in {"NONE", "OPEN"}
  /\ checkout[a] = "NONE" => command[a] # "CREATING"
  /\ quote[a] = "VALID"

ExpireSearchCheckout(a, closed) ==
  /\ IF ExpiryCommits(a)
       THEN /\ hold' = Return(a, "EXPIRED")
            /\ quote' = [quote EXCEPT ![a] = "INVALIDATED"]
            /\ checkout' = [checkout EXCEPT ![a] =
                              IF @ = "OPEN" THEN closed ELSE @]
            /\ invalidated' = IF checkout[a] = "NONE"
                                THEN invalidated \cup {a} ELSE invalidated
       ELSE UNCHANGED <<hold, quote, checkout, invalidated>>
  /\ IF /\ ExpiryCommits(a)
        /\ checkout[a] = "OPEN"
        /\ draft[Owner(a)] = "LOCKED_TO_CHECKOUT"
        /\ binding[Owner(a)] = a
       THEN /\ draft' = [draft EXCEPT ![Owner(a)] = "COMPLETE"]
            /\ binding' = [binding EXCEPT ![Owner(a)] = None]
       ELSE UNCHANGED <<draft, binding>>
  /\ UNCHANGED <<current, resume, staleEvaluation, assessment, command, leased,
                 lapsed, bound, reacquired, paymentVars>>

-------------------------------------------------------------------------------
\* POST /api/checkout/search, after ap_begin_search_checkout.

CreateSession(r) ==
  LET a == request[r].attempt IN
  /\ request[r].step = "BEGUN"
  /\ ProviderCreates(a)
  /\ request' = [request EXCEPT ![r].step = "SESSION"]
  /\ UNCHANGED <<intakeVars, quoteVars, checkoutVars, paymentVars, offered,
                 cleanup, worker>>

\* The answer of the promotion reaches the handler, which answers the browser;
\* or it is lost, and the handler takes the promotion to have failed.
Promote(r) ==
  LET a == request[r].attempt IN
  /\ request[r].step = "SESSION"
  /\ PromoteSearchCheckout(a)
  /\ \/ /\ request' = [request EXCEPT ![r] = Idle]
        /\ offered' = offered \cup {a}
     \/ /\ request' = [request EXCEPT ![r].step = "EXPIRING"]
        /\ UNCHANGED offered
  /\ UNCHANGED <<current, resume, staleEvaluation, assessment, quote, leased,
                 lapsed, invalidated, hold, reacquired, paymentVars, session,
                 cleanup, worker>>

PromotionFails(r) ==
  /\ request[r].step = "SESSION"
  /\ PromotionRaises(request[r].attempt)
  /\ request' = [request EXCEPT ![r].step = "EXPIRING"]
  /\ UNCHANGED <<intakeVars, quoteVars, checkoutVars, paymentVars,
                 providerVars, cleanup, worker>>

ExpireAtProvider(r) ==
  /\ request[r].step = "EXPIRING"
  /\ ProviderExpires(request[r].attempt)
  /\ request' = [request EXCEPT ![r].step = "COMPENSATING"]
  /\ UNCHANGED <<intakeVars, quoteVars, checkoutVars, paymentVars, offered,
                 cleanup, worker>>

Compensate(r) ==
  /\ request[r].step = "COMPENSATING"
  /\ CompensateSearchCheckout(request[r].attempt)
  /\ request' = [request EXCEPT ![r] = Idle]
  /\ UNCHANGED <<intakeVars, assessment, leased, lapsed, checkout, reacquired,
                 paymentVars, providerVars, cleanup, worker>>

\* A handler dies, or a call of it fails and it answers with an error.
RequestStops(r) ==
  /\ request[r] # Idle
  /\ request' = [request EXCEPT ![r] = Idle]
  /\ UNCHANGED <<intakeVars, quoteVars, checkoutVars, paymentVars,
                 providerVars, cleanup, worker>>

\* POST /api/checkout/search/status: the browser holding the cookie cancels.
\* The provider's session stays as it is.
CancelSearchCheckout(a) ==
  /\ a \in offered
  /\ ExpireSearchCheckout(a, "CANCELED")
  /\ UNCHANGED <<providerVars, processVars>>

-------------------------------------------------------------------------------
\* processChunk4Workers.

\* CHECKOUT_EXPIRY: a local job, one transaction.
CheckoutExpiryJob(a) ==
  /\ checkout[a] = "OPEN"
  /\ a \in lapsed
  /\ ExpireSearchCheckout(a, "EXPIRED")
  /\ UNCHANGED <<providerVars, processVars>>

WorkerAt(w, step, a) ==
  /\ worker' = [worker EXCEPT ![w] = [step |-> step, attempt |-> a]]
  /\ UNCHANGED request

WorkerDone(w) ==
  /\ worker' = [worker EXCEPT ![w] = Idle]
  /\ UNCHANGED <<cleanup, request>>

\* ap_enqueue_chunk4_due_jobs finds provisional attempts whose lease ran out;
\* their job is claimed in the same cron run, or retried in a later one.
\* handleProvisionalCheckout reads the rows and decides; the calls come later.
ReadProvisional(w, a) ==
  /\ worker[w] = Idle
  /\ checkout[a] = "NONE"
  /\ a \in cleanup \/ (command[a] = "CREATING" /\ a \notin leased)
  /\ cleanup' = cleanup \cup {a}
  /\ WorkerAt(w, IF quote[a] = "INVALIDATED" \/ a \in lapsed
                   THEN "EXPIRE" ELSE "REOPEN", a)
  /\ UNCHANGED <<intakeVars, quoteVars, checkoutVars, paymentVars,
                 providerVars>>

\* ap_reopen_provisional_search_checkout.
Reopen(w) ==
  LET a == worker[w].attempt IN
  /\ worker[w].step = "REOPEN"
  /\ checkout[a] = "NONE"
  /\ command[a] = "CREATING"
  /\ hold[a] = "RESERVED"
  /\ quote[a] = "VALID"
  /\ a \notin lapsed
  /\ leased' = leased \cup {a}
  /\ WorkerAt(w, "CREATE", a)
  /\ UNCHANGED <<cleanup, intakeVars, assessment, quote, command, lapsed,
                 checkoutVars, paymentVars, providerVars>>

WorkerCreates(w) ==
  LET a == worker[w].attempt IN
  /\ worker[w].step = "CREATE"
  /\ ProviderCreates(a)
  /\ WorkerAt(w, "PROMOTE", a)
  /\ UNCHANGED <<cleanup, intakeVars, quoteVars, checkoutVars, paymentVars,
                 offered>>

WorkerPromotes(w) ==
  /\ worker[w].step = "PROMOTE"
  /\ PromoteSearchCheckout(worker[w].attempt)
  /\ WorkerDone(w)
  /\ UNCHANGED <<current, resume, staleEvaluation, assessment, quote, leased,
                 lapsed, invalidated, hold, reacquired, paymentVars,
                 providerVars>>

\* handleInvalidatedCheckout: an open checkout whose quote was invalidated.
RetrieveInvalidated(w, a) ==
  /\ worker[w] = Idle
  /\ checkout[a] = "OPEN"
  /\ quote[a] = "INVALIDATED"
  /\ session[a] \in {"OPEN", "EXPIRED"}
  /\ WorkerAt(w, IF session[a] = "OPEN" THEN "PROVIDER_EXPIRE"
                                        ELSE "EXPIRE", a)
  /\ UNCHANGED <<cleanup, intakeVars, quoteVars, checkoutVars, paymentVars,
                 providerVars>>

WorkerExpiresAtProvider(w) ==
  LET a == worker[w].attempt IN
  /\ worker[w].step = "PROVIDER_EXPIRE"
  /\ ProviderExpires(a)
  /\ WorkerAt(w, "EXPIRE", a)
  /\ UNCHANGED <<cleanup, intakeVars, quoteVars, checkoutVars, paymentVars,
                 offered>>

WorkerExpires(w) ==
  /\ worker[w].step = "EXPIRE"
  /\ ExpireSearchCheckout(worker[w].attempt, "EXPIRED")
  /\ WorkerDone(w)
  /\ UNCHANGED providerVars

\* A call raises or the worker dies: the job is retried from its first read.
WorkerStops(w) ==
  /\ worker[w] # Idle
  /\ WorkerDone(w)
  /\ UNCHANGED <<intakeVars, quoteVars, checkoutVars, paymentVars,
                 providerVars>>

-------------------------------------------------------------------------------
\* POST /api/stripe/webhook.  The provider posts an event when its session
\* completes or expires and redelivers it until a delivery is acknowledged; one
\* that raises, or dies before the event is marked processed, comes again.  A
\* delivery of an event already applied changes nothing.

\* checkout.session.expired: expireCorrectedSearch.
ExpiredWebhook(a) ==
  /\ session[a] = "EXPIRED"
  /\ ExpireSearchCheckout(a, "EXPIRED")
  /\ UNCHANGED <<providerVars, processVars>>

\* Fault: a payment that arrives after the quote's time is ignored.
PaymentEventInTime(a) ==
  /\ session[a] \in {"COMPLETE", "UNVERIFIED"}
  /\ a \in bound
  /\ a \notin lapsed
  /\ settlement[a] = "UNPAID"
  /\ UNCHANGED <<current, resume, staleEvaluation, quoteVars, bound,
                 providerVars, processVars>>

\* checkout.session.completed: completeCorrectedSearch finds the attempt by its
\* session, then ap_apply_verified_search_payment settles it once.
PaymentEvent(a) ==
  /\ session[a] \in {"COMPLETE", "UNVERIFIED"}
  /\ a \in bound
  /\ settlement[a] = "UNPAID"
  /\ UNCHANGED <<current, resume, staleEvaluation, quoteVars, bound,
                 providerVars, processVars>>

\* Fault: the verification of the charge is not asked for.
PaymentUnchecked(a) ==
  /\ PaymentEvent(a)
  /\ settlement' = [settlement EXCEPT ![a] = "PAID"]

VerifiedPayment(a) ==
  /\ PaymentEvent(a)
  /\ session[a] = "COMPLETE"
  /\ settlement' = [settlement EXCEPT ![a] = "PAID"]

CloseCheckout(a) ==
  checkout' = [checkout EXCEPT ![a] = IF @ = "OPEN" THEN "COMPLETED" ELSE @]

QueueRefund(a, cause) ==
  /\ refund' = [refund EXCEPT ![a] = cause]
  /\ UNCHANGED services

HasWinner(a)  == \E b \in services : SnapshotOf[b] = SnapshotOf[a]

\* Fault: only the attempt's own invalidation makes a payment stale.
StaleByAttemptOnly(a) ==
  \/ a \in invalidated
  \/ checkout[a] = "CANCELED"
  \/ ~IsCurrent(a)

StalePaid(a)  == \/ quote[a] = "INVALIDATED"
                 \/ a \in invalidated
                 \/ checkout[a] = "CANCELED"
                 \/ ~IsCurrent(a)
HoldLive(a)   == hold[a] = "RESERVED" /\ a \notin lapsed

UnverifiedPayment(a) ==
  /\ PaymentEvent(a)
  /\ session[a] = "UNVERIFIED"
  /\ settlement' = [settlement EXCEPT ![a] = "FAILED"]
  /\ UNCHANGED <<draft, binding, checkout, invalidated, hold, reacquired,
                 services, refund>>

DuplicatePayment(a) ==
  /\ VerifiedPayment(a)
  /\ HasWinner(a)
  /\ hold' = Return(a, "RELEASED")
  /\ CloseCheckout(a)
  /\ invalidated' = invalidated \cup {a}
  /\ QueueRefund(a, "DUPLICATE_ATTEMPT")
  /\ UNCHANGED <<draft, binding, reacquired>>

StalePayment(a) ==
  /\ VerifiedPayment(a)
  /\ ~HasWinner(a)
  /\ StalePaid(a)
  /\ hold' = Return(a, "RELEASED")
  /\ CloseCheckout(a)
  /\ invalidated' = invalidated \cup {a}
  /\ QueueRefund(a, "STALE_ATTEMPT")
  /\ binding' = [binding EXCEPT ![Owner(a)] = IF @ = a THEN None ELSE @]
  /\ UNCHANGED <<draft, reacquired>>

\* Fault: the lapsed hold is kept beside the late reservation.
ReacquiringKeepsHold(a) ==
  /\ VerifiedPayment(a)
  /\ ~HasWinner(a)
  /\ ~StalePaid(a)
  /\ ~HoldLive(a)
  /\ reacquired[a] = "UNTRIED"
  /\ UNCHANGED hold

\* Fault: the lapsed hold is spent before the late reservation is made.
ReacquiringSpendsHold(a) ==
  /\ VerifiedPayment(a)
  /\ ~HasWinner(a)
  /\ ~StalePaid(a)
  /\ ~HoldLive(a)
  /\ reacquired[a] = "UNTRIED"
  /\ hold' = Return(a, "CONSUMED")

\* The reservation is gone: one late reservation is attempted.  It needs room
\* once the lapsed hold is returned, and the pool may be closed by then.
Reacquiring(a) ==
  /\ VerifiedPayment(a)
  /\ ~HasWinner(a)
  /\ ~StalePaid(a)
  /\ ~HoldLive(a)
  /\ reacquired[a] = "UNTRIED"
  /\ hold' = Return(a, "EXPIRED")

\* ap_guard_state_transition lets only an open checkout complete, only a locked
\* draft convert, and no converted draft expire.
MayConvert(a) == checkout[a] = "OPEN" /\ draft[Owner(a)] = "LOCKED_TO_CHECKOUT"
MayExpire(a)  == checkout[a] = "OPEN" /\ draft[Owner(a)] # "CONVERTED"

CapacityException(a) ==
  /\ Reacquiring(a)
  /\ MayExpire(a)
  /\ reacquired' = [reacquired EXCEPT ![a] = "DENIED"]
  /\ CloseCheckout(a)
  /\ QueueRefund(a, "FULL_SEARCH")
  /\ draft' = [draft EXCEPT ![Owner(a)] = "EXPIRED"]
  /\ binding' = [binding EXCEPT ![Owner(a)] = None]
  /\ UNCHANGED invalidated

Activated(a) ==
  /\ resume[Owner(a)] = "READY"
  /\ MayConvert(a)
  /\ services' = services \cup {a}
  /\ CloseCheckout(a)
  /\ draft' = [draft EXCEPT ![Owner(a)] = "CONVERTED"]
  /\ binding' = [binding EXCEPT ![Owner(a)] = None]
  /\ UNCHANGED <<invalidated, refund>>

ActivateSearch(a) ==
  /\ VerifiedPayment(a)
  /\ ~HasWinner(a)
  /\ ~StalePaid(a)
  /\ HoldLive(a)
  /\ hold' = [hold EXCEPT ![a] = "CONSUMED"]
  /\ Activated(a)
  /\ UNCHANGED reacquired

ActivateReacquired(a) ==
  /\ Reacquiring(a)
  /\ RoomIn(Debits \ {<<a, "hold">>})
  /\ reacquired' = [reacquired EXCEPT ![a] = "CONSUMED"]
  /\ Activated(a)

-------------------------------------------------------------------------------
Init ==
  /\ draft = [d \in Draft |-> "IN_PROGRESS"]
  /\ current = [d \in Draft |-> None]
  /\ binding = [d \in Draft |-> None]
  /\ resume = [d \in Draft |-> "NONE"]
  /\ staleEvaluation = {}
  /\ assessment = [a \in Attempt |-> "NONE"]
  /\ quote = [a \in Attempt |-> "NONE"]
  /\ command = [a \in Attempt |-> "NONE"]
  /\ leased = {}
  /\ lapsed = {}
  /\ checkout = [a \in Attempt |-> "ABSENT"]
  /\ invalidated = {}
  /\ bound = {}
  /\ hold = [a \in Attempt |-> "NONE"]
  /\ reacquired = [a \in Attempt |-> "UNTRIED"]
  /\ settlement = [a \in Attempt |-> "UNPAID"]
  /\ services = {}
  /\ refund = [a \in Attempt |-> "NONE"]
  /\ session = [a \in Attempt |-> "NONE"]
  /\ offered = {}
  /\ cleanup = {}
  /\ request = [r \in Request |-> Idle]
  /\ worker = [w \in Worker |-> Idle]

DraftStep(d) ==
  \/ RegisterResume(d)
  \/ RemoveResume(d)
  \/ ReviewResume(d)
  \/ \E s \in Snapshot : Finalize(d, s)
  \/ BeginResearchRound(d)
  \/ AnswerQuestion(d)
  \/ EditComplete(d)
  \/ EditLocked(d)

AttemptStep(a) ==
  \/ Assess(a)
  \/ LeaseLapses(a)
  \/ QuoteLapses(a)
  \/ SessionLapses(a)
  \/ \E outcome \in {"COMPLETE", "UNVERIFIED"} : CustomerPays(a, outcome)
  \/ CancelSearchCheckout(a)
  \/ CheckoutExpiryJob(a)
  \/ ExpiredWebhook(a)
  \/ UnverifiedPayment(a)
  \/ DuplicatePayment(a)
  \/ StalePayment(a)
  \/ CapacityException(a)
  \/ ActivateSearch(a)
  \/ ActivateReacquired(a)

RequestStep(r) ==
  \/ \E a \in Attempt : BeginSearchCheckout(r, a)
  \/ CreateSession(r)
  \/ Promote(r)
  \/ PromotionFails(r)
  \/ ExpireAtProvider(r)
  \/ Compensate(r)
  \/ RequestStops(r)

WorkerStep(w) ==
  \/ \E a \in Attempt : ReadProvisional(w, a) \/ RetrieveInvalidated(w, a)
  \/ Reopen(w)
  \/ WorkerCreates(w)
  \/ WorkerPromotes(w)
  \/ WorkerExpiresAtProvider(w)
  \/ WorkerExpires(w)
  \/ WorkerStops(w)

Next ==
  \/ \E d \in Draft : DraftStep(d)
  \/ \E a \in Attempt : AttemptStep(a)
  \/ \E r \in Request : RequestStep(r)
  \/ \E w \in Worker : WorkerStep(w)

Spec == Init /\ [][Next]_vars

\* The provider keeps delivering, and the cron keeps running the local jobs.
Settle(a) ==
  \/ UnverifiedPayment(a)
  \/ DuplicatePayment(a)
  \/ StalePayment(a)
  \/ CapacityException(a)
  \/ ActivateSearch(a)
  \/ ActivateReacquired(a)

Fairness ==
  \A a \in Attempt :
    /\ WF_vars(Settle(a))
    /\ WF_vars(CheckoutExpiryJob(a))
    /\ WF_vars(ExpiredWebhook(a))

FairSpec == Spec /\ Fairness

-------------------------------------------------------------------------------
\* Types of the state variables.
TypeOK ==
  /\ draft \in [Draft -> DraftState]
  /\ current \in [Draft -> Snapshot \cup {None}]
  /\ binding \in [Draft -> Attempt \cup {None}]
  /\ resume \in [Draft -> ResumeState]
  /\ staleEvaluation \subseteq Snapshot
  /\ assessment \in [Attempt -> AssessmentState]
  /\ quote \in [Attempt -> QuoteState]
  /\ command \in [Attempt -> CommandState]
  /\ leased \subseteq Attempt
  /\ lapsed \subseteq Attempt
  /\ checkout \in [Attempt -> CheckoutState]
  /\ invalidated \subseteq Attempt
  /\ bound \subseteq Attempt
  /\ hold \in [Attempt -> HoldState]
  /\ reacquired \in [Attempt -> ReacquiredState]
  /\ settlement \in [Attempt -> SettlementState]
  /\ services \subseteq Attempt
  /\ refund \in [Attempt -> RefundCause]
  /\ session \in [Attempt -> SessionState]
  /\ offered \subseteq Attempt
  /\ cleanup \subseteq Attempt
  /\ request \in [Request -> {Idle} \cup Busy(RequestSteps)]
  /\ worker \in [Worker -> {Idle} \cup Busy(WorkerSteps)]

\* Capacity is never oversold: the units held or spent fit the bucket, late
\* reservations of paid attempts included.
NeverOversold == Cardinality(Debits) <= Total

\* An open checkout whose quote still stands is the one its draft is locked to,
\* on the snapshot that is still current, and keeps its unit of capacity; and a
\* draft is never bound to a checkout that is closed or another draft's.
LockMatchesCheckout ==
  /\ \A a \in Attempt :
       checkout[a] = "OPEN" /\ quote[a] = "VALID" =>
         /\ draft[Owner(a)] = "LOCKED_TO_CHECKOUT"
         /\ binding[Owner(a)] = a
         /\ IsCurrent(a)
         /\ hold[a] = "RESERVED"
  /\ \A d \in Draft : binding[d] # None =>
       /\ draft[d] = "LOCKED_TO_CHECKOUT"
       /\ checkout[binding[d]] = "OPEN"
       /\ Owner(binding[d]) = d

\* A draft converts into one search at most, however many of its sessions were
\* paid and in whatever order the payments arrive.
OneServicePerDraft ==
  \A a, b \in services : Owner(a) = Owner(b) => a = b

\* A unit is spent on an attempt exactly when its search was activated, and then
\* only one of its two reservations is.
SpentExactlyWhenServed ==
  \A a \in Attempt :
    /\ a \in services <=> (hold[a] = "CONSUMED" \/ reacquired[a] = "CONSUMED")
    /\ ~(hold[a] = "CONSUMED" /\ reacquired[a] = "CONSUMED")

\* A checkout that expired, was canceled or was paid holds no reservation.
ClosedCheckoutHoldsNothing ==
  \A a \in Attempt :
    checkout[a] \in {"COMPLETED", "EXPIRED", "CANCELED"} => hold[a] # "RESERVED"

\* A paid session can always be settled: its attempt is found by the session,
\* and no table trigger stands in the way of closing checkout and draft.
PaymentNeverBlocked ==
  \A a \in Attempt :
    session[a] \in {"COMPLETE", "UNVERIFIED"} /\ settlement[a] = "UNPAID" =>
      /\ a \in bound
      /\ ~HasWinner(a) /\ ~StalePaid(a) =>
           MayConvert(a) /\ MayExpire(a) /\ reacquired[a] = "UNTRIED"

\* What holds the rows of an attempt together; with the invariants above it is
\* inductive.  No row exists before the quote; a standing quote is on the
\* current snapshot; a checkout stays open, and its session known, from its
\* promotion until its quote is invalidated or its payment settled; only a
\* known session is ever paid; nothing is granted before settlement; and a
\* served draft stays converted.
RowsCohere ==
  /\ \A a \in Attempt :
       /\ quote[a] = "NONE" =>
            hold[a] = "NONE" /\ checkout[a] = "ABSENT" /\ a \notin bound
       /\ quote[a] = "VALID" => IsCurrent(a)
       /\ checkout[a] = "OPEN" => a \in bound
       /\ a \in bound /\ quote[a] = "VALID" /\ settlement[a] = "UNPAID" =>
            checkout[a] = "OPEN"
       /\ session[a] \in {"COMPLETE", "UNVERIFIED"} => a \in bound
       /\ settlement[a] = "UNPAID" =>
            a \notin services /\ refund[a] = "NONE" /\ reacquired[a] = "UNTRIED"
       /\ a \in services => draft[Owner(a)] = "CONVERTED"
  /\ offered \subseteq bound

\* The provider redelivers a payment until it is settled, and it is, unless the
\* draft no longer has a readable resume to start the search with.
PaidSettles ==
  \A a \in Attempt :
    session[a] \in {"COMPLETE", "UNVERIFIED"} ~>
      settlement[a] # "UNPAID" \/ resume[Owner(a)] # "READY"

\* An open checkout past its time is closed, and so gives its unit back, unless
\* its quote is invalidated under it or the draft is edited.
LapsedCheckoutCloses ==
  \A a \in Attempt :
    checkout[a] = "OPEN" /\ a \in lapsed ~>
      checkout[a] # "OPEN" \/ quote[a] = "INVALIDATED"

-------------------------------------------------------------------------------
\* What the review step and the payment promise without exception.  The code
\* breaks each of these; MCSearchCheckout has a run for each.

\* A draft shown for review can be taken back to editing.
ReviewCanBeEdited == \A d \in Draft : draft[d] = "COMPLETE" => ~EditRaises(d)

\* A verified payment is answered by a search or a refund.
PaymentIsAnswered ==
  \A a \in Attempt : session[a] = "COMPLETE" ~> settlement[a] = "PAID"

-------------------------------------------------------------------------------
\* The checkout implements the capacity ledger: an attempt has two slots, its
\* reservation and the late one.

HeldSlot(a) ==
  [status |-> IF hold[a] = "NONE" THEN "FREE"
              ELSE IF hold[a] = "RESERVED" THEN "HELD"
              ELSE IF hold[a] = "CONSUMED" THEN "SPENT"
              ELSE "RETURNED",
   bucket |-> IF hold[a] = "NONE" THEN None ELSE "search"]

LateSlot(a) ==
  IF reacquired[a] = "CONSUMED"
    THEN [status |-> "SPENT", bucket |-> "search"]
    ELSE [status |-> "FREE", bucket |-> None]

Slots == Attempt \X {"hold", "reacquired"}
Units ==
  [s \in Slots |-> IF s[2] = "hold" THEN HeldSlot(s[1]) ELSE LateSlot(s[1])]

Ledger == INSTANCE CapacityLedger WITH
  Slot   <- Slots,
  Bucket <- {"search"},
  Total  <- [b \in {"search"} |-> Total],
  unit   <- Units

\* Holds and late reservations only ever move as the ledger allows.
KeepsLedger == Ledger!Spec

\* The checkout implements the promise to the customer.
ChargeOf(a) ==
  IF session[a] = "COMPLETE" THEN "VERIFIED"
  ELSE IF session[a] = "UNVERIFIED" THEN "UNVERIFIED"
  ELSE "NONE"

OutcomeOf(a) ==
  IF a \in services THEN "SERVED"
  ELSE IF refund[a] # "NONE" THEN "REFUNDED"
  ELSE IF settlement[a] = "FAILED" THEN "REJECTED"
  ELSE "UNSETTLED"

Charges  == [a \in Attempt |-> ChargeOf(a)]
Outcomes == [a \in Attempt |-> OutcomeOf(a)]

Promise == INSTANCE SearchPromise WITH
  OwnerOf <- [a \in Attempt |-> Owner(a)],
  charge  <- Charges,
  outcome <- Outcomes

\* Each charge is answered once, by what its verification and its draft allow.
KeepsPromise == Promise!Spec
===============================================================================
