------------------------- MODULE SearchCheckoutProofs -------------------------
(***************************************************************************)
(* Proofs about SearchCheckout, for every set of drafts, snapshots,        *)
(* attempts, requests and workers and every total of units.                *)
(*                                                                         *)
(* One inductive invariant, Inv, carries the safety invariants the runs    *)
(* check.  Each part of it has four lemmas, one for each kind of step, and *)
(* each lemma one step for each action.  Capacity is proved on top of it,  *)
(* and so is that the checkout implements SearchPromise and CapacityLedger.*)
(***************************************************************************)
EXTENDS SearchCheckout, FiniteSetTheorems, TLAPS

-------------------------------------------------------------------------------
\* The inductive invariant.
Inv == /\ TypeOK
       /\ LockMatchesCheckout
       /\ OneServicePerDraft
       /\ SpentExactlyWhenServed
       /\ ClosedCheckoutHoldsNothing
       /\ RowsCohere

\* ap_expire_search_checkout, whoever calls it, keeps the types.
LEMMA TypeExpire ==
  ASSUME TypeOK, NEW a \in Attempt, NEW closed \in {"EXPIRED", "CANCELED"},
         ExpireSearchCheckout(a, closed),
         UNCHANGED <<session, offered, cleanup>>,
         request' \in [Request -> {Idle} \cup Busy(RequestSteps)],
         worker' \in [Worker -> {Idle} \cup Busy(WorkerSteps)]
  PROVE  TypeOK'
<1>1. /\ hold' \in [Attempt -> HoldState]
      /\ quote' \in [Attempt -> QuoteState]
      /\ checkout' \in [Attempt -> CheckoutState]
      /\ invalidated' \subseteq Attempt
  BY DEF TypeOK, HoldState, QuoteState, CheckoutState, ExpireSearchCheckout,
         Return
<1>2. /\ draft' \in [Draft -> DraftState]
      /\ binding' \in [Draft -> Attempt \cup {None}]
  BY DEF TypeOK, DraftState, ExpireSearchCheckout
<1> QED BY <1>1, <1>2 DEF TypeOK, ExpireSearchCheckout, paymentVars

\* It unlocks the draft of the checkout it closes, and no other.
LEMMA LockExpire ==
  ASSUME Inv, NEW a \in Attempt, NEW closed \in {"EXPIRED", "CANCELED"},
         ExpireSearchCheckout(a, closed)
  PROVE  LockMatchesCheckout'
<1> USE CheckoutAssumption DEF Inv, TypeOK, LockMatchesCheckout,
    ExpireSearchCheckout, Return, Owner, IsCurrent, QuoteState
<1>1. CASE ~ExpiryCommits(a)
  BY <1>1
<1>2. CASE ExpiryCommits(a) /\ checkout[a] = "OPEN"
  <2>1. quote[a] = "VALID" /\ draft[Owner(a)] = "LOCKED_TO_CHECKOUT"
        /\ binding[Owner(a)] = a
    BY <1>2 DEF ExpiryCommits
  <2>2. /\ draft' = [draft EXCEPT ![Owner(a)] = "COMPLETE"]
        /\ binding' = [binding EXCEPT ![Owner(a)] = None]
        /\ quote' = [quote EXCEPT ![a] = "INVALIDATED"]
        /\ checkout' = [checkout EXCEPT ![a] = closed]
        /\ hold' = [hold EXCEPT ![a] = IF @ = "RESERVED" THEN "EXPIRED" ELSE @]
        /\ current' = current
    BY <1>2, <2>1
  <2> QED BY <2>1, <2>2
<1>3. CASE ExpiryCommits(a) /\ checkout[a] = "NONE"
  BY <1>3 DEF ExpiryCommits
<1> QED BY <1>1, <1>2, <1>3 DEF ExpiryCommits

-------------------------------------------------------------------------------
\* Documents, questions, finalizing and editing keep the types.
LEMMA TypeDraft ==
  ASSUME TypeOK, NEW d \in Draft, DraftStep(d)
  PROVE  TypeOK'
<1> USE CheckoutAssumption DEF TypeOK, DraftState, ResumeState,
   AssessmentState, QuoteState,
  CommandState, CheckoutState, HoldState, SessionState, RefundCause,
  ReacquiredState, SettlementState, RequestSteps, WorkerSteps, Idle, Busy,
  intakeVars, quoteVars, checkoutVars, paymentVars, providerVars,
  processVars
<1>1. CASE RegisterResume(d)
  BY <1>1 DEF RegisterResume
<1>2. CASE RemoveResume(d)
  BY <1>2 DEF RemoveResume
<1>3. CASE ReviewResume(d)
  BY <1>3 DEF ReviewResume
<1>4. CASE BeginResearchRound(d)
  BY <1>4 DEF BeginResearchRound, InvalidateSnapshot
<1>5. CASE AnswerQuestion(d)
  BY <1>5 DEF AnswerQuestion, InvalidateSnapshot
<1>6. CASE EditComplete(d)
  BY <1>6 DEF EditComplete, InvalidateSnapshot
<1>7. CASE EditLocked(d)
  BY <1>7 DEF EditLocked, EditRaises, Return
<1>8. CASE \E s \in Snapshot : Finalize(d, s)
  BY <1>8 DEF Finalize, InvalidateSnapshot, Editable, AttemptsOf
<1> QED BY <1>1, <1>2, <1>3, <1>4, <1>5, <1>6, <1>7, <1>8 DEF DraftStep

\* A promotion keeps the types of what it writes.
LEMMA TypePromote ==
  ASSUME TypeOK, NEW a \in Attempt, PromoteSearchCheckout(a)
  PROVE  /\ draft' \in [Draft -> DraftState]
         /\ binding' \in [Draft -> Attempt \cup {None}]
         /\ command' \in [Attempt -> CommandState]
         /\ checkout' \in [Attempt -> CheckoutState]
         /\ bound' \subseteq Attempt
<1> USE CheckoutAssumption DEF TypeOK, DraftState, CommandState, CheckoutState
<1>1. CASE UNCHANGED <<draft, binding, command, checkout, bound>>
  BY <1>1
<1>2. CASE ~UNCHANGED <<draft, binding, command, checkout, bound>>
  BY <1>2 DEF PromoteSearchCheckout
<1> QED BY <1>1, <1>2

\* Giving a reservation back keeps its type.
LEMMA TypeReturn ==
  ASSUME TypeOK, NEW a \in Attempt, NEW lifecycle \in HoldState
  PROVE  Return(a, lifecycle) \in [Attempt -> HoldState]
BY DEF TypeOK, Return

\* Closing a checkout keeps its type.
LEMMA TypeClose ==
  ASSUME TypeOK, NEW a \in Attempt, CloseCheckout(a)
  PROVE  checkout' \in [Attempt -> CheckoutState]
BY DEF TypeOK, CloseCheckout, CheckoutState

\* Queueing a refund keeps its type and serves nobody.
LEMMA TypeRefund ==
  ASSUME TypeOK, NEW a \in Attempt, NEW cause \in RefundCause,
         QueueRefund(a, cause)
  PROVE  refund' \in [Attempt -> RefundCause] /\ services' = services
BY DEF TypeOK, QueueRefund

\* Unbinding a draft keeps the type of the bindings.
LEMMA TypeUnbind ==
  ASSUME binding \in [Draft -> Attempt \cup {None}], NEW d, NEW a,
         binding' = [binding EXCEPT ![d] = IF @ = a THEN None ELSE @]
  PROVE  binding' \in [Draft -> Attempt \cup {None}]
OBVIOUS

\* Time, cancellation, expiry, payment and their webhooks keep the types.
LEMMA TypeAttempt ==
  ASSUME TypeOK, NEW a \in Attempt, AttemptStep(a)
  PROVE  TypeOK'
<1> USE CheckoutAssumption DEF TypeOK, DraftState, ResumeState,
   AssessmentState, QuoteState,
  CommandState, CheckoutState, HoldState, SessionState, RefundCause,
  ReacquiredState, SettlementState, RequestSteps, WorkerSteps, Idle, Busy,
  intakeVars, quoteVars, checkoutVars, paymentVars, providerVars,
  processVars
<1>1. CASE Assess(a)
  BY <1>1 DEF Assess
<1>2. CASE LeaseLapses(a)
  BY <1>2 DEF LeaseLapses
<1>3. CASE QuoteLapses(a)
  BY <1>3 DEF QuoteLapses
<1>4. CASE SessionLapses(a)
  BY <1>4 DEF SessionLapses, ProviderExpires
<1>5. CASE \E outcome \in {"COMPLETE", "UNVERIFIED"} : CustomerPays(a, outcome)
  BY <1>5 DEF CustomerPays
<1>6. CASE CancelSearchCheckout(a)
  BY <1>6, TypeExpire DEF CancelSearchCheckout
<1>7. CASE CheckoutExpiryJob(a)
  BY <1>7, TypeExpire DEF CheckoutExpiryJob
<1>8. CASE ExpiredWebhook(a)
  BY <1>8, TypeExpire DEF ExpiredWebhook
<1>9. CASE UnverifiedPayment(a)
  BY <1>9 DEF UnverifiedPayment, PaymentEvent
<1>10. CASE DuplicatePayment(a)
  <2>1. settlement' \in [Attempt -> SettlementState]
    BY <1>10 DEF DuplicatePayment, VerifiedPayment
  <2>2. hold' \in [Attempt -> HoldState]
    BY <1>10, TypeReturn DEF DuplicatePayment
  <2>3. checkout' \in [Attempt -> CheckoutState]
    BY <1>10, TypeClose DEF DuplicatePayment
  <2>4. refund' \in [Attempt -> RefundCause] /\ services' = services
    BY <1>10, TypeRefund DEF DuplicatePayment
  <2> QED BY <1>10, <2>1, <2>2, <2>3, <2>4
      DEF DuplicatePayment, VerifiedPayment, PaymentEvent
<1>11. CASE StalePayment(a)
  <2>1. settlement' \in [Attempt -> SettlementState]
    BY <1>11 DEF StalePayment, VerifiedPayment
  <2>2. hold' \in [Attempt -> HoldState]
    BY <1>11, TypeReturn DEF StalePayment
  <2>3. checkout' \in [Attempt -> CheckoutState]
    BY <1>11, TypeClose DEF StalePayment
  <2>4. refund' \in [Attempt -> RefundCause] /\ services' = services
    BY <1>11, TypeRefund DEF StalePayment
  <2>5. binding' \in [Draft -> Attempt \cup {None}]
    BY <1>11, TypeUnbind DEF StalePayment
  <2>6. /\ invalidated' = invalidated \cup {a}
        /\ UNCHANGED <<draft, current, resume, staleEvaluation, quoteVars,
                       bound, reacquired, providerVars, processVars>>
    BY <1>11 DEF StalePayment, VerifiedPayment, PaymentEvent
  <2> QED BY <2>1, <2>2, <2>3, <2>4, <2>5, <2>6
<1>12. CASE CapacityException(a)
  <2>1. settlement' \in [Attempt -> SettlementState]
    BY <1>12 DEF CapacityException, Reacquiring, VerifiedPayment
  <2>2. hold' \in [Attempt -> HoldState]
    BY <1>12, TypeReturn DEF CapacityException, Reacquiring
  <2>3. checkout' \in [Attempt -> CheckoutState]
    BY <1>12, TypeClose DEF CapacityException
  <2>4. refund' \in [Attempt -> RefundCause] /\ services' = services
    BY <1>12, TypeRefund DEF CapacityException
  <2>5. binding' \in [Draft -> Attempt \cup {None}]
    BY <1>12 DEF CapacityException
  <2>6. draft' \in [Draft -> DraftState]
    BY <1>12 DEF CapacityException
  <2> QED BY <1>12, <2>1, <2>2, <2>3, <2>4, <2>5, <2>6
      DEF CapacityException, Reacquiring, VerifiedPayment, PaymentEvent
<1>13. CASE ActivateSearch(a)
  <2>1. settlement' \in [Attempt -> SettlementState]
    BY <1>13 DEF ActivateSearch, VerifiedPayment
  <2>2. checkout' \in [Attempt -> CheckoutState]
    BY <1>13, TypeClose DEF ActivateSearch, Activated
  <2>3. binding' \in [Draft -> Attempt \cup {None}]
    BY <1>13 DEF ActivateSearch, Activated
  <2>4. draft' \in [Draft -> DraftState]
    BY <1>13 DEF ActivateSearch, Activated
  <2> QED BY <1>13, <2>1, <2>2, <2>3, <2>4 DEF ActivateSearch, VerifiedPayment,
      PaymentEvent, Activated
<1>14. CASE ActivateReacquired(a)
  <2>1. settlement' \in [Attempt -> SettlementState]
    BY <1>14 DEF ActivateReacquired, Reacquiring, VerifiedPayment
  <2>2. hold' \in [Attempt -> HoldState]
    BY <1>14, TypeReturn DEF ActivateReacquired, Reacquiring
  <2>3. checkout' \in [Attempt -> CheckoutState]
    BY <1>14, TypeClose DEF ActivateReacquired, Activated
  <2>4. binding' \in [Draft -> Attempt \cup {None}]
    BY <1>14 DEF ActivateReacquired, Activated
  <2>5. draft' \in [Draft -> DraftState]
    BY <1>14 DEF ActivateReacquired, Activated
  <2> QED BY <1>14, <2>1, <2>2, <2>3, <2>4, <2>5 DEF ActivateReacquired,
      Reacquiring, VerifiedPayment, PaymentEvent, Activated
<1> QED BY <1>1, <1>2, <1>3, <1>4, <1>5, <1>6, <1>7, <1>8, <1>9, <1>10, <1>11,
   <1>12, <1>13, <1>14 DEF AttemptStep

\* The steps of a checkout request keep the types.
LEMMA TypeRequest ==
  ASSUME TypeOK, NEW r \in Request, RequestStep(r)
  PROVE  TypeOK'
<1> USE CheckoutAssumption DEF TypeOK, DraftState, ResumeState,
   AssessmentState, QuoteState,
  CommandState, CheckoutState, HoldState, SessionState, RefundCause,
  ReacquiredState, SettlementState, RequestSteps, WorkerSteps, Idle, Busy,
  intakeVars, quoteVars, checkoutVars, paymentVars, providerVars,
  processVars
<1>1. CASE \E a \in Attempt : BeginSearchCheckout(r, a)
  <2>1. PICK a \in Attempt : BeginSearchCheckout(r, a)
    BY <1>1
  <2>2. request' \in [Request -> {Idle} \cup Busy(RequestSteps)]
    BY <2>1 DEF BeginSearchCheckout
  <2>3. CASE quote[a] # "NONE"
    BY <2>1, <2>2, <2>3 DEF BeginSearchCheckout
  <2>4. CASE quote[a] = "NONE"
    BY <2>1, <2>2, <2>4 DEF BeginSearchCheckout
  <2> QED BY <2>3, <2>4
<1>2. CASE CreateSession(r)
  <2>1. request[r].attempt \in Attempt
    BY <1>2 DEF CreateSession
  <2>2. request' \in [Request -> {Idle} \cup Busy(RequestSteps)]
    BY <1>2, <2>1 DEF CreateSession, ProviderCreates
  <2> QED BY <1>2, <2>1, <2>2 DEF CreateSession, ProviderCreates
<1>3. CASE Promote(r)
  <2>1. request[r].attempt \in Attempt
    BY <1>3 DEF Promote
  <2> DEFINE a == request[r].attempt
  <2>2. request' \in [Request -> {Idle} \cup Busy(RequestSteps)]
    BY <1>3, <2>1 DEF Promote
  <2>3. offered' \subseteq Attempt
    BY <1>3, <2>1 DEF Promote
  <2>4. PromoteSearchCheckout(a)
    BY <1>3 DEF Promote
  <2>5. /\ draft' \in [Draft -> DraftState]
        /\ binding' \in [Draft -> Attempt \cup {None}]
        /\ command' \in [Attempt -> CommandState]
        /\ checkout' \in [Attempt -> CheckoutState]
        /\ bound' \subseteq Attempt
    BY <2>1, <2>4, TypePromote
  <2> QED BY <1>3, <2>2, <2>3, <2>5 DEF Promote
<1>4. CASE PromotionFails(r)
  BY <1>4 DEF PromotionFails
<1>5. CASE ExpireAtProvider(r)
  <2>1. request[r].attempt \in Attempt
    BY <1>5 DEF ExpireAtProvider
  <2>2. request' \in [Request -> {Idle} \cup Busy(RequestSteps)]
    BY <1>5, <2>1 DEF ExpireAtProvider, ProviderExpires
  <2> QED BY <1>5, <2>1, <2>2 DEF ExpireAtProvider, ProviderExpires
<1>6. CASE Compensate(r)
  <2>1. request[r].attempt \in Attempt
    BY <1>6 DEF Compensate
  <2>2. request' \in [Request -> {Idle} \cup Busy(RequestSteps)]
    BY <1>6, <2>1 DEF Compensate, CompensateSearchCheckout, Return
  <2> QED BY <1>6, <2>1, <2>2 DEF Compensate, CompensateSearchCheckout, Return
<1>7. CASE RequestStops(r)
  BY <1>7 DEF RequestStops
<1> QED BY <1>1, <1>2, <1>3, <1>4, <1>5, <1>6, <1>7 DEF RequestStep

\* The steps of a background worker keep the types.
LEMMA TypeWorker ==
  ASSUME TypeOK, NEW w \in Worker, WorkerStep(w)
  PROVE  TypeOK'
<1> USE CheckoutAssumption DEF TypeOK, DraftState, ResumeState,
   AssessmentState, QuoteState,
  CommandState, CheckoutState, HoldState, SessionState, RefundCause,
  ReacquiredState, SettlementState, RequestSteps, WorkerSteps, Idle, Busy,
  intakeVars, quoteVars, checkoutVars, paymentVars, providerVars,
  processVars
<1>1. CASE \E a \in Attempt : ReadProvisional(w, a)
  BY <1>1 DEF ReadProvisional, WorkerAt
<1>2. CASE \E a \in Attempt : RetrieveInvalidated(w, a)
  BY <1>2 DEF RetrieveInvalidated, WorkerAt
<1>3. CASE Reopen(w)
  <2>1. worker[w].attempt \in Attempt
    BY <1>3 DEF Reopen
  <2>2. worker' \in [Worker -> {Idle} \cup Busy(WorkerSteps)]
    BY <1>3, <2>1 DEF Reopen, WorkerAt
  <2> QED BY <1>3, <2>1, <2>2 DEF Reopen, WorkerAt
<1>4. CASE WorkerCreates(w)
  BY <1>4 DEF WorkerCreates, ProviderCreates, WorkerAt
<1>5. CASE WorkerPromotes(w)
  <2>1. worker[w].attempt \in Attempt
    BY <1>5 DEF WorkerPromotes
  <2> DEFINE a == worker[w].attempt
  <2>2. worker' \in [Worker -> {Idle} \cup Busy(WorkerSteps)]
    BY <1>5 DEF WorkerPromotes, WorkerDone
  <2>3. PromoteSearchCheckout(a)
    BY <1>5 DEF WorkerPromotes
  <2>4. /\ draft' \in [Draft -> DraftState]
        /\ binding' \in [Draft -> Attempt \cup {None}]
        /\ command' \in [Attempt -> CommandState]
        /\ checkout' \in [Attempt -> CheckoutState]
        /\ bound' \subseteq Attempt
    BY <2>1, <2>3, TypePromote
  <2> QED BY <1>5, <2>2, <2>4 DEF WorkerPromotes, WorkerDone
<1>6. CASE WorkerExpiresAtProvider(w)
  BY <1>6 DEF WorkerExpiresAtProvider, ProviderExpires, WorkerAt
<1>7. CASE WorkerExpires(w)
  <2>1. worker[w].attempt \in Attempt
    BY <1>7 DEF WorkerExpires
  <2>2. worker' \in [Worker -> {Idle} \cup Busy(WorkerSteps)]
    BY <1>7 DEF WorkerExpires, WorkerDone
  <2> QED BY <1>7, <2>1, <2>2, TypeExpire DEF WorkerExpires, WorkerDone
<1>8. CASE WorkerStops(w)
  BY <1>8 DEF WorkerStops, WorkerDone
<1> QED BY <1>1, <1>2, <1>3, <1>4, <1>5, <1>6, <1>7, <1>8 DEF WorkerStep

-------------------------------------------------------------------------------
\* Documents, questions, finalizing and editing keep drafts locked to their
\* open checkout.
LEMMA LockMatchesCheckoutDraft ==
  ASSUME Inv, NEW d \in Draft, DraftStep(d)
  PROVE  LockMatchesCheckout'
<1> USE CheckoutAssumption DEF TypeOK, DraftState, ResumeState,
   AssessmentState, QuoteState,
  CommandState, CheckoutState, HoldState, SessionState, RefundCause,
  ReacquiredState, SettlementState, RequestSteps, WorkerSteps, Idle, Busy,
  intakeVars, quoteVars, checkoutVars, paymentVars, providerVars,
  processVars, Inv, Owner, IsCurrent, LockMatchesCheckout, OneServicePerDraft,
  SpentExactlyWhenServed, ClosedCheckoutHoldsNothing, RowsCohere
<1>1. CASE RegisterResume(d)
  BY <1>1 DEF RegisterResume
<1>2. CASE RemoveResume(d)
  BY <1>2 DEF RemoveResume
<1>3. CASE ReviewResume(d)
  BY <1>3 DEF ReviewResume
<1>4. CASE BeginResearchRound(d)
  BY <1>4 DEF BeginResearchRound, InvalidateSnapshot
<1>5. CASE AnswerQuestion(d)
  BY <1>5 DEF AnswerQuestion, InvalidateSnapshot
<1>6. CASE EditComplete(d)
  BY <1>6 DEF EditComplete, InvalidateSnapshot
<1>7. CASE EditLocked(d)
  BY <1>7 DEF EditLocked, EditRaises, Return
<1>8. CASE \E s \in Snapshot : Finalize(d, s)
  BY <1>8 DEF Finalize, InvalidateSnapshot, Editable, AttemptsOf
<1> QED BY <1>1, <1>2, <1>3, <1>4, <1>5, <1>6, <1>7, <1>8 DEF DraftStep

\* Time, cancellation, expiry, payment and their webhooks keep drafts locked to
\* their open checkout.
LEMMA LockMatchesCheckoutAttempt ==
  ASSUME Inv, NEW a \in Attempt, AttemptStep(a)
  PROVE  LockMatchesCheckout'
<1> USE CheckoutAssumption DEF TypeOK, DraftState, ResumeState,
   AssessmentState, QuoteState,
  CommandState, CheckoutState, HoldState, SessionState, RefundCause,
  ReacquiredState, SettlementState, RequestSteps, WorkerSteps, Idle, Busy,
  intakeVars, quoteVars, checkoutVars, paymentVars, providerVars,
  processVars, Inv, Owner, IsCurrent, LockMatchesCheckout, OneServicePerDraft,
  SpentExactlyWhenServed, ClosedCheckoutHoldsNothing, RowsCohere
<1>1. CASE Assess(a)
  BY <1>1 DEF Assess
<1>2. CASE LeaseLapses(a)
  BY <1>2 DEF LeaseLapses
<1>3. CASE QuoteLapses(a)
  BY <1>3 DEF QuoteLapses
<1>4. CASE SessionLapses(a)
  BY <1>4 DEF SessionLapses, ProviderExpires
<1>5. CASE \E outcome \in {"COMPLETE", "UNVERIFIED"} : CustomerPays(a, outcome)
  BY <1>5 DEF CustomerPays
<1>6. CASE CancelSearchCheckout(a)
  BY <1>6, LockExpire DEF CancelSearchCheckout
<1>7. CASE CheckoutExpiryJob(a)
  BY <1>7, LockExpire DEF CheckoutExpiryJob
<1>8. CASE ExpiredWebhook(a)
  BY <1>8, LockExpire DEF ExpiredWebhook
<1>9. CASE UnverifiedPayment(a)
  BY <1>9 DEF UnverifiedPayment, PaymentEvent
<1>10. CASE DuplicatePayment(a)
  <2>1. ASSUME NEW b \in Attempt, checkout'[b] = "OPEN", quote'[b] = "VALID"
        PROVE  /\ draft'[Owner(b)] = "LOCKED_TO_CHECKOUT"
               /\ binding'[Owner(b)] = b
               /\ current'[Owner(b)] = SnapshotOf[b]
               /\ hold'[b] = "RESERVED"
    BY <1>10, <2>1 DEF DuplicatePayment, VerifiedPayment, PaymentEvent,
       QueueRefund, CloseCheckout, Return, HasWinner, StalePaid
  <2>2. ASSUME NEW d \in Draft, binding'[d] # None
        PROVE  /\ draft'[d] = "LOCKED_TO_CHECKOUT"
               /\ checkout'[binding'[d]] = "OPEN"
               /\ Owner(binding'[d]) = d
    BY <1>10, <2>2 DEF DuplicatePayment, VerifiedPayment, PaymentEvent,
       QueueRefund, CloseCheckout, Return, HasWinner, StalePaid
  <2> QED BY <2>1, <2>2
<1>11. CASE StalePayment(a)
  <2>1. ASSUME NEW b \in Attempt, checkout'[b] = "OPEN", quote'[b] = "VALID"
        PROVE  /\ draft'[Owner(b)] = "LOCKED_TO_CHECKOUT"
               /\ binding'[Owner(b)] = b
               /\ current'[Owner(b)] = SnapshotOf[b]
               /\ hold'[b] = "RESERVED"
    BY <1>11, <2>1 DEF StalePayment, VerifiedPayment, PaymentEvent,
       QueueRefund, CloseCheckout, Return, HasWinner, StalePaid
  <2>2. ASSUME NEW d \in Draft, binding'[d] # None
        PROVE  /\ draft'[d] = "LOCKED_TO_CHECKOUT"
               /\ checkout'[binding'[d]] = "OPEN"
               /\ Owner(binding'[d]) = d
    BY <1>11, <2>2 DEF StalePayment, VerifiedPayment, PaymentEvent,
       QueueRefund, CloseCheckout, Return, HasWinner, StalePaid
  <2> QED BY <2>1, <2>2
<1>12. CASE CapacityException(a)
  <2>1. ASSUME NEW b \in Attempt, checkout'[b] = "OPEN", quote'[b] = "VALID"
        PROVE  /\ draft'[Owner(b)] = "LOCKED_TO_CHECKOUT"
               /\ binding'[Owner(b)] = b
               /\ current'[Owner(b)] = SnapshotOf[b]
               /\ hold'[b] = "RESERVED"
    BY <1>12, <2>1 DEF CapacityException, Reacquiring, VerifiedPayment,
       PaymentEvent, QueueRefund, CloseCheckout, Return, MayExpire, HasWinner,
       StalePaid
  <2>2. ASSUME NEW d \in Draft, binding'[d] # None
        PROVE  /\ draft'[d] = "LOCKED_TO_CHECKOUT"
               /\ checkout'[binding'[d]] = "OPEN"
               /\ Owner(binding'[d]) = d
    BY <1>12, <2>2 DEF CapacityException, Reacquiring, VerifiedPayment,
       PaymentEvent, QueueRefund, CloseCheckout, Return, MayExpire, HasWinner,
       StalePaid
  <2> QED BY <2>1, <2>2
<1>13. CASE ActivateSearch(a)
  <2>1. ASSUME NEW b \in Attempt, checkout'[b] = "OPEN", quote'[b] = "VALID"
        PROVE  /\ draft'[Owner(b)] = "LOCKED_TO_CHECKOUT"
               /\ binding'[Owner(b)] = b
               /\ current'[Owner(b)] = SnapshotOf[b]
               /\ hold'[b] = "RESERVED"
    BY <1>13, <2>1 DEF ActivateSearch, VerifiedPayment, PaymentEvent, HoldLive,
       HasWinner, StalePaid, Activated, CloseCheckout, MayConvert
  <2>2. ASSUME NEW d \in Draft, binding'[d] # None
        PROVE  /\ draft'[d] = "LOCKED_TO_CHECKOUT"
               /\ checkout'[binding'[d]] = "OPEN"
               /\ Owner(binding'[d]) = d
    BY <1>13, <2>2 DEF ActivateSearch, VerifiedPayment, PaymentEvent, HoldLive,
       HasWinner, StalePaid, Activated, CloseCheckout, MayConvert
  <2> QED BY <2>1, <2>2
<1>14. CASE ActivateReacquired(a)
  <2>1. ASSUME NEW b \in Attempt, checkout'[b] = "OPEN", quote'[b] = "VALID"
        PROVE  /\ draft'[Owner(b)] = "LOCKED_TO_CHECKOUT"
               /\ binding'[Owner(b)] = b
               /\ current'[Owner(b)] = SnapshotOf[b]
               /\ hold'[b] = "RESERVED"
    BY <1>14, <2>1 DEF ActivateReacquired, Reacquiring, VerifiedPayment,
       PaymentEvent, Activated, CloseCheckout, Return, MayConvert, HasWinner,
       HoldLive, StalePaid
  <2>2. ASSUME NEW d \in Draft, binding'[d] # None
        PROVE  /\ draft'[d] = "LOCKED_TO_CHECKOUT"
               /\ checkout'[binding'[d]] = "OPEN"
               /\ Owner(binding'[d]) = d
    BY <1>14, <2>2 DEF ActivateReacquired, Reacquiring, VerifiedPayment,
       PaymentEvent, Activated, CloseCheckout, Return, MayConvert, HasWinner,
       HoldLive, StalePaid
  <2> QED BY <2>1, <2>2
<1> QED BY <1>1, <1>2, <1>3, <1>4, <1>5, <1>6, <1>7, <1>8, <1>9, <1>10, <1>11,
   <1>12, <1>13, <1>14 DEF AttemptStep

\* The steps of a checkout request keep drafts locked to their open checkout.
LEMMA LockMatchesCheckoutRequest ==
  ASSUME Inv, NEW r \in Request, RequestStep(r)
  PROVE  LockMatchesCheckout'
<1> USE CheckoutAssumption DEF TypeOK, DraftState, ResumeState,
   AssessmentState, QuoteState,
  CommandState, CheckoutState, HoldState, SessionState, RefundCause,
  ReacquiredState, SettlementState, RequestSteps, WorkerSteps, Idle, Busy,
  intakeVars, quoteVars, checkoutVars, paymentVars, providerVars,
  processVars, Inv, Owner, IsCurrent, LockMatchesCheckout, OneServicePerDraft,
  SpentExactlyWhenServed, ClosedCheckoutHoldsNothing, RowsCohere
<1>1. CASE \E a \in Attempt : BeginSearchCheckout(r, a)
  BY <1>1 DEF BeginSearchCheckout
<1>2. CASE CreateSession(r)
  BY <1>2 DEF CreateSession, ProviderCreates
<1>3. CASE Promote(r)
  <2>1. request[r].attempt \in Attempt
    BY <1>3 DEF Promote
  <2> DEFINE a == request[r].attempt
  <2>2. CASE checkout[a] = "OPEN"
             /\ UNCHANGED <<draft, binding, command, checkout, bound>>
    BY <1>3, <2>1, <2>2 DEF Promote
  <2>3. CASE ~(checkout[a] = "OPEN"
               /\ UNCHANGED <<draft, binding, command, checkout, bound>>)
    BY <1>3, <2>1, <2>3, SMTT(20)
    DEF Promote, PromoteSearchCheckout, Promotable
  <2> QED BY <2>2, <2>3
<1>4. CASE PromotionFails(r)
  BY <1>4 DEF PromotionFails
<1>5. CASE ExpireAtProvider(r)
  BY <1>5 DEF ExpireAtProvider, ProviderExpires
<1>6. CASE Compensate(r)
  BY <1>6 DEF Compensate, CompensateSearchCheckout, Return
<1>7. CASE RequestStops(r)
  BY <1>7 DEF RequestStops
<1> QED BY <1>1, <1>2, <1>3, <1>4, <1>5, <1>6, <1>7 DEF RequestStep

\* The steps of a background worker keep drafts locked to their open checkout.
LEMMA LockMatchesCheckoutWorker ==
  ASSUME Inv, NEW w \in Worker, WorkerStep(w)
  PROVE  LockMatchesCheckout'
<1> USE CheckoutAssumption DEF TypeOK, DraftState, ResumeState,
   AssessmentState, QuoteState,
  CommandState, CheckoutState, HoldState, SessionState, RefundCause,
  ReacquiredState, SettlementState, RequestSteps, WorkerSteps, Idle, Busy,
  intakeVars, quoteVars, checkoutVars, paymentVars, providerVars,
  processVars, Inv, Owner, IsCurrent, LockMatchesCheckout, OneServicePerDraft,
  SpentExactlyWhenServed, ClosedCheckoutHoldsNothing, RowsCohere
<1>1. CASE \E a \in Attempt : ReadProvisional(w, a)
  BY <1>1 DEF ReadProvisional, WorkerAt
<1>2. CASE \E a \in Attempt : RetrieveInvalidated(w, a)
  BY <1>2 DEF RetrieveInvalidated, WorkerAt
<1>3. CASE Reopen(w)
  BY <1>3 DEF Reopen, WorkerAt
<1>4. CASE WorkerCreates(w)
  BY <1>4 DEF WorkerCreates, ProviderCreates, WorkerAt
<1>5. CASE WorkerPromotes(w)
  BY <1>5 DEF WorkerPromotes, PromoteSearchCheckout, Promotable, WorkerDone
<1>6. CASE WorkerExpiresAtProvider(w)
  BY <1>6 DEF WorkerExpiresAtProvider, ProviderExpires, WorkerAt
<1>7. CASE WorkerExpires(w)
  <2>1. worker[w].attempt \in Attempt
    BY <1>7 DEF WorkerExpires
  <2> QED BY <1>7, <2>1, LockExpire DEF WorkerExpires
<1>8. CASE WorkerStops(w)
  BY <1>8 DEF WorkerStops, WorkerDone
<1> QED BY <1>1, <1>2, <1>3, <1>4, <1>5, <1>6, <1>7, <1>8 DEF WorkerStep

-------------------------------------------------------------------------------
\* Documents, questions, finalizing and editing serve a draft at most once.
LEMMA OneServicePerDraftDraft ==
  ASSUME Inv, NEW d \in Draft, DraftStep(d)
  PROVE  OneServicePerDraft'
<1> USE CheckoutAssumption DEF TypeOK, DraftState, ResumeState,
   AssessmentState, QuoteState,
  CommandState, CheckoutState, HoldState, SessionState, RefundCause,
  ReacquiredState, SettlementState, RequestSteps, WorkerSteps, Idle, Busy,
  intakeVars, quoteVars, checkoutVars, paymentVars, providerVars,
  processVars, Inv, Owner, IsCurrent, LockMatchesCheckout, OneServicePerDraft,
  SpentExactlyWhenServed, ClosedCheckoutHoldsNothing, RowsCohere
<1>1. CASE RegisterResume(d)
  BY <1>1 DEF RegisterResume
<1>2. CASE RemoveResume(d)
  BY <1>2 DEF RemoveResume
<1>3. CASE ReviewResume(d)
  BY <1>3 DEF ReviewResume
<1>4. CASE BeginResearchRound(d)
  BY <1>4 DEF BeginResearchRound, InvalidateSnapshot
<1>5. CASE AnswerQuestion(d)
  BY <1>5 DEF AnswerQuestion, InvalidateSnapshot
<1>6. CASE EditComplete(d)
  BY <1>6 DEF EditComplete, InvalidateSnapshot
<1>7. CASE EditLocked(d)
  BY <1>7 DEF EditLocked, EditRaises, Return
<1>8. CASE \E s \in Snapshot : Finalize(d, s)
  BY <1>8 DEF Finalize, InvalidateSnapshot, Editable, AttemptsOf
<1> QED BY <1>1, <1>2, <1>3, <1>4, <1>5, <1>6, <1>7, <1>8 DEF DraftStep

\* Time, cancellation, expiry, payment and their webhooks serve a draft at most
\* once.
LEMMA OneServicePerDraftAttempt ==
  ASSUME Inv, NEW a \in Attempt, AttemptStep(a)
  PROVE  OneServicePerDraft'
<1> USE CheckoutAssumption DEF TypeOK, DraftState, ResumeState,
   AssessmentState, QuoteState,
  CommandState, CheckoutState, HoldState, SessionState, RefundCause,
  ReacquiredState, SettlementState, RequestSteps, WorkerSteps, Idle, Busy,
  intakeVars, quoteVars, checkoutVars, paymentVars, providerVars,
  processVars, Inv, Owner, IsCurrent, LockMatchesCheckout, OneServicePerDraft,
  SpentExactlyWhenServed, ClosedCheckoutHoldsNothing, RowsCohere
<1>1. CASE Assess(a)
  BY <1>1 DEF Assess
<1>2. CASE LeaseLapses(a)
  BY <1>2 DEF LeaseLapses
<1>3. CASE QuoteLapses(a)
  BY <1>3 DEF QuoteLapses
<1>4. CASE SessionLapses(a)
  BY <1>4 DEF SessionLapses, ProviderExpires
<1>5. CASE \E outcome \in {"COMPLETE", "UNVERIFIED"} : CustomerPays(a, outcome)
  BY <1>5 DEF CustomerPays
<1>6. CASE CancelSearchCheckout(a)
  BY <1>6 DEF CancelSearchCheckout, ExpireSearchCheckout, ExpiryCommits, Return
<1>7. CASE CheckoutExpiryJob(a)
  BY <1>7 DEF CheckoutExpiryJob, ExpireSearchCheckout, ExpiryCommits, Return
<1>8. CASE ExpiredWebhook(a)
  BY <1>8 DEF ExpiredWebhook, ExpireSearchCheckout, ExpiryCommits, Return
<1>9. CASE UnverifiedPayment(a)
  BY <1>9 DEF UnverifiedPayment, PaymentEvent
<1>10. CASE DuplicatePayment(a)
  BY <1>10 DEF DuplicatePayment, VerifiedPayment, PaymentEvent, QueueRefund,
     CloseCheckout, Return, HasWinner, StalePaid
<1>11. CASE StalePayment(a)
  BY <1>11 DEF StalePayment, VerifiedPayment, PaymentEvent, QueueRefund,
     CloseCheckout, Return, HasWinner, StalePaid
<1>12. CASE CapacityException(a)
  BY <1>12 DEF CapacityException, Reacquiring, VerifiedPayment, PaymentEvent,
     QueueRefund, CloseCheckout, Return, MayExpire, HasWinner, StalePaid
<1>13. CASE ActivateSearch(a)
  BY <1>13 DEF ActivateSearch, VerifiedPayment, PaymentEvent, HoldLive,
     HasWinner, StalePaid, Activated, CloseCheckout, MayConvert
<1>14. CASE ActivateReacquired(a)
  BY <1>14 DEF ActivateReacquired, Reacquiring, VerifiedPayment, PaymentEvent,
     Activated, CloseCheckout, Return, MayConvert, HasWinner, HoldLive,
     StalePaid
<1> QED BY <1>1, <1>2, <1>3, <1>4, <1>5, <1>6, <1>7, <1>8, <1>9, <1>10, <1>11,
   <1>12, <1>13, <1>14 DEF AttemptStep

\* The steps of a checkout request serve a draft at most once.
LEMMA OneServicePerDraftRequest ==
  ASSUME Inv, NEW r \in Request, RequestStep(r)
  PROVE  OneServicePerDraft'
<1> USE CheckoutAssumption DEF TypeOK, DraftState, ResumeState,
   AssessmentState, QuoteState,
  CommandState, CheckoutState, HoldState, SessionState, RefundCause,
  ReacquiredState, SettlementState, RequestSteps, WorkerSteps, Idle, Busy,
  intakeVars, quoteVars, checkoutVars, paymentVars, providerVars,
  processVars, Inv, Owner, IsCurrent, LockMatchesCheckout, OneServicePerDraft,
  SpentExactlyWhenServed, ClosedCheckoutHoldsNothing, RowsCohere
<1>1. CASE \E a \in Attempt : BeginSearchCheckout(r, a)
  BY <1>1 DEF BeginSearchCheckout
<1>2. CASE CreateSession(r)
  BY <1>2 DEF CreateSession, ProviderCreates
<1>3. CASE Promote(r)
  BY <1>3 DEF Promote, PromoteSearchCheckout, Promotable
<1>4. CASE PromotionFails(r)
  BY <1>4 DEF PromotionFails
<1>5. CASE ExpireAtProvider(r)
  BY <1>5 DEF ExpireAtProvider, ProviderExpires
<1>6. CASE Compensate(r)
  BY <1>6 DEF Compensate, CompensateSearchCheckout, Return
<1>7. CASE RequestStops(r)
  BY <1>7 DEF RequestStops
<1> QED BY <1>1, <1>2, <1>3, <1>4, <1>5, <1>6, <1>7 DEF RequestStep

\* The steps of a background worker serve a draft at most once.
LEMMA OneServicePerDraftWorker ==
  ASSUME Inv, NEW w \in Worker, WorkerStep(w)
  PROVE  OneServicePerDraft'
<1> USE CheckoutAssumption DEF TypeOK, DraftState, ResumeState,
   AssessmentState, QuoteState,
  CommandState, CheckoutState, HoldState, SessionState, RefundCause,
  ReacquiredState, SettlementState, RequestSteps, WorkerSteps, Idle, Busy,
  intakeVars, quoteVars, checkoutVars, paymentVars, providerVars,
  processVars, Inv, Owner, IsCurrent, LockMatchesCheckout, OneServicePerDraft,
  SpentExactlyWhenServed, ClosedCheckoutHoldsNothing, RowsCohere
<1>1. CASE \E a \in Attempt : ReadProvisional(w, a)
  BY <1>1 DEF ReadProvisional, WorkerAt
<1>2. CASE \E a \in Attempt : RetrieveInvalidated(w, a)
  BY <1>2 DEF RetrieveInvalidated, WorkerAt
<1>3. CASE Reopen(w)
  BY <1>3 DEF Reopen, WorkerAt
<1>4. CASE WorkerCreates(w)
  BY <1>4 DEF WorkerCreates, ProviderCreates, WorkerAt
<1>5. CASE WorkerPromotes(w)
  BY <1>5 DEF WorkerPromotes, PromoteSearchCheckout, Promotable, WorkerDone
<1>6. CASE WorkerExpiresAtProvider(w)
  BY <1>6 DEF WorkerExpiresAtProvider, ProviderExpires, WorkerAt
<1>7. CASE WorkerExpires(w)
  BY <1>7 DEF WorkerExpires, ExpireSearchCheckout, ExpiryCommits, Return,
     WorkerDone
<1>8. CASE WorkerStops(w)
  BY <1>8 DEF WorkerStops, WorkerDone
<1> QED BY <1>1, <1>2, <1>3, <1>4, <1>5, <1>6, <1>7, <1>8 DEF WorkerStep

-------------------------------------------------------------------------------
\* Documents, questions, finalizing and editing spend a unit exactly where they
\* serve.
LEMMA SpentExactlyWhenServedDraft ==
  ASSUME Inv, NEW d \in Draft, DraftStep(d)
  PROVE  SpentExactlyWhenServed'
<1> USE CheckoutAssumption DEF TypeOK, DraftState, ResumeState,
   AssessmentState, QuoteState,
  CommandState, CheckoutState, HoldState, SessionState, RefundCause,
  ReacquiredState, SettlementState, RequestSteps, WorkerSteps, Idle, Busy,
  intakeVars, quoteVars, checkoutVars, paymentVars, providerVars,
  processVars, Inv, Owner, IsCurrent, LockMatchesCheckout, OneServicePerDraft,
  SpentExactlyWhenServed, ClosedCheckoutHoldsNothing, RowsCohere
<1>1. CASE RegisterResume(d)
  BY <1>1 DEF RegisterResume
<1>2. CASE RemoveResume(d)
  BY <1>2 DEF RemoveResume
<1>3. CASE ReviewResume(d)
  BY <1>3 DEF ReviewResume
<1>4. CASE BeginResearchRound(d)
  BY <1>4 DEF BeginResearchRound, InvalidateSnapshot
<1>5. CASE AnswerQuestion(d)
  BY <1>5 DEF AnswerQuestion, InvalidateSnapshot
<1>6. CASE EditComplete(d)
  BY <1>6 DEF EditComplete, InvalidateSnapshot
<1>7. CASE EditLocked(d)
  BY <1>7 DEF EditLocked, EditRaises, Return
<1>8. CASE \E s \in Snapshot : Finalize(d, s)
  BY <1>8 DEF Finalize, InvalidateSnapshot, Editable, AttemptsOf
<1> QED BY <1>1, <1>2, <1>3, <1>4, <1>5, <1>6, <1>7, <1>8 DEF DraftStep

\* Time, cancellation, expiry, payment and their webhooks spend a unit exactly
\* where they serve.
LEMMA SpentExactlyWhenServedAttempt ==
  ASSUME Inv, NEW a \in Attempt, AttemptStep(a)
  PROVE  SpentExactlyWhenServed'
<1> USE CheckoutAssumption DEF TypeOK, DraftState, ResumeState,
   AssessmentState, QuoteState,
  CommandState, CheckoutState, HoldState, SessionState, RefundCause,
  ReacquiredState, SettlementState, RequestSteps, WorkerSteps, Idle, Busy,
  intakeVars, quoteVars, checkoutVars, paymentVars, providerVars,
  processVars, Inv, Owner, IsCurrent, LockMatchesCheckout, OneServicePerDraft,
  SpentExactlyWhenServed, ClosedCheckoutHoldsNothing, RowsCohere
<1>1. CASE Assess(a)
  BY <1>1 DEF Assess
<1>2. CASE LeaseLapses(a)
  BY <1>2 DEF LeaseLapses
<1>3. CASE QuoteLapses(a)
  BY <1>3 DEF QuoteLapses
<1>4. CASE SessionLapses(a)
  BY <1>4 DEF SessionLapses, ProviderExpires
<1>5. CASE \E outcome \in {"COMPLETE", "UNVERIFIED"} : CustomerPays(a, outcome)
  BY <1>5 DEF CustomerPays
<1>6. CASE CancelSearchCheckout(a)
  BY <1>6 DEF CancelSearchCheckout, ExpireSearchCheckout, ExpiryCommits, Return
<1>7. CASE CheckoutExpiryJob(a)
  BY <1>7 DEF CheckoutExpiryJob, ExpireSearchCheckout, ExpiryCommits, Return
<1>8. CASE ExpiredWebhook(a)
  BY <1>8 DEF ExpiredWebhook, ExpireSearchCheckout, ExpiryCommits, Return
<1>9. CASE UnverifiedPayment(a)
  BY <1>9 DEF UnverifiedPayment, PaymentEvent
<1>10. CASE DuplicatePayment(a)
  BY <1>10 DEF DuplicatePayment, VerifiedPayment, PaymentEvent, QueueRefund,
     CloseCheckout, Return, HasWinner, StalePaid
<1>11. CASE StalePayment(a)
  BY <1>11 DEF StalePayment, VerifiedPayment, PaymentEvent, QueueRefund,
     CloseCheckout, Return, HasWinner, StalePaid
<1>12. CASE CapacityException(a)
  BY <1>12 DEF CapacityException, Reacquiring, VerifiedPayment, PaymentEvent,
     QueueRefund, CloseCheckout, Return, MayExpire, HasWinner, StalePaid
<1>13. CASE ActivateSearch(a)
  BY <1>13 DEF ActivateSearch, VerifiedPayment, PaymentEvent, HoldLive,
     HasWinner, StalePaid, Activated, CloseCheckout, MayConvert
<1>14. CASE ActivateReacquired(a)
  BY <1>14 DEF ActivateReacquired, Reacquiring, VerifiedPayment, PaymentEvent,
     Activated, CloseCheckout, Return, MayConvert, HasWinner, HoldLive,
     StalePaid
<1> QED BY <1>1, <1>2, <1>3, <1>4, <1>5, <1>6, <1>7, <1>8, <1>9, <1>10, <1>11,
   <1>12, <1>13, <1>14 DEF AttemptStep

\* The steps of a checkout request spend a unit exactly where they serve.
LEMMA SpentExactlyWhenServedRequest ==
  ASSUME Inv, NEW r \in Request, RequestStep(r)
  PROVE  SpentExactlyWhenServed'
<1> USE CheckoutAssumption DEF TypeOK, DraftState, ResumeState,
   AssessmentState, QuoteState,
  CommandState, CheckoutState, HoldState, SessionState, RefundCause,
  ReacquiredState, SettlementState, RequestSteps, WorkerSteps, Idle, Busy,
  intakeVars, quoteVars, checkoutVars, paymentVars, providerVars,
  processVars, Inv, Owner, IsCurrent, LockMatchesCheckout, OneServicePerDraft,
  SpentExactlyWhenServed, ClosedCheckoutHoldsNothing, RowsCohere
<1>1. CASE \E a \in Attempt : BeginSearchCheckout(r, a)
  BY <1>1 DEF BeginSearchCheckout
<1>2. CASE CreateSession(r)
  BY <1>2 DEF CreateSession, ProviderCreates
<1>3. CASE Promote(r)
  BY <1>3 DEF Promote, PromoteSearchCheckout, Promotable
<1>4. CASE PromotionFails(r)
  BY <1>4 DEF PromotionFails
<1>5. CASE ExpireAtProvider(r)
  BY <1>5 DEF ExpireAtProvider, ProviderExpires
<1>6. CASE Compensate(r)
  BY <1>6 DEF Compensate, CompensateSearchCheckout, Return
<1>7. CASE RequestStops(r)
  BY <1>7 DEF RequestStops
<1> QED BY <1>1, <1>2, <1>3, <1>4, <1>5, <1>6, <1>7 DEF RequestStep

\* The steps of a background worker spend a unit exactly where they serve.
LEMMA SpentExactlyWhenServedWorker ==
  ASSUME Inv, NEW w \in Worker, WorkerStep(w)
  PROVE  SpentExactlyWhenServed'
<1> USE CheckoutAssumption DEF TypeOK, DraftState, ResumeState,
   AssessmentState, QuoteState,
  CommandState, CheckoutState, HoldState, SessionState, RefundCause,
  ReacquiredState, SettlementState, RequestSteps, WorkerSteps, Idle, Busy,
  intakeVars, quoteVars, checkoutVars, paymentVars, providerVars,
  processVars, Inv, Owner, IsCurrent, LockMatchesCheckout, OneServicePerDraft,
  SpentExactlyWhenServed, ClosedCheckoutHoldsNothing, RowsCohere
<1>1. CASE \E a \in Attempt : ReadProvisional(w, a)
  BY <1>1 DEF ReadProvisional, WorkerAt
<1>2. CASE \E a \in Attempt : RetrieveInvalidated(w, a)
  BY <1>2 DEF RetrieveInvalidated, WorkerAt
<1>3. CASE Reopen(w)
  BY <1>3 DEF Reopen, WorkerAt
<1>4. CASE WorkerCreates(w)
  BY <1>4 DEF WorkerCreates, ProviderCreates, WorkerAt
<1>5. CASE WorkerPromotes(w)
  BY <1>5 DEF WorkerPromotes, PromoteSearchCheckout, Promotable, WorkerDone
<1>6. CASE WorkerExpiresAtProvider(w)
  BY <1>6 DEF WorkerExpiresAtProvider, ProviderExpires, WorkerAt
<1>7. CASE WorkerExpires(w)
  BY <1>7 DEF WorkerExpires, ExpireSearchCheckout, ExpiryCommits, Return,
     WorkerDone
<1>8. CASE WorkerStops(w)
  BY <1>8 DEF WorkerStops, WorkerDone
<1> QED BY <1>1, <1>2, <1>3, <1>4, <1>5, <1>6, <1>7, <1>8 DEF WorkerStep

-------------------------------------------------------------------------------
\* Documents, questions, finalizing and editing leave no closed checkout with a
\* reservation.
LEMMA ClosedCheckoutHoldsNothingDraft ==
  ASSUME Inv, NEW d \in Draft, DraftStep(d)
  PROVE  ClosedCheckoutHoldsNothing'
<1> USE CheckoutAssumption DEF TypeOK, DraftState, ResumeState,
   AssessmentState, QuoteState,
  CommandState, CheckoutState, HoldState, SessionState, RefundCause,
  ReacquiredState, SettlementState, RequestSteps, WorkerSteps, Idle, Busy,
  intakeVars, quoteVars, checkoutVars, paymentVars, providerVars,
  processVars, Inv, Owner, IsCurrent, LockMatchesCheckout, OneServicePerDraft,
  SpentExactlyWhenServed, ClosedCheckoutHoldsNothing, RowsCohere
<1>1. CASE RegisterResume(d)
  BY <1>1 DEF RegisterResume
<1>2. CASE RemoveResume(d)
  BY <1>2 DEF RemoveResume
<1>3. CASE ReviewResume(d)
  BY <1>3 DEF ReviewResume
<1>4. CASE BeginResearchRound(d)
  BY <1>4 DEF BeginResearchRound, InvalidateSnapshot
<1>5. CASE AnswerQuestion(d)
  BY <1>5 DEF AnswerQuestion, InvalidateSnapshot
<1>6. CASE EditComplete(d)
  BY <1>6 DEF EditComplete, InvalidateSnapshot
<1>7. CASE EditLocked(d)
  BY <1>7 DEF EditLocked, EditRaises, Return
<1>8. CASE \E s \in Snapshot : Finalize(d, s)
  BY <1>8 DEF Finalize, InvalidateSnapshot, Editable, AttemptsOf
<1> QED BY <1>1, <1>2, <1>3, <1>4, <1>5, <1>6, <1>7, <1>8 DEF DraftStep

\* Time, cancellation, expiry, payment and their webhooks leave no closed
\* checkout with a reservation.
LEMMA ClosedCheckoutHoldsNothingAttempt ==
  ASSUME Inv, NEW a \in Attempt, AttemptStep(a)
  PROVE  ClosedCheckoutHoldsNothing'
<1> USE CheckoutAssumption DEF TypeOK, DraftState, ResumeState,
   AssessmentState, QuoteState,
  CommandState, CheckoutState, HoldState, SessionState, RefundCause,
  ReacquiredState, SettlementState, RequestSteps, WorkerSteps, Idle, Busy,
  intakeVars, quoteVars, checkoutVars, paymentVars, providerVars,
  processVars, Inv, Owner, IsCurrent, LockMatchesCheckout, OneServicePerDraft,
  SpentExactlyWhenServed, ClosedCheckoutHoldsNothing, RowsCohere
<1>1. CASE Assess(a)
  BY <1>1 DEF Assess
<1>2. CASE LeaseLapses(a)
  BY <1>2 DEF LeaseLapses
<1>3. CASE QuoteLapses(a)
  BY <1>3 DEF QuoteLapses
<1>4. CASE SessionLapses(a)
  BY <1>4 DEF SessionLapses, ProviderExpires
<1>5. CASE \E outcome \in {"COMPLETE", "UNVERIFIED"} : CustomerPays(a, outcome)
  BY <1>5 DEF CustomerPays
<1>6. CASE CancelSearchCheckout(a)
  BY <1>6 DEF CancelSearchCheckout, ExpireSearchCheckout, ExpiryCommits, Return
<1>7. CASE CheckoutExpiryJob(a)
  BY <1>7 DEF CheckoutExpiryJob, ExpireSearchCheckout, ExpiryCommits, Return
<1>8. CASE ExpiredWebhook(a)
  BY <1>8 DEF ExpiredWebhook, ExpireSearchCheckout, ExpiryCommits, Return
<1>9. CASE UnverifiedPayment(a)
  BY <1>9 DEF UnverifiedPayment, PaymentEvent
<1>10. CASE DuplicatePayment(a)
  BY <1>10 DEF DuplicatePayment, VerifiedPayment, PaymentEvent, QueueRefund,
     CloseCheckout, Return, HasWinner, StalePaid
<1>11. CASE StalePayment(a)
  BY <1>11 DEF StalePayment, VerifiedPayment, PaymentEvent, QueueRefund,
     CloseCheckout, Return, HasWinner, StalePaid
<1>12. CASE CapacityException(a)
  BY <1>12 DEF CapacityException, Reacquiring, VerifiedPayment, PaymentEvent,
     QueueRefund, CloseCheckout, Return, MayExpire, HasWinner, StalePaid
<1>13. CASE ActivateSearch(a)
  BY <1>13 DEF ActivateSearch, VerifiedPayment, PaymentEvent, HoldLive,
     HasWinner, StalePaid, Activated, CloseCheckout, MayConvert
<1>14. CASE ActivateReacquired(a)
  BY <1>14 DEF ActivateReacquired, Reacquiring, VerifiedPayment, PaymentEvent,
     Activated, CloseCheckout, Return, MayConvert, HasWinner, HoldLive,
     StalePaid
<1> QED BY <1>1, <1>2, <1>3, <1>4, <1>5, <1>6, <1>7, <1>8, <1>9, <1>10, <1>11,
   <1>12, <1>13, <1>14 DEF AttemptStep

\* The steps of a checkout request leave no closed checkout with a reservation.
LEMMA ClosedCheckoutHoldsNothingRequest ==
  ASSUME Inv, NEW r \in Request, RequestStep(r)
  PROVE  ClosedCheckoutHoldsNothing'
<1> USE CheckoutAssumption DEF TypeOK, DraftState, ResumeState,
   AssessmentState, QuoteState,
  CommandState, CheckoutState, HoldState, SessionState, RefundCause,
  ReacquiredState, SettlementState, RequestSteps, WorkerSteps, Idle, Busy,
  intakeVars, quoteVars, checkoutVars, paymentVars, providerVars,
  processVars, Inv, Owner, IsCurrent, LockMatchesCheckout, OneServicePerDraft,
  SpentExactlyWhenServed, ClosedCheckoutHoldsNothing, RowsCohere
<1>1. CASE \E a \in Attempt : BeginSearchCheckout(r, a)
  BY <1>1 DEF BeginSearchCheckout
<1>2. CASE CreateSession(r)
  BY <1>2 DEF CreateSession, ProviderCreates
<1>3. CASE Promote(r)
  BY <1>3 DEF Promote, PromoteSearchCheckout, Promotable
<1>4. CASE PromotionFails(r)
  BY <1>4 DEF PromotionFails
<1>5. CASE ExpireAtProvider(r)
  BY <1>5 DEF ExpireAtProvider, ProviderExpires
<1>6. CASE Compensate(r)
  BY <1>6 DEF Compensate, CompensateSearchCheckout, Return
<1>7. CASE RequestStops(r)
  BY <1>7 DEF RequestStops
<1> QED BY <1>1, <1>2, <1>3, <1>4, <1>5, <1>6, <1>7 DEF RequestStep

\* The steps of a background worker leave no closed checkout with a reservation.
LEMMA ClosedCheckoutHoldsNothingWorker ==
  ASSUME Inv, NEW w \in Worker, WorkerStep(w)
  PROVE  ClosedCheckoutHoldsNothing'
<1> USE CheckoutAssumption DEF TypeOK, DraftState, ResumeState,
   AssessmentState, QuoteState,
  CommandState, CheckoutState, HoldState, SessionState, RefundCause,
  ReacquiredState, SettlementState, RequestSteps, WorkerSteps, Idle, Busy,
  intakeVars, quoteVars, checkoutVars, paymentVars, providerVars,
  processVars, Inv, Owner, IsCurrent, LockMatchesCheckout, OneServicePerDraft,
  SpentExactlyWhenServed, ClosedCheckoutHoldsNothing, RowsCohere
<1>1. CASE \E a \in Attempt : ReadProvisional(w, a)
  BY <1>1 DEF ReadProvisional, WorkerAt
<1>2. CASE \E a \in Attempt : RetrieveInvalidated(w, a)
  BY <1>2 DEF RetrieveInvalidated, WorkerAt
<1>3. CASE Reopen(w)
  BY <1>3 DEF Reopen, WorkerAt
<1>4. CASE WorkerCreates(w)
  BY <1>4 DEF WorkerCreates, ProviderCreates, WorkerAt
<1>5. CASE WorkerPromotes(w)
  BY <1>5 DEF WorkerPromotes, PromoteSearchCheckout, Promotable, WorkerDone
<1>6. CASE WorkerExpiresAtProvider(w)
  BY <1>6 DEF WorkerExpiresAtProvider, ProviderExpires, WorkerAt
<1>7. CASE WorkerExpires(w)
  BY <1>7 DEF WorkerExpires, ExpireSearchCheckout, ExpiryCommits, Return,
     WorkerDone
<1>8. CASE WorkerStops(w)
  BY <1>8 DEF WorkerStops, WorkerDone
<1> QED BY <1>1, <1>2, <1>3, <1>4, <1>5, <1>6, <1>7, <1>8 DEF WorkerStep

-------------------------------------------------------------------------------
\* Documents, questions, finalizing and editing keep the rows of an attempt
\* coherent.
LEMMA RowsCohereDraft ==
  ASSUME Inv, NEW d \in Draft, DraftStep(d)
  PROVE  RowsCohere'
<1> USE CheckoutAssumption DEF TypeOK, DraftState, ResumeState,
   AssessmentState, QuoteState,
  CommandState, CheckoutState, HoldState, SessionState, RefundCause,
  ReacquiredState, SettlementState, RequestSteps, WorkerSteps, Idle, Busy,
  intakeVars, quoteVars, checkoutVars, paymentVars, providerVars,
  processVars, Inv, Owner, IsCurrent, LockMatchesCheckout, OneServicePerDraft,
  SpentExactlyWhenServed, ClosedCheckoutHoldsNothing, RowsCohere
<1>1. CASE RegisterResume(d)
  BY <1>1 DEF RegisterResume
<1>2. CASE RemoveResume(d)
  BY <1>2 DEF RemoveResume
<1>3. CASE ReviewResume(d)
  BY <1>3 DEF ReviewResume
<1>4. CASE BeginResearchRound(d)
  BY <1>4 DEF BeginResearchRound, InvalidateSnapshot
<1>5. CASE AnswerQuestion(d)
  BY <1>5 DEF AnswerQuestion, InvalidateSnapshot
<1>6. CASE EditComplete(d)
  BY <1>6 DEF EditComplete, InvalidateSnapshot
<1>7. CASE EditLocked(d)
  BY <1>7 DEF EditLocked, EditRaises, Return
<1>8. CASE \E s \in Snapshot : Finalize(d, s)
  BY <1>8 DEF Finalize, InvalidateSnapshot, Editable, AttemptsOf
<1> QED BY <1>1, <1>2, <1>3, <1>4, <1>5, <1>6, <1>7, <1>8 DEF DraftStep

\* Time, cancellation, expiry, payment and their webhooks keep the rows of an
\* attempt coherent.
LEMMA RowsCohereAttempt ==
  ASSUME Inv, NEW a \in Attempt, AttemptStep(a)
  PROVE  RowsCohere'
<1> USE CheckoutAssumption DEF TypeOK, DraftState, ResumeState,
   AssessmentState, QuoteState,
  CommandState, CheckoutState, HoldState, SessionState, RefundCause,
  ReacquiredState, SettlementState, RequestSteps, WorkerSteps, Idle, Busy,
  intakeVars, quoteVars, checkoutVars, paymentVars, providerVars,
  processVars, Inv, Owner, IsCurrent, LockMatchesCheckout, OneServicePerDraft,
  SpentExactlyWhenServed, ClosedCheckoutHoldsNothing, RowsCohere
<1>1. CASE Assess(a)
  BY <1>1 DEF Assess
<1>2. CASE LeaseLapses(a)
  BY <1>2 DEF LeaseLapses
<1>3. CASE QuoteLapses(a)
  BY <1>3 DEF QuoteLapses
<1>4. CASE SessionLapses(a)
  BY <1>4 DEF SessionLapses, ProviderExpires
<1>5. CASE \E outcome \in {"COMPLETE", "UNVERIFIED"} : CustomerPays(a, outcome)
  BY <1>5 DEF CustomerPays
<1>6. CASE CancelSearchCheckout(a)
  BY <1>6, SMTT(20)
  DEF CancelSearchCheckout, ExpireSearchCheckout, ExpiryCommits, Return
<1>7. CASE CheckoutExpiryJob(a)
  BY <1>7, SMTT(20)
  DEF CheckoutExpiryJob, ExpireSearchCheckout, ExpiryCommits, Return
<1>8. CASE ExpiredWebhook(a)
  BY <1>8, SMTT(20)
  DEF ExpiredWebhook, ExpireSearchCheckout, ExpiryCommits, Return
<1>9. CASE UnverifiedPayment(a)
  BY <1>9 DEF UnverifiedPayment, PaymentEvent
<1>10. CASE DuplicatePayment(a)
  BY <1>10 DEF DuplicatePayment, VerifiedPayment, PaymentEvent, QueueRefund,
     CloseCheckout, Return, HasWinner, StalePaid
<1>11. CASE StalePayment(a)
  BY <1>11 DEF StalePayment, VerifiedPayment, PaymentEvent, QueueRefund,
     CloseCheckout, Return, HasWinner, StalePaid
<1>12. CASE CapacityException(a)
  BY <1>12 DEF CapacityException, Reacquiring, VerifiedPayment, PaymentEvent,
     QueueRefund, CloseCheckout, Return, MayExpire, HasWinner, StalePaid
<1>13. CASE ActivateSearch(a)
  BY <1>13 DEF ActivateSearch, VerifiedPayment, PaymentEvent, HoldLive,
     HasWinner, StalePaid, Activated, CloseCheckout, MayConvert
<1>14. CASE ActivateReacquired(a)
  BY <1>14 DEF ActivateReacquired, Reacquiring, VerifiedPayment, PaymentEvent,
     Activated, CloseCheckout, Return, MayConvert, HasWinner, HoldLive,
     StalePaid
<1> QED BY <1>1, <1>2, <1>3, <1>4, <1>5, <1>6, <1>7, <1>8, <1>9, <1>10, <1>11,
   <1>12, <1>13, <1>14 DEF AttemptStep

\* The steps of a checkout request keep the rows of an attempt coherent.
LEMMA RowsCohereRequest ==
  ASSUME Inv, NEW r \in Request, RequestStep(r)
  PROVE  RowsCohere'
<1> USE CheckoutAssumption DEF TypeOK, DraftState, ResumeState,
   AssessmentState, QuoteState,
  CommandState, CheckoutState, HoldState, SessionState, RefundCause,
  ReacquiredState, SettlementState, RequestSteps, WorkerSteps, Idle, Busy,
  intakeVars, quoteVars, checkoutVars, paymentVars, providerVars,
  processVars, Inv, Owner, IsCurrent, LockMatchesCheckout, OneServicePerDraft,
  SpentExactlyWhenServed, ClosedCheckoutHoldsNothing, RowsCohere
<1>1. CASE \E a \in Attempt : BeginSearchCheckout(r, a)
  BY <1>1 DEF BeginSearchCheckout
<1>2. CASE CreateSession(r)
  BY <1>2 DEF CreateSession, ProviderCreates
<1>3. CASE Promote(r)
  <2>1. request[r].attempt \in Attempt
    BY <1>3 DEF Promote
  <2> DEFINE a == request[r].attempt
  <2>2. CASE checkout[a] = "OPEN"
             /\ UNCHANGED <<draft, binding, command, checkout, bound>>
    BY <1>3, <2>1, <2>2 DEF Promote
  <2>3. CASE ~(checkout[a] = "OPEN"
               /\ UNCHANGED <<draft, binding, command, checkout, bound>>)
    BY SMTT(30), <1>3, <2>1, <2>3 DEF Promote, PromoteSearchCheckout, Promotable
  <2> QED BY <2>2, <2>3
<1>4. CASE PromotionFails(r)
  BY <1>4 DEF PromotionFails
<1>5. CASE ExpireAtProvider(r)
  BY <1>5 DEF ExpireAtProvider, ProviderExpires
<1>6. CASE Compensate(r)
  BY <1>6 DEF Compensate, CompensateSearchCheckout, Return
<1>7. CASE RequestStops(r)
  BY <1>7 DEF RequestStops
<1> QED BY <1>1, <1>2, <1>3, <1>4, <1>5, <1>6, <1>7 DEF RequestStep

\* The steps of a background worker keep the rows of an attempt coherent.
LEMMA RowsCohereWorker ==
  ASSUME Inv, NEW w \in Worker, WorkerStep(w)
  PROVE  RowsCohere'
<1> USE CheckoutAssumption DEF TypeOK, DraftState, ResumeState,
   AssessmentState, QuoteState,
  CommandState, CheckoutState, HoldState, SessionState, RefundCause,
  ReacquiredState, SettlementState, RequestSteps, WorkerSteps, Idle, Busy,
  intakeVars, quoteVars, checkoutVars, paymentVars, providerVars,
  processVars, Inv, Owner, IsCurrent, LockMatchesCheckout, OneServicePerDraft,
  SpentExactlyWhenServed, ClosedCheckoutHoldsNothing, RowsCohere
<1>1. CASE \E a \in Attempt : ReadProvisional(w, a)
  BY <1>1 DEF ReadProvisional, WorkerAt
<1>2. CASE \E a \in Attempt : RetrieveInvalidated(w, a)
  BY <1>2 DEF RetrieveInvalidated, WorkerAt
<1>3. CASE Reopen(w)
  BY <1>3 DEF Reopen, WorkerAt
<1>4. CASE WorkerCreates(w)
  BY <1>4 DEF WorkerCreates, ProviderCreates, WorkerAt
<1>5. CASE WorkerPromotes(w)
  BY SMTT(30), <1>5 DEF WorkerPromotes, PromoteSearchCheckout, Promotable, WorkerDone
<1>6. CASE WorkerExpiresAtProvider(w)
  BY <1>6 DEF WorkerExpiresAtProvider, ProviderExpires, WorkerAt
<1>7. CASE WorkerExpires(w)
  BY <1>7 DEF WorkerExpires, ExpireSearchCheckout, ExpiryCommits, Return,
     WorkerDone
<1>8. CASE WorkerStops(w)
  BY <1>8 DEF WorkerStops, WorkerDone
<1> QED BY <1>1, <1>2, <1>3, <1>4, <1>5, <1>6, <1>7, <1>8 DEF WorkerStep

\* The invariant holds of an untouched draft.
LEMMA InvInit == Init => Inv
BY CheckoutAssumption DEF Init, Inv, TypeOK, DraftState, ResumeState,
   AssessmentState,
   QuoteState, CommandState, CheckoutState, HoldState, SessionState,
   RefundCause, ReacquiredState, SettlementState, LockMatchesCheckout,
   OneServicePerDraft, SpentExactlyWhenServed, ClosedCheckoutHoldsNothing,
   RowsCohere, Owner, IsCurrent

\* It only reads the variables of the specification.
LEMMA InvStutter == Inv /\ UNCHANGED vars => Inv'
BY DEF Inv, vars, intakeVars, quoteVars, checkoutVars, paymentVars,
   providerVars, processVars, TypeOK, LockMatchesCheckout, OneServicePerDraft,
   SpentExactlyWhenServed, ClosedCheckoutHoldsNothing, RowsCohere, IsCurrent

\* Every step keeps it.
LEMMA InvNext == Inv /\ [Next]_vars => Inv'
<1> SUFFICES ASSUME Inv, [Next]_vars PROVE Inv'
  OBVIOUS
<1>1. CASE UNCHANGED vars
  BY <1>1, InvStutter
<1>2. ASSUME NEW d \in Draft, DraftStep(d) PROVE Inv'
  BY <1>2, TypeDraft, LockMatchesCheckoutDraft, OneServicePerDraftDraft,
     SpentExactlyWhenServedDraft, ClosedCheckoutHoldsNothingDraft,
     RowsCohereDraft DEF Inv
<1>3. ASSUME NEW a \in Attempt, AttemptStep(a) PROVE Inv'
  BY <1>3, TypeAttempt, LockMatchesCheckoutAttempt, OneServicePerDraftAttempt,
     SpentExactlyWhenServedAttempt, ClosedCheckoutHoldsNothingAttempt,
     RowsCohereAttempt DEF Inv
<1>4. ASSUME NEW r \in Request, RequestStep(r) PROVE Inv'
  BY <1>4, TypeRequest, LockMatchesCheckoutRequest, OneServicePerDraftRequest,
     SpentExactlyWhenServedRequest, ClosedCheckoutHoldsNothingRequest,
     RowsCohereRequest DEF Inv
<1>5. ASSUME NEW w \in Worker, WorkerStep(w) PROVE Inv'
  BY <1>5, TypeWorker, LockMatchesCheckoutWorker, OneServicePerDraftWorker,
     SpentExactlyWhenServedWorker, ClosedCheckoutHoldsNothingWorker,
     RowsCohereWorker DEF Inv
<1> QED BY <1>1, <1>2, <1>3, <1>4, <1>5 DEF Next

\* The inductive invariant: no interleaving of requests, workers, webhooks and
\* the customer's edits breaks any part of it.
THEOREM Invariance == Spec => []Inv
BY InvInit, InvNext, PTL DEF Spec

\* The variables keep their types, and a process at work is at work on an
\* attempt.
THEOREM TypeCorrect == Spec => []TypeOK
BY Invariance, PTL DEF Inv

\* A checkout that could still be paid and served is the one its draft is
\* locked to, with its unit reserved, in every interleaving.
THEOREM LockSafety == Spec => []LockMatchesCheckout
BY Invariance, PTL DEF Inv

\* The rows of quote, reservation, checkout, session and search agree, between any
\* two transactions that touch them.
THEOREM Consistent == Spec => []RowsCohere
BY Invariance, PTL DEF Inv

\* ap_apply_verified_search_payment activates one search per draft, whatever
\* sessions were paid and in whatever order.
THEOREM OneSearch == Spec => []OneServicePerDraft
BY Invariance, PTL DEF Inv

\* Activation consumes one reservation, and nothing else does.
THEOREM SpendsWhatItServes == Spec => []SpentExactlyWhenServed
BY Invariance, PTL DEF Inv

\* Every way of closing a checkout gives its reservation back.
THEOREM ClosedReturns == Spec => []ClosedCheckoutHoldsNothing
BY Invariance, PTL DEF Inv

\* What the invariant says of a session paid and not settled.
LEMMA PaymentOpen == Inv => PaymentNeverBlocked
BY CheckoutAssumption DEF Inv, TypeOK, QuoteState, RowsCohere,
   LockMatchesCheckout, PaymentNeverBlocked, StalePaid, MayConvert, MayExpire

\* No state is reached in which a paid session cannot be found or a table
\* trigger refuses its settlement.
THEOREM PaymentSafety == Spec => []PaymentNeverBlocked
BY Invariance, PaymentOpen, PTL

-------------------------------------------------------------------------------
\* The debits can be counted.
LEMMA DebitsFinite ==
  IsFiniteSet(Debits)
<1>1. IsFiniteSet({"hold", "reacquired"})
  <2>1. IsFiniteSet({"hold"})
    BY FS_Singleton
  <2>2. IsFiniteSet({"hold"} \cup {"reacquired"})
    BY <2>1, FS_AddElement
  <2> QED BY <2>2
<1>2. IsFiniteSet(Slots)
  BY <1>1, CheckoutAssumption, FS_Product DEF Slots
<1>3. Debits \subseteq Slots
  BY DEF Debits, Slots
<1> QED BY <1>2, <1>3, FS_Subset

\* A step that adds no debit cannot oversell.
LEMMA FewerFit ==
  ASSUME NeverOversold, Debits' \subseteq Debits
  PROVE  NeverOversold'
<1>1. /\ Cardinality(Debits') <= Cardinality(Debits)
      /\ Cardinality(Debits') \in Nat /\ Cardinality(Debits) \in Nat
  BY DebitsFinite, FS_Subset, FS_CardinalityType
<1> QED BY <1>1, CheckoutAssumption DEF NeverOversold

\* Nor can one that adds a debit where there was room.
LEMMA OneMoreFits ==
  ASSUME NEW rest \in SUBSET Debits, NEW slot, RoomIn(rest),
         Debits' \subseteq rest \cup {slot}
  PROVE  NeverOversold'
<1>1. IsFiniteSet(rest) /\ Cardinality(rest) \in Nat
  BY DebitsFinite, FS_Subset, FS_CardinalityType
<1>2. /\ IsFiniteSet(rest \cup {slot})
      /\ Cardinality(rest \cup {slot}) <= Cardinality(rest) + 1
      /\ Cardinality(rest \cup {slot}) \in Nat
  <2>1. /\ IsFiniteSet(rest \cup {slot})
        /\ Cardinality(rest \cup {slot}) =
             IF slot \in rest THEN Cardinality(rest) ELSE Cardinality(rest) + 1
    BY <1>1, FS_AddElement
  <2> QED BY <1>1, <2>1
<1>3. /\ Cardinality(Debits') <= Cardinality(rest \cup {slot})
      /\ Cardinality(Debits') \in Nat
  BY <1>2, FS_Subset, FS_CardinalityType
<1> QED BY <1>1, <1>2, <1>3, CheckoutAssumption DEF NeverOversold, RoomIn

\* A step that starts no hold adds no debit.
LEMMA DebitsShrink ==
  ASSUME \A a \in Attempt :
           /\ hold'[a] \in {"RESERVED", "CONSUMED"}
                => hold[a] \in {"RESERVED", "CONSUMED"}
           /\ reacquired'[a] = "CONSUMED" => reacquired[a] = "CONSUMED"
  PROVE  Debits' \subseteq Debits
BY DEF Debits

\* Documents, questions, finalizing and editing never oversell the bucket.
LEMMA CapacityDraft ==
  ASSUME Inv, NeverOversold, NEW d \in Draft, DraftStep(d)
  PROVE  NeverOversold'
<1> USE DEF Inv, TypeOK, intakeVars, quoteVars, checkoutVars, paymentVars,
      providerVars, processVars, Return
<1>1. CASE RegisterResume(d)
  BY <1>1, DebitsShrink, FewerFit DEF RegisterResume
<1>2. CASE RemoveResume(d)
  BY <1>2, DebitsShrink, FewerFit DEF RemoveResume
<1>3. CASE ReviewResume(d)
  BY <1>3, DebitsShrink, FewerFit DEF ReviewResume
<1>4. CASE BeginResearchRound(d)
  BY <1>4, DebitsShrink, FewerFit DEF BeginResearchRound, InvalidateSnapshot
<1>5. CASE AnswerQuestion(d)
  BY <1>5, DebitsShrink, FewerFit DEF AnswerQuestion, InvalidateSnapshot
<1>6. CASE EditComplete(d)
  BY <1>6, DebitsShrink, FewerFit DEF EditComplete, InvalidateSnapshot
<1>7. CASE EditLocked(d)
  BY <1>7, DebitsShrink, FewerFit DEF EditLocked, EditRaises, Return
<1>8. CASE \E s \in Snapshot : Finalize(d, s)
  BY <1>8, DebitsShrink, FewerFit DEF Finalize, InvalidateSnapshot, Editable,
     AttemptsOf
<1> QED BY <1>1, <1>2, <1>3, <1>4, <1>5, <1>6, <1>7, <1>8 DEF DraftStep

\* Time, cancellation, expiry, payment and their webhooks never oversell the
\* bucket.
LEMMA CapacityAttempt ==
  ASSUME Inv, NeverOversold, NEW a \in Attempt, AttemptStep(a)
  PROVE  NeverOversold'
<1> USE DEF Inv, TypeOK, intakeVars, quoteVars, checkoutVars, paymentVars,
      providerVars, processVars, Return
<1>1. CASE Assess(a)
  BY <1>1, DebitsShrink, FewerFit DEF Assess
<1>2. CASE LeaseLapses(a)
  BY <1>2, DebitsShrink, FewerFit DEF LeaseLapses
<1>3. CASE QuoteLapses(a)
  BY <1>3, DebitsShrink, FewerFit DEF QuoteLapses
<1>4. CASE SessionLapses(a)
  BY <1>4, DebitsShrink, FewerFit DEF SessionLapses, ProviderExpires
<1>5. CASE \E outcome \in {"COMPLETE", "UNVERIFIED"} : CustomerPays(a, outcome)
  BY <1>5, DebitsShrink, FewerFit DEF CustomerPays
<1>6. CASE CancelSearchCheckout(a)
  BY <1>6, DebitsShrink, FewerFit DEF CancelSearchCheckout,
     ExpireSearchCheckout, ExpiryCommits, Return
<1>7. CASE CheckoutExpiryJob(a)
  BY <1>7, DebitsShrink, FewerFit DEF CheckoutExpiryJob, ExpireSearchCheckout,
     ExpiryCommits, Return
<1>8. CASE ExpiredWebhook(a)
  BY <1>8, DebitsShrink, FewerFit DEF ExpiredWebhook, ExpireSearchCheckout,
     ExpiryCommits, Return
<1>9. CASE UnverifiedPayment(a)
  BY <1>9, DebitsShrink, FewerFit DEF UnverifiedPayment, PaymentEvent
<1>10. CASE DuplicatePayment(a)
  BY <1>10, DebitsShrink, FewerFit DEF DuplicatePayment, VerifiedPayment,
     PaymentEvent, QueueRefund, CloseCheckout, Return, HasWinner, StalePaid
<1>11. CASE StalePayment(a)
  BY <1>11, DebitsShrink, FewerFit DEF StalePayment, VerifiedPayment,
     PaymentEvent, QueueRefund, CloseCheckout, Return, HasWinner, StalePaid
<1>12. CASE CapacityException(a)
  BY <1>12, DebitsShrink, FewerFit DEF CapacityException, Reacquiring,
     VerifiedPayment, PaymentEvent, QueueRefund, CloseCheckout, Return,
     MayExpire, HasWinner, StalePaid
<1>13. CASE ActivateSearch(a)
  BY <1>13, DebitsShrink, FewerFit DEF ActivateSearch, VerifiedPayment,
     PaymentEvent, HoldLive, HasWinner, StalePaid, Activated, CloseCheckout,
     MayConvert
<1>14. CASE ActivateReacquired(a)
  <2>1. /\ RoomIn(Debits \ {<<a, "hold">>})
        /\ hold' = [hold EXCEPT ![a] = IF @ = "RESERVED" THEN "EXPIRED" ELSE @]
        /\ reacquired' = [reacquired EXCEPT ![a] = "CONSUMED"]
    BY <1>14 DEF ActivateReacquired, Reacquiring
  <2>2. Debits' \subseteq Debits \cup {<<a, "reacquired">>}
    BY <2>1 DEF Debits
  <2>3. CASE <<a, "hold">> \notin Debits'
    <3> DEFINE rest == Debits \ {<<a, "hold">>}
    <3>1. rest \in SUBSET Debits
      OBVIOUS
    <3>2. Debits' \subseteq rest \cup {<<a, "reacquired">>}
      BY <2>2, <2>3
    <3> QED BY <2>1, <3>1, <3>2, OneMoreFits
  <2>4. CASE hold[a] = "CONSUMED"
    BY <1>14, <2>4 DEF ActivateReacquired, Reacquiring, VerifiedPayment,
       PaymentEvent, RowsCohere, SpentExactlyWhenServed
  <2> QED BY <2>1, <2>3, <2>4 DEF Debits
<1> QED BY <1>1, <1>2, <1>3, <1>4, <1>5, <1>6, <1>7, <1>8, <1>9, <1>10, <1>11,
   <1>12, <1>13, <1>14 DEF AttemptStep

\* The steps of a checkout request never oversell the bucket.
LEMMA CapacityRequest ==
  ASSUME Inv, NeverOversold, NEW r \in Request, RequestStep(r)
  PROVE  NeverOversold'
<1> USE DEF Inv, TypeOK, intakeVars, quoteVars, checkoutVars, paymentVars,
      providerVars, processVars, Return
<1>1. CASE \E a \in Attempt : BeginSearchCheckout(r, a)
  <2>1. PICK a \in Attempt : BeginSearchCheckout(r, a)
    BY <1>1
  <2>2. CASE quote[a] # "NONE"
    BY <2>1, <2>2, DebitsShrink, FewerFit DEF BeginSearchCheckout
  <2>3. CASE quote[a] = "NONE"
    <3>1. RoomIn(Debits) /\ hold' = [hold EXCEPT ![a] = "RESERVED"]
          /\ reacquired' = reacquired
      BY <2>1, <2>3 DEF BeginSearchCheckout
    <3>2. Debits' \subseteq Debits \cup {<<a, "hold">>}
      BY <3>1 DEF Debits
    <3> QED BY <3>1, <3>2, OneMoreFits
  <2> QED BY <2>2, <2>3
<1>2. CASE CreateSession(r)
  BY <1>2, DebitsShrink, FewerFit DEF CreateSession, ProviderCreates
<1>3. CASE Promote(r)
  BY <1>3, DebitsShrink, FewerFit DEF Promote, PromoteSearchCheckout, Promotable
<1>4. CASE PromotionFails(r)
  BY <1>4, DebitsShrink, FewerFit DEF PromotionFails
<1>5. CASE ExpireAtProvider(r)
  BY <1>5, DebitsShrink, FewerFit DEF ExpireAtProvider, ProviderExpires
<1>6. CASE Compensate(r)
  BY <1>6, DebitsShrink, FewerFit DEF Compensate, CompensateSearchCheckout,
     Return
<1>7. CASE RequestStops(r)
  BY <1>7, DebitsShrink, FewerFit DEF RequestStops
<1> QED BY <1>1, <1>2, <1>3, <1>4, <1>5, <1>6, <1>7 DEF RequestStep

\* The steps of a background worker never oversell the bucket.
LEMMA CapacityWorker ==
  ASSUME Inv, NeverOversold, NEW w \in Worker, WorkerStep(w)
  PROVE  NeverOversold'
<1> USE DEF Inv, TypeOK, intakeVars, quoteVars, checkoutVars, paymentVars,
      providerVars, processVars, Return
<1>1. CASE \E a \in Attempt : ReadProvisional(w, a)
  BY <1>1, DebitsShrink, FewerFit DEF ReadProvisional, WorkerAt
<1>2. CASE \E a \in Attempt : RetrieveInvalidated(w, a)
  BY <1>2, DebitsShrink, FewerFit DEF RetrieveInvalidated, WorkerAt
<1>3. CASE Reopen(w)
  BY <1>3, DebitsShrink, FewerFit DEF Reopen, WorkerAt
<1>4. CASE WorkerCreates(w)
  BY <1>4, DebitsShrink, FewerFit DEF WorkerCreates, ProviderCreates, WorkerAt
<1>5. CASE WorkerPromotes(w)
  BY <1>5, DebitsShrink, FewerFit DEF WorkerPromotes, PromoteSearchCheckout,
     Promotable, WorkerDone
<1>6. CASE WorkerExpiresAtProvider(w)
  BY <1>6, DebitsShrink, FewerFit DEF WorkerExpiresAtProvider, ProviderExpires,
     WorkerAt
<1>7. CASE WorkerExpires(w)
  BY <1>7, DebitsShrink, FewerFit DEF WorkerExpires, ExpireSearchCheckout,
     ExpiryCommits, Return, WorkerDone
<1>8. CASE WorkerStops(w)
  BY <1>8, DebitsShrink, FewerFit DEF WorkerStops, WorkerDone
<1> QED BY <1>1, <1>2, <1>3, <1>4, <1>5, <1>6, <1>7, <1>8 DEF WorkerStep

\* Every step keeps the debits within the total.
LEMMA CapacityNext ==
  ASSUME Inv, NeverOversold, [Next]_vars
  PROVE  NeverOversold'
<1>1. CASE UNCHANGED vars
  BY <1>1, FewerFit DEF vars, checkoutVars, Debits
<1> QED BY <1>1, CapacityDraft, CapacityAttempt, CapacityRequest,
           CapacityWorker DEF Next

\* The search bucket is never oversold, late reservations of payments included,
\* however reservations, releases and payments interleave.
THEOREM Capacity == Spec => []NeverOversold
<1>1. Init => NeverOversold
  <2>1. Init => Debits = {}
    BY DEF Init, Debits
  <2> QED BY <2>1, FS_EmptySet, CheckoutAssumption DEF NeverOversold
<1>2. Inv /\ NeverOversold /\ [Next]_vars => NeverOversold'
  BY CapacityNext
<1> QED BY <1>1, <1>2, Invariance, PTL DEF Spec

-------------------------------------------------------------------------------

\* Documents, questions, finalizing and editing change neither charge nor
\* outcome.
LEMMA QuietDraft ==
  ASSUME TypeOK, NEW d \in Draft, DraftStep(d)
  PROVE  /\ UNCHANGED <<services, refund, settlement>>
         /\ \A b \in Attempt :
              \/ session'[b] = session[b]
              \/ {session[b], session'[b]} \subseteq {"NONE", "OPEN", "EXPIRED"}
<1> USE DEF TypeOK, SessionState, paymentVars, providerVars
<1>1. CASE RegisterResume(d)
  BY <1>1 DEF RegisterResume
<1>2. CASE RemoveResume(d)
  BY <1>2 DEF RemoveResume
<1>3. CASE ReviewResume(d)
  BY <1>3 DEF ReviewResume
<1>4. CASE BeginResearchRound(d)
  BY <1>4 DEF BeginResearchRound, InvalidateSnapshot
<1>5. CASE AnswerQuestion(d)
  BY <1>5 DEF AnswerQuestion, InvalidateSnapshot
<1>6. CASE EditComplete(d)
  BY <1>6 DEF EditComplete, InvalidateSnapshot
<1>7. CASE EditLocked(d)
  BY <1>7 DEF EditLocked, EditRaises, Return
<1>8. CASE \E s \in Snapshot : Finalize(d, s)
  BY <1>8 DEF Finalize, InvalidateSnapshot, Editable, AttemptsOf
<1> QED BY <1>1, <1>2, <1>3, <1>4, <1>5, <1>6, <1>7, <1>8 DEF DraftStep

\* The steps of a checkout request change neither charge nor outcome.
LEMMA QuietRequest ==
  ASSUME TypeOK, NEW r \in Request, RequestStep(r)
  PROVE  /\ UNCHANGED <<services, refund, settlement>>
         /\ \A b \in Attempt :
              \/ session'[b] = session[b]
              \/ {session[b], session'[b]} \subseteq {"NONE", "OPEN", "EXPIRED"}
<1> USE DEF TypeOK, SessionState, paymentVars, providerVars
<1>1. CASE \E a \in Attempt : BeginSearchCheckout(r, a)
  BY <1>1 DEF BeginSearchCheckout
<1>2. CASE CreateSession(r)
  BY <1>2 DEF CreateSession, ProviderCreates
<1>3. CASE Promote(r)
  BY <1>3 DEF Promote, PromoteSearchCheckout, Promotable
<1>4. CASE PromotionFails(r)
  BY <1>4 DEF PromotionFails
<1>5. CASE ExpireAtProvider(r)
  BY <1>5 DEF ExpireAtProvider, ProviderExpires
<1>6. CASE Compensate(r)
  BY <1>6 DEF Compensate, CompensateSearchCheckout, Return
<1>7. CASE RequestStops(r)
  BY <1>7 DEF RequestStops
<1> QED BY <1>1, <1>2, <1>3, <1>4, <1>5, <1>6, <1>7 DEF RequestStep

\* The steps of a background worker change neither charge nor outcome.
LEMMA QuietWorker ==
  ASSUME TypeOK, NEW w \in Worker, WorkerStep(w)
  PROVE  /\ UNCHANGED <<services, refund, settlement>>
         /\ \A b \in Attempt :
              \/ session'[b] = session[b]
              \/ {session[b], session'[b]} \subseteq {"NONE", "OPEN", "EXPIRED"}
<1> USE DEF TypeOK, SessionState, paymentVars, providerVars
<1>1. CASE \E a \in Attempt : ReadProvisional(w, a)
  BY <1>1 DEF ReadProvisional, WorkerAt
<1>2. CASE \E a \in Attempt : RetrieveInvalidated(w, a)
  BY <1>2 DEF RetrieveInvalidated, WorkerAt
<1>3. CASE Reopen(w)
  BY <1>3 DEF Reopen, WorkerAt
<1>4. CASE WorkerCreates(w)
  BY <1>4 DEF WorkerCreates, ProviderCreates, WorkerAt
<1>5. CASE WorkerPromotes(w)
  BY <1>5 DEF WorkerPromotes, PromoteSearchCheckout, Promotable, WorkerDone
<1>6. CASE WorkerExpiresAtProvider(w)
  BY <1>6 DEF WorkerExpiresAtProvider, ProviderExpires, WorkerAt
<1>7. CASE WorkerExpires(w)
  BY <1>7 DEF WorkerExpires, ExpireSearchCheckout, ExpiryCommits, Return,
     WorkerDone
<1>8. CASE WorkerStops(w)
  BY <1>8 DEF WorkerStops, WorkerDone
<1> QED BY <1>1, <1>2, <1>3, <1>4, <1>5, <1>6, <1>7, <1>8 DEF WorkerStep

\* A step that settles nothing and completes no session is a stutter of the
\* promise.
LEMMA QuietKeepsPromise ==
  ASSUME UNCHANGED <<services, refund, settlement>>,
         \A b \in Attempt :
           session'[b] = session[b]
             \/ {session[b], session'[b]} \subseteq {"NONE", "OPEN", "EXPIRED"}
  PROVE  UNCHANGED <<Charges, Outcomes>>
<1>1. Outcomes' = Outcomes
  BY DEF Outcomes, OutcomeOf
<1>2. ASSUME NEW b \in Attempt
      PROVE  ChargeOf(b)' = ChargeOf(b)
  BY DEF ChargeOf
<1>3. Charges' = Charges
  BY <1>2 DEF Charges
<1> QED BY <1>1, <1>3

\* A customer who pays is charged once.
LEMMA PayKeepsPromise ==
  ASSUME TypeOK, NEW a \in Attempt,
         NEW result \in {"COMPLETE", "UNVERIFIED"}, CustomerPays(a, result)
  PROVE  Promise!Pay(a)
<1>1. Outcomes' = Outcomes
  BY DEF CustomerPays, paymentVars, Outcomes, OutcomeOf
<1>2. session[a] = "OPEN" /\ session' = [session EXCEPT ![a] = result]
  BY DEF CustomerPays
<1>3. Charges[a] = "NONE"
  BY <1>2 DEF Charges, ChargeOf
<1>4. Charges' = [Charges EXCEPT ![a] =
                    IF result = "COMPLETE" THEN "VERIFIED" ELSE "UNVERIFIED"]
  BY <1>2 DEF Charges, ChargeOf, TypeOK
<1> QED BY <1>1, <1>3, <1>4 DEF Promise!Pay

\* A verified payment answered by a refund was not answered before.
LEMMA RefundKeepsPromise ==
  ASSUME TypeOK, RowsCohere, NEW a \in Attempt, VerifiedPayment(a),
         NEW cause \in RefundCause \ {"NONE"}, QueueRefund(a, cause)
  PROVE  Promise!Refund(a)
<1>1. Charges[a] = "VERIFIED" /\ Charges' = Charges
  BY DEF Charges, ChargeOf, VerifiedPayment, PaymentEvent, providerVars
<1>2. Outcomes[a] = "UNSETTLED"
  BY DEF Outcomes, OutcomeOf, RowsCohere, VerifiedPayment, PaymentEvent
<1>3. settlement[a] = "UNPAID"
  BY DEF VerifiedPayment, PaymentEvent
<1>4. Outcomes' = [Outcomes EXCEPT ![a] = "REFUNDED"]
  <2>1. services' = services /\ refund' = [refund EXCEPT ![a] = cause]
        /\ settlement' = [settlement EXCEPT ![a] = "PAID"]
    BY DEF QueueRefund, VerifiedPayment, PaymentEvent
  <2>2. ASSUME NEW b \in Attempt
        PROVE  OutcomeOf(b)' = IF b = a THEN "REFUNDED" ELSE OutcomeOf(b)
    BY <2>1, <1>3 DEF OutcomeOf, TypeOK, RowsCohere, RefundCause
  <2> QED BY <2>2 DEF Outcomes
<1> QED BY <1>1, <1>2, <1>4 DEF Promise!Refund, Promise!Answer

\* A verified payment answered by a search was not answered before, and no
\* other search serves the draft: its draft would be converted.
LEMMA ActivationKeepsPromise ==
  ASSUME TypeOK, RowsCohere, NEW a \in Attempt, VerifiedPayment(a), Activated(a)
  PROVE  Promise!Serve(a)
<1>1. Charges[a] = "VERIFIED" /\ Charges' = Charges
  BY DEF Charges, ChargeOf, VerifiedPayment, PaymentEvent, providerVars
<1>2. Outcomes[a] = "UNSETTLED"
  BY DEF Outcomes, OutcomeOf, RowsCohere, VerifiedPayment, PaymentEvent
<1>3. Outcomes' = [Outcomes EXCEPT ![a] = "SERVED"]
  <2>1. services' = services \cup {a} /\ refund' = refund
        /\ settlement' = [settlement EXCEPT ![a] = "PAID"]
    BY DEF Activated, VerifiedPayment, PaymentEvent
  <2>2. ASSUME NEW b \in Attempt
        PROVE  OutcomeOf(b)' = IF b = a THEN "SERVED" ELSE OutcomeOf(b)
    <3>1. b \in services' <=> b \in services \/ b = a
      BY <2>1
    <3>2. refund'[b] = refund[b]
      BY <2>1
    <3>3. b # a => settlement'[b] = settlement[b]
      BY <2>1 DEF TypeOK
    <3> QED BY <3>1, <3>2, <3>3 DEF OutcomeOf
  <2> QED BY <2>2 DEF Outcomes
<1>4. ASSUME NEW b \in Attempt, Owner(b) = Owner(a)
      PROVE  Outcomes[b] # "SERVED"
  BY <1>4 DEF Outcomes, OutcomeOf, RowsCohere, Activated, MayConvert
<1> QED BY <1>1, <1>2, <1>3, <1>4 DEF Promise!Serve, Promise!Answer

\* A payment that was not verified is rejected once.
LEMMA RejectionKeepsPromise ==
  ASSUME TypeOK, RowsCohere, NEW a \in Attempt, UnverifiedPayment(a)
  PROVE  Promise!Reject(a)
<1>1. Charges[a] = "UNVERIFIED" /\ Charges' = Charges
  BY DEF Charges, ChargeOf, UnverifiedPayment, PaymentEvent, providerVars
<1>2. Outcomes[a] = "UNSETTLED"
  BY DEF Outcomes, OutcomeOf, RowsCohere, UnverifiedPayment, PaymentEvent
<1>3. settlement[a] = "UNPAID"
  BY DEF UnverifiedPayment, PaymentEvent
<1>4. Outcomes' = [Outcomes EXCEPT ![a] = "REJECTED"]
  <2>1. services' = services /\ refund' = refund
        /\ settlement' = [settlement EXCEPT ![a] = "FAILED"]
    BY DEF UnverifiedPayment, PaymentEvent
  <2>2. ASSUME NEW b \in Attempt
        PROVE  OutcomeOf(b)' = IF b = a THEN "REJECTED" ELSE OutcomeOf(b)
    BY <2>1, <1>3 DEF OutcomeOf, TypeOK, RowsCohere, RefundCause
  <2> QED BY <2>2 DEF Outcomes
<1> QED BY <1>1, <1>2, <1>4 DEF Promise!Reject, Promise!Answer

\* Every step of an attempt is a step of the promise or a stutter.
LEMMA PromiseAttempt ==
  ASSUME Inv, NEW a \in Attempt, AttemptStep(a)
  PROVE  [Promise!Next]_<<Charges, Outcomes>>
<1> USE DEF Inv, paymentVars, providerVars
<1>1. CASE \E result \in {"COMPLETE", "UNVERIFIED"} : CustomerPays(a, result)
  BY <1>1, PayKeepsPromise DEF Promise!Next
<1>2. CASE UnverifiedPayment(a)
  BY <1>2, RejectionKeepsPromise DEF Promise!Next
<1>3. CASE DuplicatePayment(a) \/ StalePayment(a)
  BY <1>3, RefundKeepsPromise DEF DuplicatePayment, StalePayment, RefundCause,
     Promise!Next
<1>4. CASE CapacityException(a)
  BY <1>4, RefundKeepsPromise DEF CapacityException, Reacquiring, RefundCause,
     Promise!Next
<1>5. CASE ActivateSearch(a) \/ ActivateReacquired(a)
  BY <1>5, ActivationKeepsPromise DEF ActivateSearch, ActivateReacquired,
     Reacquiring, Promise!Next
<1>6. CASE \/ CancelSearchCheckout(a)
           \/ CheckoutExpiryJob(a)
           \/ ExpiredWebhook(a)
  BY <1>6, QuietKeepsPromise DEF CancelSearchCheckout, CheckoutExpiryJob,
     ExpiredWebhook, ExpireSearchCheckout
<1>7. CASE Assess(a) \/ LeaseLapses(a) \/ QuoteLapses(a)
  BY <1>7, QuietKeepsPromise DEF Assess, LeaseLapses, QuoteLapses
<1>8. CASE SessionLapses(a)
  BY <1>8, QuietKeepsPromise DEF SessionLapses, ProviderExpires, TypeOK
<1> QED BY <1>1, <1>2, <1>3, <1>4, <1>5, <1>6, <1>7, <1>8 DEF AttemptStep

\* The checkout implements SearchPromise: each charge is answered once, by a
\* search or a refund if it was verified, and one draft buys one search.
THEOREM ImplementsPromise == Spec => KeepsPromise
<1>1. Init => Promise!Init
  BY DEF Init, Promise!Init, Charges, ChargeOf, Outcomes, OutcomeOf
<1>2. Inv /\ [Next]_vars => [Promise!Next]_<<Charges, Outcomes>>
  <2> SUFFICES ASSUME Inv, [Next]_vars
               PROVE  [Promise!Next]_<<Charges, Outcomes>>
    OBVIOUS
  <2>1. CASE UNCHANGED vars
    BY <2>1, QuietKeepsPromise DEF vars, paymentVars, providerVars
  <2>2. ASSUME NEW d \in Draft, DraftStep(d)
        PROVE  UNCHANGED <<Charges, Outcomes>>
    BY <2>2, QuietDraft, QuietKeepsPromise DEF Inv
  <2>3. ASSUME NEW r \in Request, RequestStep(r)
        PROVE  UNCHANGED <<Charges, Outcomes>>
    BY <2>3, QuietRequest, QuietKeepsPromise DEF Inv
  <2>4. ASSUME NEW w \in Worker, WorkerStep(w)
        PROVE  UNCHANGED <<Charges, Outcomes>>
    BY <2>4, QuietWorker, QuietKeepsPromise DEF Inv
  <2> QED BY <2>1, <2>2, <2>3, <2>4, PromiseAttempt DEF Next
<1> QED BY <1>1, <1>2, Invariance, PTL
        DEF Spec, KeepsPromise, Promise!Spec, Promise!pvars

-------------------------------------------------------------------------------
\* The instance has its own copy of the standard operator.
LEMMA SameCardinality == \A S : Ledger!Cardinality(S) = Cardinality(S)
BY DEF Ledger!Cardinality, Cardinality

\* The ledger counts what the checkout debits.
LEMMA LedgerFits == NeverOversold => Ledger!Fits
<1> SUFFICES ASSUME NeverOversold PROVE Ledger!Fits
  OBVIOUS
<1>1. ASSUME NEW s \in Slots, Units[s].status \in {"HELD", "SPENT"}
      PROVE  s \in Debits
  BY <1>1 DEF Units, Slots, HeldSlot, LateSlot, Debits
<1>2. Ledger!Used("search") \subseteq Debits
  BY <1>1 DEF Ledger!Used
<1>3. Cardinality(Ledger!Used("search")) <= Cardinality(Debits)
      /\ Cardinality(Ledger!Used("search")) \in Nat
      /\ Cardinality(Debits) \in Nat
  BY <1>2, DebitsFinite, FS_Subset, FS_CardinalityType
<1>4. Ledger!Cardinality(Ledger!Used("search")) <= Total
  BY <1>3, SameCardinality, CheckoutAssumption DEF NeverOversold
<1> QED BY <1>4 DEF Ledger!Fits

\* What one attempt's rows may do in a step, as the ledger sees it.
HoldAdvances(a) ==
  \/ hold'[a] = hold[a]
  \/ hold[a] = "NONE" /\ hold'[a] = "RESERVED"
  \/ hold[a] = "RESERVED"
     /\ hold'[a] \in {"CONSUMED", "RELEASED", "EXPIRED", "SUPERSEDED"}

LateAdvances(a) ==
  \/ reacquired'[a] = reacquired[a]
  \/ reacquired[a] = "UNTRIED"

\* Rows that advance so take the steps of the ledger.
LEMMA AdvancesKeepLedger ==
  ASSUME TypeOK, TypeOK', NeverOversold',
         \A a \in Attempt : HoldAdvances(a) /\ LateAdvances(a)
  PROVE  Ledger!Next
<1>1. Units' \in [Slots -> Ledger!UnitState]
  BY DEF Units, HeldSlot, LateSlot, Ledger!UnitState, Ledger!Status
<1>2. ASSUME NEW a \in Attempt, NEW s \in Slots, s = <<a, "hold">>
      PROVE  Ledger!Debit(s) \/ Ledger!Spend(s) \/ Ledger!Return(s)
             \/ Units'[s] = Units[s]
  <2>1. Units[s] = HeldSlot(a) /\ Units'[s] = HeldSlot(a)'
    BY <1>2 DEF Units
  <2>2. CASE hold'[a] = hold[a]
    BY <2>1, <2>2 DEF HeldSlot
  <2>3. CASE hold[a] = "NONE" /\ hold'[a] = "RESERVED"
    BY <2>1, <2>3 DEF HeldSlot, Ledger!Debit, Ledger!Unasked
  <2>4. CASE hold[a] = "RESERVED" /\ hold'[a] = "CONSUMED"
    BY <2>1, <2>4 DEF HeldSlot, Ledger!Spend
  <2>5. CASE hold[a] = "RESERVED"
             /\ hold'[a] \in {"RELEASED", "EXPIRED", "SUPERSEDED"}
    BY <2>1, <2>5 DEF HeldSlot, Ledger!Return
  <2> QED BY <2>2, <2>3, <2>4, <2>5 DEF HoldAdvances
<1>3. ASSUME NEW a \in Attempt, NEW s \in Slots, s = <<a, "reacquired">>
      PROVE  Ledger!Debit(s) \/ Units'[s] = Units[s]
  <2>1. Units[s] = LateSlot(a) /\ Units'[s] = LateSlot(a)'
    BY <1>3 DEF Units
  <2> QED BY <2>1 DEF LateAdvances, LateSlot, Ledger!Debit, Ledger!Unasked
<1>4. Ledger!Fits'
  BY LedgerFits, NeverOversold', PTL
<1>5. \A s \in Slots : \E a \in Attempt : s = <<a, "hold">>
                         \/ s = <<a, "reacquired">>
  BY DEF Slots
<1> QED BY <1>1, <1>2, <1>3, <1>4, <1>5 DEF Ledger!Next

\* Documents, questions, finalizing and editing move reservations only as the
\* ledger allows.
LEMMA AdvanceDraft ==
  ASSUME Inv, NEW d \in Draft, DraftStep(d)
  PROVE  \A b \in Attempt : HoldAdvances(b) /\ LateAdvances(b)
<1> USE DEF Inv, TypeOK, intakeVars, quoteVars, checkoutVars, paymentVars,
      providerVars, processVars, Return, HoldAdvances, LateAdvances
<1>1. CASE RegisterResume(d)
  BY <1>1 DEF RegisterResume
<1>2. CASE RemoveResume(d)
  BY <1>2 DEF RemoveResume
<1>3. CASE ReviewResume(d)
  BY <1>3 DEF ReviewResume
<1>4. CASE BeginResearchRound(d)
  BY <1>4 DEF BeginResearchRound, InvalidateSnapshot
<1>5. CASE AnswerQuestion(d)
  BY <1>5 DEF AnswerQuestion, InvalidateSnapshot
<1>6. CASE EditComplete(d)
  BY <1>6 DEF EditComplete, InvalidateSnapshot
<1>7. CASE EditLocked(d)
  BY <1>7 DEF EditLocked, EditRaises, Return
<1>8. CASE \E s \in Snapshot : Finalize(d, s)
  BY <1>8 DEF Finalize, InvalidateSnapshot, Editable, AttemptsOf
<1> QED BY <1>1, <1>2, <1>3, <1>4, <1>5, <1>6, <1>7, <1>8 DEF DraftStep

\* Time, cancellation, expiry, payment and their webhooks move reservations
\* only as the ledger allows.
LEMMA AdvanceAttempt ==
  ASSUME Inv, NEW a \in Attempt, AttemptStep(a)
  PROVE  \A b \in Attempt : HoldAdvances(b) /\ LateAdvances(b)
<1> USE DEF Inv, TypeOK, intakeVars, quoteVars, checkoutVars, paymentVars,
      providerVars, processVars, Return, HoldAdvances, LateAdvances
<1>1. CASE Assess(a)
  BY <1>1 DEF Assess
<1>2. CASE LeaseLapses(a)
  BY <1>2 DEF LeaseLapses
<1>3. CASE QuoteLapses(a)
  BY <1>3 DEF QuoteLapses
<1>4. CASE SessionLapses(a)
  BY <1>4 DEF SessionLapses, ProviderExpires
<1>5. CASE \E outcome \in {"COMPLETE", "UNVERIFIED"} : CustomerPays(a, outcome)
  BY <1>5 DEF CustomerPays
<1>6. CASE CancelSearchCheckout(a)
  BY <1>6 DEF CancelSearchCheckout, ExpireSearchCheckout, ExpiryCommits, Return
<1>7. CASE CheckoutExpiryJob(a)
  BY <1>7 DEF CheckoutExpiryJob, ExpireSearchCheckout, ExpiryCommits, Return
<1>8. CASE ExpiredWebhook(a)
  BY <1>8 DEF ExpiredWebhook, ExpireSearchCheckout, ExpiryCommits, Return
<1>9. CASE UnverifiedPayment(a)
  BY <1>9 DEF UnverifiedPayment, PaymentEvent
<1>10. CASE DuplicatePayment(a)
  BY <1>10 DEF DuplicatePayment, VerifiedPayment, PaymentEvent, QueueRefund,
     CloseCheckout, Return, HasWinner, StalePaid
<1>11. CASE StalePayment(a)
  BY <1>11 DEF StalePayment, VerifiedPayment, PaymentEvent, QueueRefund,
     CloseCheckout, Return, HasWinner, StalePaid
<1>12. CASE CapacityException(a)
  BY <1>12 DEF CapacityException, Reacquiring, VerifiedPayment, PaymentEvent,
     QueueRefund, CloseCheckout, Return, MayExpire, HasWinner, StalePaid
<1>13. CASE ActivateSearch(a)
  BY <1>13 DEF ActivateSearch, VerifiedPayment, PaymentEvent, HoldLive,
     HasWinner, StalePaid, Activated, CloseCheckout, MayConvert
<1>14. CASE ActivateReacquired(a)
  BY <1>14 DEF ActivateReacquired, Reacquiring, VerifiedPayment, PaymentEvent,
     Activated, CloseCheckout, Return, MayConvert, HasWinner, HoldLive,
     StalePaid
<1> QED BY <1>1, <1>2, <1>3, <1>4, <1>5, <1>6, <1>7, <1>8, <1>9, <1>10, <1>11,
   <1>12, <1>13, <1>14 DEF AttemptStep

\* The steps of a checkout request move reservations only as the ledger allows.
LEMMA AdvanceRequest ==
  ASSUME Inv, NEW r \in Request, RequestStep(r)
  PROVE  \A b \in Attempt : HoldAdvances(b) /\ LateAdvances(b)
<1> USE DEF Inv, TypeOK, intakeVars, quoteVars, checkoutVars, paymentVars,
      providerVars, processVars, Return, HoldAdvances, LateAdvances
<1>1. CASE \E a \in Attempt : BeginSearchCheckout(r, a)
  BY <1>1 DEF BeginSearchCheckout, RowsCohere
<1>2. CASE CreateSession(r)
  BY <1>2 DEF CreateSession, ProviderCreates
<1>3. CASE Promote(r)
  BY <1>3 DEF Promote, PromoteSearchCheckout, Promotable
<1>4. CASE PromotionFails(r)
  BY <1>4 DEF PromotionFails
<1>5. CASE ExpireAtProvider(r)
  BY <1>5 DEF ExpireAtProvider, ProviderExpires
<1>6. CASE Compensate(r)
  BY <1>6 DEF Compensate, CompensateSearchCheckout, Return
<1>7. CASE RequestStops(r)
  BY <1>7 DEF RequestStops
<1> QED BY <1>1, <1>2, <1>3, <1>4, <1>5, <1>6, <1>7 DEF RequestStep

\* The steps of a background worker move reservations only as the ledger allows.
LEMMA AdvanceWorker ==
  ASSUME Inv, NEW w \in Worker, WorkerStep(w)
  PROVE  \A b \in Attempt : HoldAdvances(b) /\ LateAdvances(b)
<1> USE DEF Inv, TypeOK, intakeVars, quoteVars, checkoutVars, paymentVars,
      providerVars, processVars, Return, HoldAdvances, LateAdvances
<1>1. CASE \E a \in Attempt : ReadProvisional(w, a)
  BY <1>1 DEF ReadProvisional, WorkerAt
<1>2. CASE \E a \in Attempt : RetrieveInvalidated(w, a)
  BY <1>2 DEF RetrieveInvalidated, WorkerAt
<1>3. CASE Reopen(w)
  BY <1>3 DEF Reopen, WorkerAt
<1>4. CASE WorkerCreates(w)
  BY <1>4 DEF WorkerCreates, ProviderCreates, WorkerAt
<1>5. CASE WorkerPromotes(w)
  BY <1>5 DEF WorkerPromotes, PromoteSearchCheckout, Promotable, WorkerDone
<1>6. CASE WorkerExpiresAtProvider(w)
  BY <1>6 DEF WorkerExpiresAtProvider, ProviderExpires, WorkerAt
<1>7. CASE WorkerExpires(w)
  BY <1>7 DEF WorkerExpires, ExpireSearchCheckout, ExpiryCommits, Return,
     WorkerDone
<1>8. CASE WorkerStops(w)
  BY <1>8 DEF WorkerStops, WorkerDone
<1> QED BY <1>1, <1>2, <1>3, <1>4, <1>5, <1>6, <1>7, <1>8 DEF WorkerStep

\* The checkout implements CapacityLedger: a hold is spent or returned once and
\* the bucket never oversold.
THEOREM ImplementsLedger == Spec => KeepsLedger
<1>1. Init => Ledger!Init
  <2> SUFFICES ASSUME Init PROVE Ledger!Init
    OBVIOUS
  <2>1. ASSUME NEW a \in Attempt
        PROVE  HeldSlot(a) = Ledger!Unasked /\ LateSlot(a) = Ledger!Unasked
    BY DEF Init, HeldSlot, LateSlot, Ledger!Unasked
  <2> QED BY <2>1 DEF Slots, Units, Ledger!Init
<1>2. Inv /\ NeverOversold /\ [Next]_vars => [Ledger!Next]_Units
  <2> SUFFICES ASSUME Inv, NeverOversold, [Next]_vars
               PROVE  [Ledger!Next]_Units
    OBVIOUS
  <2>1. TypeOK /\ TypeOK' /\ NeverOversold'
    BY InvNext, CapacityNext DEF Inv
  <2>2. CASE UNCHANGED vars
    BY <2>2 DEF vars, checkoutVars, Units, HeldSlot, LateSlot
  <2>3. CASE Next
    <3>1. \A a \in Attempt : HoldAdvances(a) /\ LateAdvances(a)
      BY <2>3, AdvanceDraft, AdvanceAttempt, AdvanceRequest, AdvanceWorker
         DEF Next
    <3> QED BY <2>1, <3>1, AdvancesKeepLedger
  <2> QED BY <2>2, <2>3
<1> QED BY <1>1, <1>2, Invariance, Capacity, PTL
        DEF Spec, KeepsLedger, Ledger!Spec
===============================================================================
