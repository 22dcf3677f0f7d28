---------------------------- MODULE SearchService ----------------------------
(***************************************************************************)
(* A paid search from its activation to its delivery or refund: adjustment *)
(* proposals and their answers, the criteria revisions they accept, the    *)
(* deadline of each revision, the release of ten jobs, the disputes of the *)
(* payment, and the scheduled jobs that expire proposals and deadlines.    *)
(*                                                                         *)
(* Every PL/pgSQL function locks the service and is one transaction, so    *)
(* one action; only the delivery handler reads, and commits afterwards, in *)
(* two steps.  Raise conditions, those of the table triggers included, are *)
(* guards.                                                                 *)
(*                                                                         *)
(* A criteria revision is named by what it came from: the service for the  *)
(* original snapshot, the amendment for the snapshot it accepted.  With it *)
(* come its capacity allocation, its deadline and its deadline job.        *)
(***************************************************************************)
CONSTANTS
  Service,      \* activated ap_search_services
  Amendment,    \* ap_criteria_amendments that may be proposed
  ServiceOf,    \* the service of an amendment
  None

Revision == Service \cup Amendment

ASSUME ServiceAssumption ==
  /\ ServiceOf \in [Amendment -> Service]
  /\ Service \cap Amendment = {}
  /\ None \notin Revision

VARIABLES
  fulfillment,  \* ap_search_services.fulfillment
  adjustment,   \* ap_search_services.adjustment
  active,       \* revision of active_snapshot_id and capacity_allocation_id
  refund,       \* reason of the FULL_SEARCH refund, with refund_started_at
  released,     \* revision of the SEARCH_EXACT_TEN release
  order,        \* orders.status: paid also when the worker made it in_fulfillment
  dispute,      \* ap_payment_attempts.dispute
  amendment,    \* ap_criteria_amendments.state
  parent,       \* ap_criteria_amendments.parent_snapshot_id
  allocation,   \* ap_capacity_allocations.lifecycle of the revision
  evaluated,    \* revisions with ten current evaluations
  delivering,   \* revisions a delivery handler has selected ten jobs for
  lapsed,       \* amendments past proposal_expires_at
  overdue,      \* revisions past their delivery_due_at
  proposalJobs, \* amendments whose PROPOSAL_EXPIRY job is not completed
  deadlineJobs  \* revisions whose SEARCH_DEADLINE job is not completed

serviceVars   == <<fulfillment, adjustment, active, refund, released, order>>
amendmentVars == <<amendment, parent>>
reviewVars    == <<evaluated, delivering>>
clockVars     == <<lapsed, overdue>>
jobVars       == <<proposalJobs, deadlineJobs>>
vars == <<serviceVars, dispute, amendmentVars, allocation, reviewVars,
          clockVars, jobVars>>

Fulfillment  == {"RESEARCHING", "HUMAN_REVIEW", "ADJUSTMENT_REQUIRED",
                 "DELIVERED", "CANCELED"}
Adjustment   == {"NONE", "PROPOSED", "ACCEPTED", "DECLINED", "EXPIRED"}
Lifecycle    == {"NONE", "CONSUMED", "COMPLETED", "SUPERSEDED"}
OrderStatus  == {"paid", "delivered", "refund_pending", "cancelled"}
DisputeState == {"NONE", "OPEN", "WON", "LOST"}
RefundReason == {"NONE", "MISSED_ACTIVE_DEADLINE", "ADJUSTMENT_NO_RESPONSE",
                 "ADJUSTMENT_DECLINED", "REVISED_CAPACITY_UNAVAILABLE",
                 "DISPUTE_WON_UNDELIVERED"}

AmendmentsOf(s) == {m \in Amendment : ServiceOf[m] = s}
RevisionsOf(s)  == {s} \cup AmendmentsOf(s)
Released(s)     == released[s] # None
Refunding(s)    == refund[s] # "NONE"

-------------------------------------------------------------------------------
\* Starting the refund of a search.

\* Fault: a release that was committed meanwhile is not looked for.
UnreleasedUnchecked(s) == ~Refunding(s)

\* Neither released, which makes the service DELIVERED, nor being refunded.
Undecided(s) == ~Released(s) /\ ~Refunding(s)

\* Fault: the unit of the refunded search is given back.
CancelReturnsUnit(s) ==
  /\ fulfillment' = [fulfillment EXCEPT ![s] = "CANCELED"]
  /\ allocation' = [allocation EXCEPT ![active[s]] = "RELEASED"]

\* The spent unit is never returned: it is superseded.
Cancel(s) ==
  /\ fulfillment' = [fulfillment EXCEPT ![s] = "CANCELED"]
  /\ allocation' = [allocation EXCEPT ![active[s]] = "SUPERSEDED"]

\* ap_start_search_service_refund; does nothing once the search is decided.
StartRefund(s, reason) ==
  \/ /\ Undecided(s)
     /\ refund' = [refund EXCEPT ![s] = reason]
     /\ order' = [order EXCEPT ![s] = "refund_pending"]
     /\ Cancel(s)
  \/ /\ ~Undecided(s)
     /\ UNCHANGED <<refund, order, fulfillment, allocation>>

-------------------------------------------------------------------------------
\* Adjustments.

\* ap_propose_search_adjustment.  A proposal expires by the deadline of the
\* revision it amends.  Neither a dispute nor another open proposal is in its
\* way.
Propose(m) ==
  LET s == ServiceOf[m] IN
  /\ amendment[m] = "NONE"
  /\ Undecided(s)
  /\ active[s] \notin overdue
  /\ amendment' = [amendment EXCEPT ![m] = "PROPOSED"]
  /\ parent' = [parent EXCEPT ![m] = active[s]]
  /\ fulfillment' = [fulfillment EXCEPT ![s] = "ADJUSTMENT_REQUIRED"]
  /\ adjustment' = [adjustment EXCEPT ![s] = "PROPOSED"]
  /\ proposalJobs' = proposalJobs \cup {m}
  /\ UNCHANGED <<active, refund, released, order, dispute, allocation,
                 reviewVars, clockVars, deadlineJobs>>

\* Fault: what the proposal was made against is not compared.
AcceptsAnyParent(m) ==
  /\ amendment[m] = "PROPOSED"
  /\ m \notin lapsed
  /\ Undecided(ServiceOf[m])

Acceptable(m) ==
  /\ amendment[m] = "PROPOSED"
  /\ m \notin lapsed
  /\ parent[m] = active[ServiceOf[m]]
  /\ Undecided(ServiceOf[m])

\* Fault: the unit of the criteria given up is left in use.
AcceptKeepsUnit(m) ==
  allocation' = [allocation EXCEPT ![m] = "CONSUMED"]

\* The revision takes a unit of its own; the one before it stays spent.
TransferUnit(m) ==
  allocation' = [allocation EXCEPT ![m] = "CONSUMED",
                                   ![active[ServiceOf[m]]] = "SUPERSEDED"]

\* Evaluations and reviews are of a snapshot, and go with it.
DropEvaluations(s) == evaluated' = evaluated \ {active[s]}

\* Fault: the revised criteria get no deadline job of their own.
AcceptSchedulesNothing(m) == UNCHANGED deadlineJobs

ScheduleDeadline(m) == deadlineJobs' = deadlineJobs \cup {m}

\* ap_accept_search_adjustment with a unit reserved.
Accept(m) ==
  LET s == ServiceOf[m] IN
  /\ Acceptable(m)
  /\ amendment' = [amendment EXCEPT ![m] = "ACCEPTED"]
  /\ active' = [active EXCEPT ![s] = m]
  /\ adjustment' = [adjustment EXCEPT ![s] = "ACCEPTED"]
  /\ fulfillment' = [fulfillment EXCEPT ![s] = "RESEARCHING"]
  /\ TransferUnit(m)
  /\ DropEvaluations(s)
  /\ ScheduleDeadline(m)
  /\ UNCHANGED <<refund, released, order, dispute, parent, delivering,
                 clockVars, proposalJobs>>

\* ap_accept_search_adjustment when the reservation raises: the bucket is shared
\* with every other search and may be full or closed at any time.
AcceptWithoutCapacity(m) ==
  /\ Acceptable(m)
  /\ amendment' = [amendment EXCEPT ![m] = "DECLINED"]
  /\ StartRefund(ServiceOf[m], "REVISED_CAPACITY_UNAVAILABLE")
  /\ UNCHANGED <<adjustment, active, released, dispute, parent, reviewVars,
                 clockVars, jobVars>>

\* ap_decline_search_adjustment, of a proposal that has lapsed too.
Decline(m) ==
  /\ amendment[m] = "PROPOSED"
  /\ Undecided(ServiceOf[m])
  /\ amendment' = [amendment EXCEPT ![m] = "DECLINED"]
  /\ StartRefund(ServiceOf[m], "ADJUSTMENT_DECLINED")
  /\ UNCHANGED <<adjustment, active, released, dispute, parent, reviewVars,
                 clockVars, jobVars>>

-------------------------------------------------------------------------------
\* Research, review and release.

\* Ten jobs of the active snapshot have current evaluations.
Evaluate(s) ==
  /\ evaluated' = evaluated \cup {active[s]}
  /\ UNCHANGED <<serviceVars, dispute, amendmentVars, allocation, delivering,
                 clockVars, jobVars>>

\* ap_answer_customer_question invalidates the evaluation of the job asked of.
AnswerQuestion(s) ==
  /\ DropEvaluations(s)
  /\ UNCHANGED <<serviceVars, dispute, amendmentVars, allocation, delivering,
                 clockVars, jobVars>>

\* ap_record_job_release_review of an evaluation of the active snapshot.
Review(s, state) ==
  /\ active[s] \in evaluated
  /\ fulfillment[s] \notin {"DELIVERED", "CANCELED"}
  /\ fulfillment' = [fulfillment EXCEPT ![s] = state]
  /\ UNCHANGED <<adjustment, active, refund, released, order, dispute,
                 amendmentVars, allocation, reviewVars, clockVars, jobVars>>

\* Fault: the handler does not ask what became of the order.
SelectFromAnyOrder(s) ==
  /\ active[s] \in evaluated
  /\ fulfillment[s] # "DELIVERED"
  /\ ~Refunding(s)

Selectable(s) ==
  /\ order[s] = "paid"
  /\ active[s] \in evaluated
  /\ fulfillment[s] # "DELIVERED"
  /\ ~Refunding(s)

\* POST /api/admin/search-orders/[id]/deliver, up to its commit.  Its reads are
\* one step: criteria accepted between the order's and the snapshot's would need
\* a proposal, an answer and ten evaluations within one request.
BeginDelivery(s) ==
  /\ Selectable(s)
  /\ delivering' = delivering \cup {active[s]}
  /\ UNCHANGED <<serviceVars, dispute, amendmentVars, allocation, evaluated,
                 clockVars, jobVars>>

\* The handler stops, or its commit raises.
AbandonDelivery(r) ==
  /\ r \in delivering
  /\ delivering' = delivering \ {r}
  /\ UNCHANGED <<serviceVars, dispute, amendmentVars, allocation, evaluated,
                 clockVars, jobVars>>

\* Fault: a superseded unit may complete, as the function alone would let it.
ReleaseOnAnyUnit(r) == allocation[r] \in {"CONSUMED", "SUPERSEDED"}

\* The function accepts a superseded unit; ap_guard_state_transition does not.
MayComplete(r) == allocation[r] = "CONSUMED"

\* Fault: only the service's fulfillment holds back a release.
ReleasableWhileProposed(s) ==
  /\ Undecided(s)
  /\ fulfillment[s] # "ADJUSTMENT_REQUIRED"
  /\ active[s] \notin overdue

Releasable(s) ==
  /\ Undecided(s)
  /\ fulfillment[s] # "ADJUSTMENT_REQUIRED"
  /\ adjustment[s] # "PROPOSED"
  /\ active[s] \notin overdue

\* ap_commit_exact_ten_release of the jobs selected for r.
Release(s, r) ==
  /\ r \in delivering
  /\ r = active[s]
  /\ r \in evaluated
  /\ Releasable(s)
  /\ MayComplete(r)
  /\ released' = [released EXCEPT ![s] = r]
  /\ allocation' = [allocation EXCEPT ![r] = "COMPLETED"]
  /\ fulfillment' = [fulfillment EXCEPT ![s] = "DELIVERED"]
  /\ order' = [order EXCEPT ![s] = "delivered"]
  /\ delivering' = delivering \ {r}
  /\ UNCHANGED <<adjustment, active, refund, dispute, amendmentVars, evaluated,
                 clockVars, jobVars>>

-------------------------------------------------------------------------------
\* Time, and the jobs that act on it.

ProposalLapses(m) ==
  /\ amendment[m] = "PROPOSED"
  /\ m \notin lapsed
  /\ lapsed' = lapsed \cup {m}
  /\ UNCHANGED <<serviceVars, dispute, amendmentVars, allocation, reviewVars,
                 overdue, jobVars>>

\* A revision is due after the one it amends and after the proposals made to it.
DeadlinePasses(s, r) ==
  /\ r = s \/ (r \in AmendmentsOf(s) /\ amendment[r] = "ACCEPTED"
               /\ parent[r] \in overdue)
  /\ r \notin overdue
  /\ \A m \in Amendment :
       amendment[m] = "PROPOSED" /\ parent[m] = r => m \in lapsed
  /\ overdue' = overdue \cup {r}
  /\ UNCHANGED <<serviceVars, dispute, amendmentVars, allocation, reviewVars,
                 lapsed, jobVars>>

\* Fault: a proposal expires only while the service still shows one.
ExpireShownProposal(m) ==
  LET s == ServiceOf[m] IN
  /\ amendment[m] = "PROPOSED"
  /\ adjustment[s] = "PROPOSED"
  /\ amendment' = [amendment EXCEPT ![m] = "EXPIRED"]
  /\ adjustment' = [adjustment EXCEPT ![s] = "EXPIRED"]
  /\ StartRefund(s, "ADJUSTMENT_NO_RESPONSE")

\* PROPOSAL_EXPIRY: applied and completed in one transaction.
ExpireProposal(m) ==
  LET s == ServiceOf[m] IN
  /\ amendment[m] = "PROPOSED"
  /\ amendment' = [amendment EXCEPT ![m] = "EXPIRED"]
  /\ adjustment' = [adjustment EXCEPT ![s] =
                      IF @ = "PROPOSED" THEN "EXPIRED" ELSE @]
  /\ StartRefund(s, "ADJUSTMENT_NO_RESPONSE")

ProposalJob(m) ==
  /\ m \in proposalJobs
  /\ m \in lapsed
  /\ proposalJobs' = proposalJobs \ {m}
  /\ \/ ExpireProposal(m)
     \/ /\ amendment[m] # "PROPOSED"
        /\ UNCHANGED <<adjustment, fulfillment, refund, order, amendment,
                       allocation>>
  /\ UNCHANGED <<active, released, dispute, parent, reviewVars, clockVars,
                 deadlineJobs>>

\* SEARCH_DEADLINE: the job of an earlier revision finds a later deadline.
DeadlineJob(s, r) ==
  /\ r \in RevisionsOf(s)
  /\ r \in deadlineJobs
  /\ r \in overdue
  /\ deadlineJobs' = deadlineJobs \ {r}
  /\ \/ /\ active[s] \in overdue
        /\ StartRefund(s, "MISSED_ACTIVE_DEADLINE")
     \/ /\ active[s] \notin overdue
        /\ UNCHANGED <<fulfillment, refund, order, allocation>>
  /\ UNCHANGED <<adjustment, active, released, dispute, amendmentVars,
                 reviewVars, clockVars, proposalJobs>>

-------------------------------------------------------------------------------
\* ap_apply_search_dispute: events of the disputed payment.  The event of an
\* opening may come twice; a resolution needs the opening first.

OpenDispute(s) ==
  /\ dispute[s] \in {"NONE", "OPEN"}
  /\ dispute' = [dispute EXCEPT ![s] = "OPEN"]
  /\ \/ /\ Undecided(s)
        /\ order' = [order EXCEPT ![s] = "cancelled"]
        /\ Cancel(s)
     \/ /\ ~Undecided(s)
        /\ UNCHANGED <<fulfillment, order, allocation>>
  /\ UNCHANGED <<adjustment, active, refund, released, amendmentVars,
                 reviewVars, clockVars, jobVars>>

WinDispute(s) ==
  /\ dispute[s] = "OPEN"
  /\ dispute' = [dispute EXCEPT ![s] = "WON"]
  /\ StartRefund(s, "DISPUTE_WON_UNDELIVERED")
  /\ UNCHANGED <<adjustment, active, released, amendmentVars, reviewVars,
                 clockVars, jobVars>>

LoseDispute(s) ==
  /\ dispute[s] = "OPEN"
  /\ dispute' = [dispute EXCEPT ![s] = "LOST"]
  /\ UNCHANGED <<serviceVars, amendmentVars, allocation, reviewVars, clockVars,
                 jobVars>>

-------------------------------------------------------------------------------
\* The search as its activation leaves it.
Init ==
  /\ fulfillment = [s \in Service |-> "RESEARCHING"]
  /\ adjustment = [s \in Service |-> "NONE"]
  /\ active = [s \in Service |-> s]
  /\ refund = [s \in Service |-> "NONE"]
  /\ released = [s \in Service |-> None]
  /\ order = [s \in Service |-> "paid"]
  /\ dispute = [s \in Service |-> "NONE"]
  /\ amendment = [m \in Amendment |-> "NONE"]
  /\ parent = [m \in Amendment |-> None]
  /\ allocation = [r \in Revision |->
                     IF r \in Service THEN "CONSUMED" ELSE "NONE"]
  /\ evaluated = {}
  /\ delivering = {}
  /\ lapsed = {}
  /\ overdue = {}
  /\ proposalJobs = {}
  /\ deadlineJobs = Service

AmendmentStep(m) ==
  \/ Propose(m)
  \/ Accept(m)
  \/ AcceptWithoutCapacity(m)
  \/ Decline(m)
  \/ ProposalLapses(m)
  \/ ProposalJob(m)

ServiceStep(s) ==
  \/ Evaluate(s)
  \/ AnswerQuestion(s)
  \/ \E state \in {"HUMAN_REVIEW", "ADJUSTMENT_REQUIRED"} : Review(s, state)
  \/ BeginDelivery(s)
  \/ OpenDispute(s)
  \/ WinDispute(s)
  \/ LoseDispute(s)

RevisionStep(s, r) ==
  \/ AbandonDelivery(r)
  \/ Release(s, r)
  \/ DeadlinePasses(s, r)
  \/ DeadlineJob(s, r)

Next ==
  \/ \E m \in Amendment : AmendmentStep(m)
  \/ \E s \in Service : ServiceStep(s)
  \/ \E s \in Service : \E r \in RevisionsOf(s) : RevisionStep(s, r)

Spec == Init /\ [][Next]_vars

\* Clocks move, and the cron runs the jobs that are due.
Fairness ==
  /\ \A m \in Amendment : WF_vars(ProposalLapses(m)) /\ WF_vars(ProposalJob(m))
  /\ \A s \in Service : \A r \in RevisionsOf(s) :
       WF_vars(DeadlinePasses(s, r)) /\ WF_vars(DeadlineJob(s, r))

FairSpec == Spec /\ Fairness

-------------------------------------------------------------------------------
\* Types of the state variables.
TypeOK ==
  /\ fulfillment \in [Service -> Fulfillment]
  /\ adjustment \in [Service -> Adjustment]
  /\ active \in [Service -> Revision]
  /\ refund \in [Service -> RefundReason]
  /\ released \in [Service -> Revision \cup {None}]
  /\ order \in [Service -> OrderStatus]
  /\ dispute \in [Service -> DisputeState]
  /\ amendment \in [Amendment -> Adjustment]
  /\ parent \in [Amendment -> Revision \cup {None}]
  /\ allocation \in [Revision -> Lifecycle]
  /\ evaluated \subseteq Revision
  /\ delivering \subseteq Revision
  /\ lapsed \subseteq Amendment
  /\ overdue \subseteq Revision
  /\ proposalJobs \subseteq Amendment
  /\ deadlineJobs \subseteq Revision

\* A search is delivered or refunded, never both, and its service, its order
\* and its unit of capacity say the same: what was released stays the release
\* of the criteria in force, whatever proposals, jobs and disputes still come.
DeliveredOrRefunded ==
  \A s \in Service :
    /\ Released(s) =>
         /\ ~Refunding(s)
         /\ released[s] = active[s]
         /\ fulfillment[s] = "DELIVERED"
         /\ order[s] = "delivered"
         /\ allocation[active[s]] = "COMPLETED"
    /\ Refunding(s) =>
         /\ fulfillment[s] = "CANCELED"
         /\ order[s] = "refund_pending"
         /\ allocation[active[s]] = "SUPERSEDED"

\* Work is only done on a unit of capacity: the criteria in force have one until
\* the search is decided or its payment disputed, and no other criteria keep
\* theirs.
UnitFollowsCriteria ==
  \A s \in Service :
    /\ Undecided(s) /\ dispute[s] = "NONE" => allocation[active[s]] = "CONSUMED"
    /\ \A r \in RevisionsOf(s) \ {active[s]} :
         allocation[r] \in {"NONE", "SUPERSEDED"}

\* What holds the rows together; with the invariants above it is inductive.
\* Criteria in force were accepted; nothing is proposed against, or selected
\* for, criteria that were not; the service shows every proposal that may
\* still be accepted; and a disputed order is closed to delivery, with no
\* handler left that could commit.
RowsCohere ==
  /\ \A s \in Service :
       /\ active[s] \in RevisionsOf(s)
       /\ active[s] \in Amendment => amendment[active[s]] = "ACCEPTED"
       /\ dispute[s] # "NONE" /\ Undecided(s) =>
            /\ order[s] = "cancelled"
            /\ \A r \in RevisionsOf(s) \cap delivering :
                 allocation[r] # "CONSUMED"
  /\ \A m \in Amendment :
       /\ amendment[m] # "ACCEPTED" =>
            m \notin delivering /\ \A n \in Amendment : parent[n] # m
       /\ Acceptable(m) => adjustment[ServiceOf[m]] = "PROPOSED"

\* Nothing is released while a proposal against its criteria waits for the
\* customer, whatever reviews recorded meanwhile made of the service's state.
ReleaseWaitsForAnswer ==
  [][\A s \in Service : ~Released(s) /\ Released(s)' =>
       \A m \in AmendmentsOf(s) : ~Acceptable(m)]_vars

\* Nothing is released once the payment was disputed, not by a delivery that
\* had begun before, nor under criteria accepted since.
DisputeStopsRelease ==
  [][\A s \in Service :
       ~Released(s) /\ Released(s)' => dispute[s] = "NONE"]_vars

\* Every search is delivered or refunded, however often its deadline moved.
SearchIsDecided == \A s \in Service : <>~Undecided(s)

\* Every proposal is answered, or expires.
ProposalIsAnswered ==
  \A m \in Amendment : amendment[m] = "PROPOSED" ~> amendment[m] # "PROPOSED"

-------------------------------------------------------------------------------
\* What the tests of the program say without exception.  The code breaks it;
\* SearchService_disputed finds it broken.

\* An open dispute does not make the merchant refund the payment as well.
NoRefundInOpenDispute ==
  [][\A s \in Service :
       ~Refunding(s) /\ Refunding(s)' /\ dispute[s] = "OPEN" =>
         dispute'[s] = "WON"]_vars

-------------------------------------------------------------------------------
\* The service implements the promise to the customer.
OutcomeOf(s) ==
  IF Released(s) THEN "DELIVERED"
  ELSE IF Refunding(s) THEN "REFUNDING"
  ELSE "OWED"

Outcomes == [s \in Service |-> OutcomeOf(s)]

Promise == INSTANCE ServicePromise WITH outcome <- Outcomes

\* A search is answered once, by a delivery only while its payment stands, and
\* a dispute won before that is answered by a refund.
KeepsPromise == Promise!Spec
=============================================================================
