------------------------- MODULE SearchServiceProofs --------------------------
(***************************************************************************)
(* Proofs about SearchService, for every set of services and amendments.   *)
(*                                                                         *)
(* Its safety invariants are inductive together.  Of what a step does to   *)
(* the rows, starting a refund is stated once, and so is that the criteria *)
(* of two searches are disjoint.  The action properties and the promise to *)
(* the customer follow from the invariant at the release and at the events *)
(* of a dispute.                                                           *)
(***************************************************************************)
EXTENDS SearchService, TLAPS

\* The inductive invariant.
Inv == /\ TypeOK
       /\ DeliveredOrRefunded
       /\ UnitFollowsCriteria
       /\ RowsCohere

-------------------------------------------------------------------------------
\* A revision is of one search.
LEMMA RevisionsDisjoint ==
  ASSUME NEW s \in Service, NEW t \in Service, s # t
  PROVE  RevisionsOf(s) \cap RevisionsOf(t) = {}
BY ServiceAssumption DEF RevisionsOf, AmendmentsOf

\* The criteria in force are the search's own, and are not a proposal.
LEMMA ActiveIsOwn ==
  ASSUME Inv, NEW s \in Service
  PROVE  /\ active[s] \in RevisionsOf(s)
         /\ active[s] \in Revision
         /\ active[s] \in Amendment => amendment[active[s]] = "ACCEPTED"
         /\ \A t \in Service \ {s} : active[s] \notin RevisionsOf(t)
BY RevisionsDisjoint DEF Inv, TypeOK, RowsCohere, RevisionsOf, AmendmentsOf

\* Starting a refund decides an undecided search and does nothing to another.
LEMMA RefundEffect ==
  ASSUME Inv, NEW s \in Service, NEW reason \in RefundReason \ {"NONE"},
         StartRefund(s, reason)
  PROVE  /\ refund' \in [Service -> RefundReason]
         /\ order' \in [Service -> OrderStatus]
         /\ fulfillment' \in [Service -> Fulfillment]
         /\ allocation' \in [Revision -> Lifecycle]
         /\ \A t \in Service \ {s} :
              /\ refund'[t] = refund[t]
              /\ order'[t] = order[t]
              /\ fulfillment'[t] = fulfillment[t]
         /\ \A r \in Revision \ {active[s]} : allocation'[r] = allocation[r]
         /\ Undecided(s) => /\ refund'[s] = reason
                            /\ order'[s] = "refund_pending"
                            /\ fulfillment'[s] = "CANCELED"
                            /\ allocation'[active[s]] = "SUPERSEDED"
         /\ ~Undecided(s) => UNCHANGED <<refund, order, fulfillment, allocation>>
<1> USE ActiveIsOwn DEF Inv, TypeOK, Fulfillment, OrderStatus, Lifecycle
<1>1. CASE Undecided(s)
  BY <1>1 DEF StartRefund, Cancel
<1>2. CASE ~Undecided(s)
  BY <1>2 DEF StartRefund
<1> QED BY <1>1, <1>2

\* The reasons of the refunds the code starts.
LEMMA Reasons ==
  {"MISSED_ACTIVE_DEADLINE", "ADJUSTMENT_NO_RESPONSE", "ADJUSTMENT_DECLINED",
   "REVISED_CAPACITY_UNAVAILABLE", "DISPUTE_WON_UNDELIVERED"}
    \subseteq RefundReason \ {"NONE"}
BY DEF RefundReason

-------------------------------------------------------------------------------
\* Proposals, their answers and their expiry keep the types.
LEMMA TypeAmendment ==
  ASSUME Inv, NEW m \in Amendment, AmendmentStep(m)
  PROVE  TypeOK'
<1> DEFINE s == ServiceOf[m]
<1>s. s \in Service /\ m \in Revision
  BY ServiceAssumption DEF Revision
<1> USE <1>s, ActiveIsOwn DEF Inv, TypeOK, Fulfillment, Adjustment, Lifecycle,
    serviceVars, amendmentVars, reviewVars, clockVars, jobVars
<1>1. CASE Propose(m)
  BY <1>1 DEF Propose
<1>2. CASE Accept(m)
  BY <1>2 DEF Accept, TransferUnit, DropEvaluations, ScheduleDeadline
<1>3. CASE AcceptWithoutCapacity(m)
  BY <1>3, Reasons, RefundEffect DEF AcceptWithoutCapacity
<1>4. CASE Decline(m)
  BY <1>4, Reasons, RefundEffect DEF Decline
<1>5. CASE ProposalLapses(m)
  BY <1>5 DEF ProposalLapses
<1>6. CASE ProposalJob(m)
  <2>1. CASE ExpireProposal(m)
    BY <1>6, <2>1, Reasons, RefundEffect DEF ProposalJob, ExpireProposal
  <2>2. CASE ~ExpireProposal(m)
    BY <1>6, <2>2 DEF ProposalJob
  <2> QED BY <2>1, <2>2
<1> QED BY <1>1, <1>2, <1>3, <1>4, <1>5, <1>6 DEF AmendmentStep

\* Research, reviews and disputes keep the types.
LEMMA TypeService ==
  ASSUME Inv, NEW s \in Service, ServiceStep(s)
  PROVE  TypeOK'
<1> USE ActiveIsOwn DEF Inv, TypeOK, Fulfillment, OrderStatus, DisputeState,
    Lifecycle, serviceVars, amendmentVars, reviewVars, clockVars, jobVars
<1>1. CASE Evaluate(s)
  BY <1>1 DEF Evaluate
<1>2. CASE AnswerQuestion(s)
  BY <1>2 DEF AnswerQuestion, DropEvaluations
<1>3. CASE \E state \in {"HUMAN_REVIEW", "ADJUSTMENT_REQUIRED"} :
             Review(s, state)
  BY <1>3 DEF Review
<1>4. CASE BeginDelivery(s)
  BY <1>4 DEF BeginDelivery
<1>5. CASE OpenDispute(s)
  BY <1>5 DEF OpenDispute, Cancel
<1>6. CASE WinDispute(s)
  BY <1>6, Reasons, RefundEffect DEF WinDispute
<1>7. CASE LoseDispute(s)
  BY <1>7 DEF LoseDispute
<1> QED BY <1>1, <1>2, <1>3, <1>4, <1>5, <1>6, <1>7 DEF ServiceStep

\* Deliveries and deadlines keep the types.
LEMMA TypeRevision ==
  ASSUME Inv, NEW s \in Service, NEW r \in RevisionsOf(s), RevisionStep(s, r)
  PROVE  TypeOK'
<1>r. r \in Revision
  BY DEF RevisionsOf, AmendmentsOf, Revision
<1> USE <1>r, ActiveIsOwn DEF Inv, TypeOK, Fulfillment, OrderStatus, Lifecycle,
    serviceVars, amendmentVars, reviewVars, clockVars, jobVars
<1>1. CASE AbandonDelivery(r)
  BY <1>1 DEF AbandonDelivery
<1>2. CASE Release(s, r)
  BY <1>2 DEF Release
<1>3. CASE DeadlinePasses(s, r)
  BY <1>3 DEF DeadlinePasses
<1>4. CASE DeadlineJob(s, r)
  <2>1. CASE StartRefund(s, "MISSED_ACTIVE_DEADLINE")
    BY <1>4, <2>1, Reasons, RefundEffect DEF DeadlineJob
  <2>2. CASE ~StartRefund(s, "MISSED_ACTIVE_DEADLINE")
    BY <1>4, <2>2 DEF DeadlineJob
  <2> QED BY <2>1, <2>2
<1> QED BY <1>1, <1>2, <1>3, <1>4 DEF RevisionStep

-------------------------------------------------------------------------------
\* What a refund leaves: the search it decides is canceled, its unit superseded.
LEMMA DecidedRefund ==
  ASSUME Inv, NEW s \in Service, NEW reason \in RefundReason \ {"NONE"},
         StartRefund(s, reason), UNCHANGED <<active, released>>
  PROVE  DeliveredOrRefunded'
<1> SUFFICES ASSUME NEW t \in Service
             PROVE  /\ Released(t)' =>
                         /\ ~Refunding(t)'
                         /\ released'[t] = active'[t]
                         /\ fulfillment'[t] = "DELIVERED"
                         /\ order'[t] = "delivered"
                         /\ allocation'[active'[t]] = "COMPLETED"
                    /\ Refunding(t)' =>
                         /\ fulfillment'[t] = "CANCELED"
                         /\ order'[t] = "refund_pending"
                         /\ allocation'[active'[t]] = "SUPERSEDED"
  BY DEF DeliveredOrRefunded
<1>1. CASE t # s
  <2>1. active[t] \in Revision \ {active[s]}
    BY <1>1, ActiveIsOwn
  <2> QED BY <1>1, <2>1, RefundEffect
          DEF Inv, DeliveredOrRefunded, Released, Refunding
<1>2. CASE t = s /\ Undecided(s)
  BY <1>2, RefundEffect DEF Undecided, Released, Refunding
<1>3. CASE t = s /\ ~Undecided(s)
  BY <1>3, RefundEffect
     DEF Inv, DeliveredOrRefunded, Undecided, Released, Refunding
<1> QED BY <1>1, <1>2, <1>3

\* A search stays delivered or refunded through proposals and answers.
LEMMA DecidedAmendment ==
  ASSUME Inv, NEW m \in Amendment, AmendmentStep(m)
  PROVE  DeliveredOrRefunded'
<1> DEFINE s == ServiceOf[m]
<1>s. s \in Service /\ m \in RevisionsOf(s)
  BY ServiceAssumption DEF RevisionsOf, AmendmentsOf
<1> USE <1>s DEF serviceVars
<1>1. CASE Propose(m)
  BY <1>1 DEF Propose, Inv, TypeOK, DeliveredOrRefunded, Undecided, Released,
     Refunding
<1>2. CASE Accept(m)
  <2>1. Undecided(s)
    BY <1>2 DEF Accept, Acceptable
  <2>2. \A t \in Service \ {s} : active[t] # m /\ active[t] # active[s]
    BY ActiveIsOwn, RevisionsDisjoint
  <2> QED BY <1>2, <2>1, <2>2, ActiveIsOwn DEF Accept, TransferUnit, Inv,
          TypeOK, DeliveredOrRefunded, Undecided, Released, Refunding
<1>3. CASE AcceptWithoutCapacity(m)
  BY <1>3, Reasons, DecidedRefund DEF AcceptWithoutCapacity
<1>4. CASE Decline(m)
  BY <1>4, Reasons, DecidedRefund DEF Decline
<1>5. CASE ProposalLapses(m)
  BY <1>5 DEF ProposalLapses, Inv, DeliveredOrRefunded, Released, Refunding
<1>6. CASE ProposalJob(m)
  <2>1. CASE ExpireProposal(m)
    BY <1>6, <2>1, Reasons, DecidedRefund DEF ProposalJob, ExpireProposal
  <2>2. CASE ~ExpireProposal(m)
    BY <1>6, <2>2 DEF ProposalJob, Inv, DeliveredOrRefunded, Released, Refunding
  <2> QED BY <2>1, <2>2
<1> QED BY <1>1, <1>2, <1>3, <1>4, <1>5, <1>6 DEF AmendmentStep

\* And through research, reviews and disputes.
LEMMA DecidedService ==
  ASSUME Inv, NEW s \in Service, ServiceStep(s)
  PROVE  DeliveredOrRefunded'
<1> USE DEF serviceVars, Inv, DeliveredOrRefunded, Released, Refunding
<1>1. CASE Evaluate(s)
  BY <1>1 DEF Evaluate
<1>2. CASE AnswerQuestion(s)
  BY <1>2 DEF AnswerQuestion
<1>3. CASE \E state \in {"HUMAN_REVIEW", "ADJUSTMENT_REQUIRED"} :
             Review(s, state)
  BY <1>3 DEF Review, TypeOK
<1>4. CASE BeginDelivery(s)
  BY <1>4 DEF BeginDelivery
<1>5. CASE OpenDispute(s)
  <2>1. \A t \in Service \ {s} : active[t] # active[s]
    BY ActiveIsOwn
  <2> QED BY <1>5, <2>1 DEF OpenDispute, Cancel, Undecided, TypeOK
<1>6. CASE WinDispute(s)
  BY <1>6, Reasons, DecidedRefund DEF WinDispute
<1>7. CASE LoseDispute(s)
  BY <1>7 DEF LoseDispute
<1> QED BY <1>1, <1>2, <1>3, <1>4, <1>5, <1>6, <1>7 DEF ServiceStep

\* And through deliveries and deadlines.
LEMMA DecidedRevision ==
  ASSUME Inv, NEW s \in Service, NEW r \in RevisionsOf(s), RevisionStep(s, r)
  PROVE  DeliveredOrRefunded'
<1> USE DEF serviceVars
<1>1. CASE AbandonDelivery(r)
  BY <1>1 DEF AbandonDelivery, Inv, DeliveredOrRefunded, Released, Refunding
<1>2. CASE Release(s, r)
  <2>1. \A t \in Service \ {s} : active[t] # r
    BY <1>2, ActiveIsOwn DEF Release
  <2> QED BY <1>2, <2>1, ActiveIsOwn, ServiceAssumption DEF Release, Releasable,
          Undecided, Inv, TypeOK, DeliveredOrRefunded, Released, Refunding
<1>3. CASE DeadlinePasses(s, r)
  BY <1>3 DEF DeadlinePasses, Inv, DeliveredOrRefunded, Released, Refunding
<1>4. CASE DeadlineJob(s, r)
  <2>1. CASE StartRefund(s, "MISSED_ACTIVE_DEADLINE")
    BY <1>4, <2>1, Reasons, DecidedRefund DEF DeadlineJob
  <2>2. CASE ~StartRefund(s, "MISSED_ACTIVE_DEADLINE")
    BY <1>4, <2>2 DEF DeadlineJob, Inv, DeliveredOrRefunded, Released, Refunding
  <2> QED BY <2>1, <2>2
<1> QED BY <1>1, <1>2, <1>3, <1>4 DEF RevisionStep

-------------------------------------------------------------------------------
\* A refund supersedes the unit of the criteria in force and touches no other.
LEMMA UnitRefund ==
  ASSUME Inv, NEW s \in Service, NEW reason \in RefundReason \ {"NONE"},
         StartRefund(s, reason), UNCHANGED <<active, released>>,
         \A t \in Service \ {s} : dispute'[t] = dispute[t],
         dispute'[s] = "NONE" => dispute[s] = "NONE"
  PROVE  UnitFollowsCriteria'
<1> SUFFICES ASSUME NEW t \in Service
             PROVE  /\ Undecided(t)' /\ dispute'[t] = "NONE" =>
                         allocation'[active'[t]] = "CONSUMED"
                    /\ \A r \in RevisionsOf(t) \ {active'[t]} :
                         allocation'[r] \in {"NONE", "SUPERSEDED"}
  BY DEF UnitFollowsCriteria, RevisionsOf, AmendmentsOf
<1>1. RevisionsOf(t) \subseteq Revision
  BY DEF RevisionsOf, AmendmentsOf, Revision
<1>2. CASE t # s
  <2>1. active[s] \notin RevisionsOf(t) /\ active[t] \in Revision \ {active[s]}
    BY <1>2, ActiveIsOwn
  <2> QED BY <1>1, <1>2, <2>1, RefundEffect
          DEF Inv, UnitFollowsCriteria, Undecided, Released, Refunding
<1>3. CASE t = s /\ Undecided(s)
  BY <1>1, <1>3, RefundEffect
     DEF Inv, UnitFollowsCriteria, Undecided, Released, Refunding
<1>4. CASE t = s /\ ~Undecided(s)
  BY <1>4, RefundEffect
     DEF Inv, UnitFollowsCriteria, Undecided, Released, Refunding
<1> QED BY <1>2, <1>3, <1>4

\* Units follow the criteria through proposals and answers.
LEMMA UnitAmendment ==
  ASSUME Inv, NEW m \in Amendment, AmendmentStep(m)
  PROVE  UnitFollowsCriteria'
<1> DEFINE s == ServiceOf[m]
<1>s. s \in Service /\ m \in RevisionsOf(s)
  BY ServiceAssumption DEF RevisionsOf, AmendmentsOf
<1> USE <1>s DEF serviceVars, RevisionsOf, AmendmentsOf
<1>1. CASE Propose(m)
  BY <1>1 DEF Propose, Inv, UnitFollowsCriteria, Undecided, Released, Refunding
<1>2. CASE Accept(m)
  <2>1. active[s] # m
    BY <1>2, ActiveIsOwn DEF Accept, Acceptable
  <2>2. \A t \in Service \ {s} :
          /\ active[t] # m /\ active[t] # active[s]
          /\ \A r \in RevisionsOf(t) : r # m /\ r # active[s]
    BY ActiveIsOwn, RevisionsDisjoint
  <2>3. /\ allocation'[m] = "CONSUMED"
        /\ allocation'[active[s]] = "SUPERSEDED"
        /\ \A r \in Revision \ {m, active[s]} : allocation'[r] = allocation[r]
        /\ active'[s] = m
        /\ \A t \in Service \ {s} : active'[t] = active[t]
        /\ UNCHANGED <<released, refund, dispute>>
    BY <1>2, <2>1, ActiveIsOwn
       DEF Accept, TransferUnit, Inv, TypeOK, Revision
  <2> QED BY <2>1, <2>2, <2>3, ActiveIsOwn
          DEF Inv, UnitFollowsCriteria, Undecided, Released, Refunding, Revision
<1>3. CASE AcceptWithoutCapacity(m)
  BY <1>3, Reasons, UnitRefund DEF AcceptWithoutCapacity
<1>4. CASE Decline(m)
  BY <1>4, Reasons, UnitRefund DEF Decline
<1>5. CASE ProposalLapses(m)
  BY <1>5 DEF ProposalLapses, Inv, UnitFollowsCriteria, Undecided, Released,
     Refunding
<1>6. CASE ProposalJob(m)
  <2>1. CASE ExpireProposal(m)
    BY <1>6, <2>1, Reasons, UnitRefund DEF ProposalJob, ExpireProposal
  <2>2. CASE ~ExpireProposal(m)
    BY <1>6, <2>2 DEF ProposalJob, Inv, UnitFollowsCriteria, Undecided,
       Released, Refunding
  <2> QED BY <2>1, <2>2
<1> QED BY <1>1, <1>2, <1>3, <1>4, <1>5, <1>6 DEF AmendmentStep

\* And through research, reviews and disputes.
LEMMA UnitService ==
  ASSUME Inv, NEW s \in Service, ServiceStep(s)
  PROVE  UnitFollowsCriteria'
<1> USE DEF serviceVars, Inv, UnitFollowsCriteria, Undecided, Released,
    Refunding, RevisionsOf, AmendmentsOf
<1>1. CASE Evaluate(s)
  BY <1>1 DEF Evaluate
<1>2. CASE AnswerQuestion(s)
  BY <1>2 DEF AnswerQuestion
<1>3. CASE \E state \in {"HUMAN_REVIEW", "ADJUSTMENT_REQUIRED"} :
             Review(s, state)
  BY <1>3 DEF Review
<1>4. CASE BeginDelivery(s)
  BY <1>4 DEF BeginDelivery
<1>5. CASE OpenDispute(s)
  <2>1. \A t \in Service \ {s} :
          active[t] # active[s] /\ active[s] \notin RevisionsOf(t)
    BY ActiveIsOwn
  <2> QED BY <1>5, <2>1, ActiveIsOwn DEF OpenDispute, Cancel, TypeOK, Revision
<1>6. CASE WinDispute(s)
  <2>1. /\ dispute'[s] = "WON"
        /\ \A t \in Service \ {s} : dispute'[t] = dispute[t]
    BY <1>6 DEF WinDispute, TypeOK
  <2>2. /\ StartRefund(s, "DISPUTE_WON_UNDELIVERED")
        /\ UNCHANGED <<active, released>>
    BY <1>6 DEF WinDispute
  <2> HIDE DEF UnitFollowsCriteria
  <2> QED BY <2>1, <2>2, Reasons, UnitRefund
<1>7. CASE LoseDispute(s)
  BY <1>7 DEF LoseDispute, TypeOK
<1> QED BY <1>1, <1>2, <1>3, <1>4, <1>5, <1>6, <1>7 DEF ServiceStep

\* And through deliveries and deadlines.
LEMMA UnitRevision ==
  ASSUME Inv, NEW s \in Service, NEW r \in RevisionsOf(s), RevisionStep(s, r)
  PROVE  UnitFollowsCriteria'
<1> USE DEF serviceVars, RevisionsOf, AmendmentsOf
<1>1. CASE AbandonDelivery(r)
  BY <1>1 DEF AbandonDelivery, Inv, UnitFollowsCriteria, Undecided, Released,
     Refunding
<1>2. CASE Release(s, r)
  <2>1. \A t \in Service \ {s} : active[t] # r /\ r \notin RevisionsOf(t)
    BY RevisionsDisjoint, ActiveIsOwn
  <2>2. Released(s)'
    BY <1>2, ServiceAssumption DEF Release, Released, Inv, TypeOK, Revision
  <2> QED BY <1>2, <2>1, <2>2 DEF Release, Inv, TypeOK, UnitFollowsCriteria,
          Undecided, Released, Refunding, Revision
<1>3. CASE DeadlinePasses(s, r)
  BY <1>3 DEF DeadlinePasses, Inv, UnitFollowsCriteria, Undecided, Released,
     Refunding
<1>4. CASE DeadlineJob(s, r)
  <2>1. CASE StartRefund(s, "MISSED_ACTIVE_DEADLINE")
    BY <1>4, <2>1, Reasons, UnitRefund DEF DeadlineJob
  <2>2. CASE ~StartRefund(s, "MISSED_ACTIVE_DEADLINE")
    BY <1>4, <2>2 DEF DeadlineJob, Inv, UnitFollowsCriteria, Undecided,
       Released, Refunding
  <2> QED BY <2>1, <2>2
<1> QED BY <1>1, <1>2, <1>3, <1>4 DEF RevisionStep

-------------------------------------------------------------------------------
\* A refund disturbs nothing that holds the rows together: it decides a search
\* or leaves it as it was, and supersedes units only.  The proposal it comes
\* with is one that is answered or expires.
LEMMA RowsRefund ==
  ASSUME Inv, NEW s \in Service, NEW reason \in RefundReason \ {"NONE"},
         StartRefund(s, reason),
         UNCHANGED <<active, released, parent, delivering, lapsed>>,
         amendment' \in [Amendment -> Adjustment],
         \A n \in Amendment :
           \/ amendment'[n] = amendment[n]
           \/ /\ amendment[n] = "PROPOSED"
              /\ amendment'[n] \in {"DECLINED", "EXPIRED"},
         \A t \in Service \ {s} : /\ dispute'[t] = dispute[t]
                                  /\ adjustment'[t] = adjustment[t],
         dispute'[s] # "NONE" => dispute[s] # "NONE"
  PROVE  RowsCohere'
<1> USE DEF AmendmentsOf
<1>1. ASSUME NEW t \in Service
      PROVE  /\ active'[t] \in RevisionsOf(t)
             /\ active'[t] \in Amendment => amendment'[active'[t]] = "ACCEPTED"
             /\ dispute'[t] # "NONE" /\ Undecided(t)' =>
                  /\ order'[t] = "cancelled"
                  /\ \A r \in RevisionsOf(t) \cap delivering' :
                       allocation'[r] # "CONSUMED"
  <2>1. /\ active'[t] \in RevisionsOf(t)
        /\ active'[t] \in Amendment => amendment'[active'[t]] = "ACCEPTED"
    BY ActiveIsOwn
  <2>2. CASE t # s
    <3>1. \A r \in RevisionsOf(t) : allocation'[r] = allocation[r]
      BY <2>2, ActiveIsOwn, RefundEffect DEF RevisionsOf, Revision
    <3> QED BY <2>1, <2>2, <3>1, RefundEffect
            DEF Inv, RowsCohere, Undecided, Released, Refunding
  <2>3. CASE t = s /\ Undecided(s)
    BY <2>1, <2>3, RefundEffect DEF Undecided, Released, Refunding
  <2>4. CASE t = s /\ ~Undecided(s)
    BY <2>1, <2>4, RefundEffect DEF Undecided, Released, Refunding
  <2> QED BY <2>2, <2>3, <2>4
<1>2. ASSUME NEW n \in Amendment
      PROVE  /\ amendment'[n] # "ACCEPTED" =>
                  n \notin delivering' /\ \A k \in Amendment : parent'[k] # n
             /\ Acceptable(n)' => adjustment'[ServiceOf[n]] = "PROPOSED"
  <2>1. ServiceOf[n] \in Service
    BY ServiceAssumption
  <2>2. amendment'[n] # "ACCEPTED" => amendment[n] # "ACCEPTED"
    OBVIOUS
  <2>3. Acceptable(n)' => Acceptable(n) /\ ServiceOf[n] # s
    BY <2>1, RefundEffect DEF Acceptable, Undecided, Released, Refunding
  <2> QED BY <2>1, <2>2, <2>3 DEF Inv, RowsCohere
<1> QED BY <1>1, <1>2 DEF RowsCohere, RevisionsOf

\* The rows cohere through proposals and answers.
LEMMA RowsAmendment ==
  ASSUME Inv, NEW m \in Amendment, AmendmentStep(m)
  PROVE  RowsCohere'
<1> DEFINE s == ServiceOf[m]
<1>s. s \in Service /\ m \in RevisionsOf(s) /\ m \in AmendmentsOf(s)
  BY ServiceAssumption DEF RevisionsOf, AmendmentsOf
<1>a. \A n \in Amendment : ServiceOf[n] \in Service
  BY ServiceAssumption
<1> USE <1>s, <1>a
<1>1. CASE Propose(m)
  <2>1. /\ amendment'[m] = "PROPOSED" /\ amendment[m] = "NONE"
        /\ parent'[m] = active[s]
        /\ adjustment'[s] = "PROPOSED"
        /\ \A n \in Amendment \ {m} :
             amendment'[n] = amendment[n] /\ parent'[n] = parent[n]
        /\ \A t \in Service \ {s} : adjustment'[t] = adjustment[t]
    BY <1>1 DEF Propose, Inv, TypeOK
  <2> QED BY <1>1, <2>1, ActiveIsOwn DEF Propose, Inv, RowsCohere, Acceptable,
          Undecided, Released, Refunding, RevisionsOf, AmendmentsOf, reviewVars,
          clockVars
<1>2. CASE Accept(m)
  <2>1. /\ amendment'[m] = "ACCEPTED" /\ amendment[m] = "PROPOSED"
        /\ active'[s] = m
        /\ allocation'[active[s]] # "CONSUMED" \/ active[s] = m
        /\ \A n \in Amendment \ {m} : amendment'[n] = amendment[n]
        /\ \A t \in Service \ {s} :
             active'[t] = active[t] /\ adjustment'[t] = adjustment[t]
        /\ \A r \in Revision \ {m, active[s]} : allocation'[r] = allocation[r]
        /\ m \notin delivering
        /\ UNCHANGED <<delivering, parent, lapsed, released, refund, order,
                       dispute>>
    BY <1>2, ActiveIsOwn DEF Accept, Acceptable, TransferUnit, Inv, TypeOK,
       RowsCohere, clockVars
  <2>2. active[s] # m
    BY <2>1, ActiveIsOwn
  <2>3. \A n \in Amendment : parent[n] # m
    BY <2>1 DEF Inv, RowsCohere
  <2>4. ASSUME NEW t \in Service, NEW r \in RevisionsOf(t) \cap delivering
        PROVE  allocation'[r] = "CONSUMED" => allocation[r] = "CONSUMED"
    BY <2>1, <2>2 DEF RevisionsOf, AmendmentsOf, Revision
  <2>5. ASSUME NEW t \in Service
        PROVE  /\ active'[t] \in RevisionsOf(t)
               /\ active'[t] \in Amendment => amendment'[active'[t]] = "ACCEPTED"
               /\ dispute'[t] # "NONE" /\ Undecided(t)' =>
                    /\ order'[t] = "cancelled"
                    /\ \A r \in RevisionsOf(t) \cap delivering' :
                         allocation'[r] # "CONSUMED"
    BY <2>1, <2>4, ActiveIsOwn
       DEF Inv, RowsCohere, Undecided, Released, Refunding
  <2>6. ASSUME NEW n \in Amendment
        PROVE  /\ amendment'[n] # "ACCEPTED" =>
                    n \notin delivering' /\ \A k \in Amendment : parent'[k] # n
               /\ Acceptable(n)' => adjustment'[ServiceOf[n]] = "PROPOSED"
    BY <2>1, <2>3
       DEF Inv, RowsCohere, Acceptable, Undecided, Released, Refunding
  <2> QED BY <2>5, <2>6 DEF RowsCohere, RevisionsOf, AmendmentsOf
<1>3. CASE AcceptWithoutCapacity(m)
  BY <1>3, Reasons, RowsRefund
     DEF AcceptWithoutCapacity, Acceptable, Inv, TypeOK, Adjustment, clockVars,
         reviewVars
<1>4. CASE Decline(m)
  BY <1>4, Reasons, RowsRefund
     DEF Decline, Inv, TypeOK, Adjustment, clockVars, reviewVars
<1>5. CASE ProposalLapses(m)
  BY <1>5 DEF ProposalLapses, Inv, RowsCohere, Acceptable, Undecided, Released,
     Refunding, RevisionsOf, AmendmentsOf, serviceVars, amendmentVars,
     reviewVars
<1>6. CASE ProposalJob(m)
  <2>1. CASE ExpireProposal(m)
    BY <1>6, <2>1, Reasons, RowsRefund
       DEF ProposalJob, ExpireProposal, Inv, TypeOK, Adjustment, clockVars,
           reviewVars
  <2>2. CASE ~ExpireProposal(m)
    BY <1>6, <2>2 DEF ProposalJob, Inv, RowsCohere, Acceptable, Undecided,
       Released, Refunding, RevisionsOf, AmendmentsOf, clockVars, reviewVars
  <2> QED BY <2>1, <2>2
<1> QED BY <1>1, <1>2, <1>3, <1>4, <1>5, <1>6 DEF AmendmentStep

\* And through research, reviews and disputes.
LEMMA RowsService ==
  ASSUME Inv, NEW s \in Service, ServiceStep(s)
  PROVE  RowsCohere'
<1> USE DEF serviceVars, amendmentVars, reviewVars, clockVars
<1>1. CASE Evaluate(s) \/ AnswerQuestion(s)
  BY <1>1 DEF Evaluate, AnswerQuestion, Inv, RowsCohere, Acceptable, Undecided,
     Released, Refunding, RevisionsOf, AmendmentsOf
<1>2. CASE \E state \in {"HUMAN_REVIEW", "ADJUSTMENT_REQUIRED"} :
             Review(s, state)
  BY <1>2 DEF Review, Inv, RowsCohere, Acceptable, Undecided, Released,
     Refunding, RevisionsOf, AmendmentsOf
<1>3. CASE BeginDelivery(s)
  <2>1. Undecided(s) => dispute[s] = "NONE"
    BY <1>3 DEF BeginDelivery, Selectable, Inv, RowsCohere
  <2>2. /\ delivering' = delivering \cup {active[s]}
        /\ UNCHANGED <<serviceVars, amendmentVars, allocation, dispute, lapsed>>
    BY <1>3 DEF BeginDelivery
  <2>3. \A t \in Service \ {s} : active[s] \notin RevisionsOf(t)
    BY ActiveIsOwn
  <2> QED BY <2>1, <2>2, <2>3, ActiveIsOwn DEF Inv, RowsCohere, Acceptable,
          Undecided, Released, Refunding, RevisionsOf, AmendmentsOf
<1>4. CASE OpenDispute(s)
  <2>1. /\ \A t \in Service \ {s} : dispute'[t] = dispute[t]
        /\ UNCHANGED <<adjustment, active, refund, released, amendmentVars,
                       delivering, lapsed>>
    BY <1>4 DEF OpenDispute, Inv, TypeOK
  <2>2. Undecided(s) => /\ order'[s] = "cancelled"
                        /\ allocation'[active[s]] = "SUPERSEDED"
    BY <1>4, ActiveIsOwn DEF OpenDispute, Cancel, Inv, TypeOK
  <2>3. /\ \A t \in Service \ {s} : order'[t] = order[t]
        /\ \A r \in Revision \ {active[s]} : allocation'[r] = allocation[r]
    BY <1>4 DEF OpenDispute, Cancel, Inv, TypeOK
  <2>4. \A t \in Service : RevisionsOf(t) \subseteq Revision
    BY DEF RevisionsOf, AmendmentsOf, Revision
  <2>5. ASSUME NEW t \in Service, dispute'[t] # "NONE", Undecided(t)'
        PROVE  /\ order'[t] = "cancelled"
               /\ \A r \in RevisionsOf(t) \cap delivering' :
                    allocation'[r] # "CONSUMED"
    <3>1. Undecided(t)
      BY <2>1, <2>5 DEF Undecided, Released, Refunding
    <3>2. CASE t = s
      BY <2>1, <2>2, <2>3, <2>4, <3>1, <3>2 DEF Inv, UnitFollowsCriteria
    <3>3. CASE t # s
      BY <2>1, <2>3, <2>4, <2>5, <3>1, <3>3, ActiveIsOwn DEF Inv, RowsCohere
    <3> QED BY <3>2, <3>3
  <2> QED BY <2>1, <2>5, ServiceAssumption DEF Inv, RowsCohere, Acceptable,
          Undecided, Released, Refunding, RevisionsOf, AmendmentsOf
<1>5. CASE WinDispute(s)
  BY <1>5, Reasons, RowsRefund DEF WinDispute, Inv, TypeOK
<1>6. CASE LoseDispute(s)
  BY <1>6 DEF LoseDispute, Inv, TypeOK, RowsCohere, Acceptable, Undecided,
     Released, Refunding, RevisionsOf, AmendmentsOf
<1> QED BY <1>1, <1>2, <1>3, <1>4, <1>5, <1>6 DEF ServiceStep

\* And through deliveries and deadlines.
LEMMA RowsRevision ==
  ASSUME Inv, NEW s \in Service, NEW r \in RevisionsOf(s), RevisionStep(s, r)
  PROVE  RowsCohere'
<1> USE DEF serviceVars, amendmentVars, reviewVars, clockVars
<1>1. CASE AbandonDelivery(r)
  BY <1>1 DEF AbandonDelivery, Inv, RowsCohere, Acceptable, Undecided, Released,
     Refunding, RevisionsOf, AmendmentsOf
<1>2. CASE Release(s, r)
  <2>1. /\ Released(s)'
        /\ \A t \in Service \ {s} :
             order'[t] = order[t] /\ released'[t] = released[t]
        /\ \A k \in Revision : allocation'[k] # "CONSUMED"
                               \/ allocation'[k] = allocation[k]
        /\ delivering' \subseteq delivering
        /\ UNCHANGED <<adjustment, active, refund, dispute, amendmentVars,
                       lapsed>>
    BY <1>2, ServiceAssumption
       DEF Release, Released, RevisionsOf, AmendmentsOf, Revision, Inv, TypeOK
  <2>2. \A t \in Service : Undecided(t)' => Undecided(t) /\ t # s
    BY <2>1 DEF Undecided, Released, Refunding
  <2>3. ASSUME NEW t \in Service
        PROVE  /\ active'[t] \in RevisionsOf(t)
               /\ active'[t] \in Amendment => amendment'[active'[t]] = "ACCEPTED"
               /\ dispute'[t] # "NONE" /\ Undecided(t)' =>
                    /\ order'[t] = "cancelled"
                    /\ \A k \in RevisionsOf(t) \cap delivering' :
                         allocation'[k] # "CONSUMED"
    BY <2>1, <2>2
       DEF Inv, RowsCohere, RevisionsOf, AmendmentsOf, Revision
  <2>4. ASSUME NEW n \in Amendment
        PROVE  /\ amendment'[n] # "ACCEPTED" =>
                    n \notin delivering' /\ \A k \in Amendment : parent'[k] # n
               /\ Acceptable(n)' => adjustment'[ServiceOf[n]] = "PROPOSED"
    BY <2>1, <2>2, ServiceAssumption DEF Inv, RowsCohere, Acceptable
  <2> QED BY <2>3, <2>4 DEF RowsCohere, RevisionsOf, AmendmentsOf
<1>3. CASE DeadlinePasses(s, r)
  BY <1>3 DEF DeadlinePasses, Inv, RowsCohere, Acceptable, Undecided, Released,
     Refunding, RevisionsOf, AmendmentsOf
<1>4. CASE DeadlineJob(s, r)
  <2>1. CASE StartRefund(s, "MISSED_ACTIVE_DEADLINE")
    BY <1>4, <2>1, Reasons, RowsRefund DEF DeadlineJob, Inv, TypeOK
  <2>2. CASE ~StartRefund(s, "MISSED_ACTIVE_DEADLINE")
    BY <1>4, <2>2 DEF DeadlineJob, Inv, RowsCohere, Acceptable, Undecided,
       Released, Refunding, RevisionsOf, AmendmentsOf
  <2> QED BY <2>1, <2>2
<1> QED BY <1>1, <1>2, <1>3, <1>4 DEF RevisionStep

-------------------------------------------------------------------------------
\* The invariant holds when a search is activated.
LEMMA InitInv == Init => Inv
<1> SUFFICES ASSUME Init PROVE Inv
  OBVIOUS
<1>1. TypeOK
  BY DEF Init, TypeOK, Fulfillment, Adjustment, RefundReason, OrderStatus,
     DisputeState, Lifecycle, Revision
<1>2. DeliveredOrRefunded
  BY DEF Init, DeliveredOrRefunded, Released, Refunding
<1>3. UnitFollowsCriteria
  BY ServiceAssumption DEF Init, UnitFollowsCriteria, RevisionsOf, AmendmentsOf,
     Revision
<1>4. RowsCohere
  <2>1. \A m \in Amendment : parent[m] = None /\ ~Acceptable(m)
    BY DEF Init, Acceptable
  <2> QED BY <2>1, ServiceAssumption
          DEF Init, RowsCohere, RevisionsOf, AmendmentsOf, Revision
<1> QED BY <1>1, <1>2, <1>3, <1>4 DEF Inv

\* Every step keeps it.
LEMMA NextInv == Inv /\ [Next]_vars => Inv'
<1> SUFFICES ASSUME Inv, [Next]_vars PROVE Inv'
  OBVIOUS
<1>1. ASSUME NEW m \in Amendment, AmendmentStep(m) PROVE Inv'
  BY <1>1, TypeAmendment, DecidedAmendment, UnitAmendment, RowsAmendment DEF Inv
<1>2. ASSUME NEW s \in Service, ServiceStep(s) PROVE Inv'
  BY <1>2, TypeService, DecidedService, UnitService, RowsService DEF Inv
<1>3. ASSUME NEW s \in Service, NEW r \in RevisionsOf(s), RevisionStep(s, r)
      PROVE  Inv'
  BY <1>3, TypeRevision, DecidedRevision, UnitRevision, RowsRevision DEF Inv
<1>4. CASE UNCHANGED vars
  BY <1>4 DEF vars, serviceVars, amendmentVars, reviewVars, clockVars, jobVars,
     Inv, TypeOK, DeliveredOrRefunded, UnitFollowsCriteria, RowsCohere,
     Acceptable, Undecided, Released, Refunding, RevisionsOf, AmendmentsOf
<1> QED BY <1>1, <1>2, <1>3, <1>4 DEF Next

\* The inductive invariant holds throughout.
THEOREM Invariance == Spec => []Inv
BY InitInv, NextInv, PTL DEF Spec

\* Type correctness.
THEOREM TypeCorrect == Spec => []TypeOK
<1>1. Inv => TypeOK
  BY DEF Inv
<1> QED BY <1>1, Invariance, PTL

\* A search is delivered or refunded and never both, for any number of
\* proposals, however they, its jobs and its disputes meet.
THEOREM Decided == Spec => []DeliveredOrRefunded
<1>1. Inv => DeliveredOrRefunded
  BY DEF Inv
<1> QED BY <1>1, Invariance, PTL

\* The rows of service, revision, proposal, dispute and refund agree.
THEOREM Consistent == Spec => []RowsCohere
<1>1. Inv => RowsCohere
  BY DEF Inv
<1> QED BY <1>1, Invariance, PTL

\* The criteria in force, and no others, have a unit of capacity.
THEOREM UnitsFollow == Spec => []UnitFollowsCriteria
<1>1. Inv => UnitFollowsCriteria
  BY DEF Inv
<1> QED BY <1>1, Invariance, PTL

-------------------------------------------------------------------------------
\* Only a release makes a search released.
LEMMA ReleasedByRelease ==
  ASSUME Inv, Next, NEW s \in Service, ~Released(s), Released(s)'
  PROVE  \E r \in RevisionsOf(s) : Release(s, r)
<1> USE DEF Released, serviceVars
<1>1. ASSUME NEW m \in Amendment, AmendmentStep(m) PROVE FALSE
  BY <1>1 DEF AmendmentStep, Propose, Accept, AcceptWithoutCapacity, Decline,
     ProposalLapses, ProposalJob
<1>2. ASSUME NEW t \in Service, ServiceStep(t) PROVE FALSE
  BY <1>2 DEF ServiceStep, Evaluate, AnswerQuestion, Review, BeginDelivery,
     OpenDispute, WinDispute, LoseDispute
<1>3. ASSUME NEW t \in Service, NEW r \in RevisionsOf(t), RevisionStep(t, r)
      PROVE  t = s /\ Release(t, r)
  <2>1. Release(t, r)
    BY <1>3 DEF RevisionStep, AbandonDelivery, DeadlinePasses, DeadlineJob
  <2>2. \A u \in Service \ {t} : released'[u] = released[u]
    BY <2>1 DEF Release, Inv, TypeOK
  <2> QED BY <2>1, <2>2
<1> QED BY <1>1, <1>2, <1>3 DEF Next

\* Nothing is released under a proposal the customer may still accept.
THEOREM ReleaseWaits == Spec => ReleaseWaitsForAnswer
<1>1. ASSUME Inv, [Next]_vars, NEW s \in Service, ~Released(s), Released(s)',
             NEW m \in AmendmentsOf(s)
      PROVE  ~Acceptable(m)
  <2>1. Next
    BY <1>1 DEF vars, serviceVars, Released
  <2>2. adjustment[s] # "PROPOSED"
    BY <1>1, <2>1, ReleasedByRelease DEF Release, Releasable
  <2> QED BY <1>1, <2>2 DEF Inv, RowsCohere, AmendmentsOf
<1>2. Inv /\ [Next]_vars =>
        [\A s \in Service : ~Released(s) /\ Released(s)' =>
           \A m \in AmendmentsOf(s) : ~Acceptable(m)]_vars
  BY <1>1
<1> QED BY <1>2, Invariance, PTL DEF Spec, ReleaseWaitsForAnswer

\* A release is of a payment that was never disputed.
LEMMA ReleaseUndisputed ==
  ASSUME Inv, NEW s \in Service, NEW r \in RevisionsOf(s), Release(s, r)
  PROVE  Undecided(s) /\ dispute[s] = "NONE"
BY DEF Release, Releasable, MayComplete, Inv, RowsCohere

\* A dispute stops the delivery of the search it finds undelivered.
THEOREM DisputeStops == Spec => DisputeStopsRelease
<1>1. ASSUME Inv, [Next]_vars, NEW s \in Service, ~Released(s), Released(s)'
      PROVE  dispute[s] = "NONE"
  <2>1. Next
    BY <1>1 DEF vars, serviceVars, Released
  <2> QED BY <1>1, <2>1, ReleasedByRelease, ReleaseUndisputed
<1>2. Inv /\ [Next]_vars =>
        [\A s \in Service :
           ~Released(s) /\ Released(s)' => dispute[s] = "NONE"]_vars
  BY <1>1
<1> QED BY <1>2, Invariance, PTL DEF Spec, DisputeStopsRelease

-------------------------------------------------------------------------------
\* The outcome of a search is a function of its refund and its release.
LEMMA OutcomeKept ==
  ASSUME UNCHANGED <<refund, released>>
  PROVE  Outcomes' = Outcomes
BY DEF Outcomes, OutcomeOf, Released, Refunding

\* Starting a refund is the promise's refund, or nothing.
LEMMA PromiseRefund ==
  ASSUME Inv, NEW s \in Service, NEW reason \in RefundReason \ {"NONE"},
         StartRefund(s, reason), UNCHANGED released
  PROVE  /\ Undecided(s) =>
              /\ Outcomes[s] = "OWED"
              /\ Outcomes' = [Outcomes EXCEPT ![s] = "REFUNDING"]
         /\ ~Undecided(s) => Outcomes[s] # "OWED" /\ Outcomes' = Outcomes
<1>1. CASE Undecided(s)
  <2>1. /\ refund'[s] # "NONE"
        /\ \A t \in Service \ {s} : refund'[t] = refund[t]
    BY <1>1, RefundEffect
  <2> QED BY <1>1, <2>1
          DEF Outcomes, OutcomeOf, Undecided, Released, Refunding
<1>2. CASE ~Undecided(s)
  <2>1. Outcomes' = Outcomes
    BY <1>2, RefundEffect, OutcomeKept
  <2> QED BY <1>2, <2>1
          DEF Outcomes, OutcomeOf, Undecided, Released, Refunding
<1> QED BY <1>1, <1>2

\* Proposals and their answers keep the promise.
LEMMA PromiseAmendment ==
  ASSUME Inv, NEW m \in Amendment, AmendmentStep(m)
  PROVE  [Promise!Next]_(Promise!pvars)
<1> DEFINE s == ServiceOf[m]
<1>s. s \in Service
  BY ServiceAssumption
<1> USE <1>s DEF Promise!pvars, serviceVars
<1>1. ASSUME NEW reason \in RefundReason \ {"NONE"}, StartRefund(s, reason),
             UNCHANGED <<released, dispute>>
      PROVE  [Promise!Next]_(Promise!pvars)
  BY <1>1, PromiseRefund DEF Promise!Next, Promise!Refund
<1>2. CASE Propose(m)
  BY <1>2, OutcomeKept DEF Propose
<1>3. CASE Accept(m)
  BY <1>3, OutcomeKept DEF Accept
<1>4. CASE AcceptWithoutCapacity(m)
  BY <1>1, <1>4, Reasons DEF AcceptWithoutCapacity
<1>5. CASE Decline(m)
  BY <1>1, <1>5, Reasons DEF Decline
<1>6. CASE ProposalLapses(m)
  BY <1>6, OutcomeKept DEF ProposalLapses
<1>7. CASE ProposalJob(m)
  <2>1. CASE ExpireProposal(m)
    BY <1>1, <1>7, <2>1, Reasons DEF ProposalJob, ExpireProposal
  <2>2. CASE ~ExpireProposal(m)
    BY <1>7, <2>2, OutcomeKept DEF ProposalJob
  <2> QED BY <2>1, <2>2
<1> QED BY <1>2, <1>3, <1>4, <1>5, <1>6, <1>7 DEF AmendmentStep

\* Research, reviews and disputes keep it.
LEMMA PromiseService ==
  ASSUME Inv, NEW s \in Service, ServiceStep(s)
  PROVE  [Promise!Next]_(Promise!pvars)
<1> USE DEF Promise!pvars, serviceVars
<1>1. CASE Evaluate(s) \/ AnswerQuestion(s) \/ BeginDelivery(s)
           \/ \E state \in {"HUMAN_REVIEW", "ADJUSTMENT_REQUIRED"} :
                Review(s, state)
  BY <1>1, OutcomeKept DEF Evaluate, AnswerQuestion, BeginDelivery, Review
<1>2. CASE OpenDispute(s)
  <2>1. CASE dispute[s] = "NONE"
    BY <1>2, <2>1, OutcomeKept DEF OpenDispute, Promise!Next, Promise!Open
  <2>2. CASE dispute[s] = "OPEN"
    BY <1>2, <2>2, OutcomeKept DEF OpenDispute, Inv, TypeOK
  <2> QED BY <1>2, <2>1, <2>2 DEF OpenDispute
<1>3. CASE WinDispute(s)
  <2>1. /\ dispute[s] = "OPEN"
        /\ dispute' = [dispute EXCEPT ![s] = "WON"]
        /\ Outcomes' =
             [Outcomes EXCEPT ![s] = IF @ = "OWED" THEN "REFUNDING" ELSE @]
    BY <1>3, Reasons, PromiseRefund DEF WinDispute, Outcomes
  <2> QED BY <2>1 DEF Promise!Next, Promise!Win
<1>4. CASE LoseDispute(s)
  BY <1>4, OutcomeKept DEF LoseDispute, Promise!Next, Promise!Lose
<1> QED BY <1>1, <1>2, <1>3, <1>4 DEF ServiceStep

\* A release is the promise's delivery, and deadlines keep it.
LEMMA PromiseRevision ==
  ASSUME Inv, NEW s \in Service, NEW r \in RevisionsOf(s), RevisionStep(s, r)
  PROVE  [Promise!Next]_(Promise!pvars)
<1> USE DEF Promise!pvars, serviceVars
<1>1. CASE AbandonDelivery(r)
  BY <1>1, OutcomeKept DEF AbandonDelivery
<1>2. CASE Release(s, r)
  <2>1. Undecided(s) /\ dispute[s] = "NONE"
    BY <1>2, ReleaseUndisputed
  <2>2. /\ released'[s] # None
        /\ \A t \in Service \ {s} : released'[t] = released[t]
        /\ UNCHANGED <<refund, dispute>>
    BY <1>2, ServiceAssumption
       DEF Release, Inv, TypeOK, RevisionsOf, AmendmentsOf, Revision
  <2>3. /\ Outcomes[s] = "OWED"
        /\ Outcomes' = [Outcomes EXCEPT ![s] = "DELIVERED"]
    BY <2>1, <2>2 DEF Outcomes, OutcomeOf, Undecided, Released, Refunding
  <2> QED BY <2>1, <2>2, <2>3 DEF Promise!Next, Promise!Deliver
<1>3. CASE DeadlinePasses(s, r)
  BY <1>3, OutcomeKept DEF DeadlinePasses
<1>4. CASE DeadlineJob(s, r)
  <2>1. CASE StartRefund(s, "MISSED_ACTIVE_DEADLINE")
    BY <1>4, <2>1, Reasons, PromiseRefund
       DEF DeadlineJob, Promise!Next, Promise!Refund
  <2>2. CASE ~StartRefund(s, "MISSED_ACTIVE_DEADLINE")
    BY <1>4, <2>2, OutcomeKept DEF DeadlineJob
  <2> QED BY <2>1, <2>2
<1> QED BY <1>1, <1>2, <1>3, <1>4 DEF RevisionStep

\* The service implements the promise: ten jobs or the money back, once, and
\* nothing delivered on a disputed payment.
THEOREM ImplementsPromise == Spec => KeepsPromise
<1>1. Init => Promise!Init
  BY DEF Init, Promise!Init, Outcomes, OutcomeOf, Released, Refunding
<1>2. Inv /\ [Next]_vars => [Promise!Next]_(Promise!pvars)
  <2> SUFFICES ASSUME Inv, [Next]_vars PROVE [Promise!Next]_(Promise!pvars)
    OBVIOUS
  <2>1. CASE UNCHANGED vars
    BY <2>1, OutcomeKept DEF vars, serviceVars, Promise!pvars
  <2> QED BY <2>1, PromiseAmendment, PromiseService, PromiseRevision DEF Next
<1> QED BY <1>1, <1>2, Invariance, PTL DEF Spec, KeepsPromise, Promise!Spec
===============================================================================
