------------------------------ MODULE DraftProofs -----------------------------
(***************************************************************************)
(* Proofs about what becomes of an anonymous draft.                        *)
(*                                                                         *)
(* Feasibility: an offered assessment counts jobs that are still           *)
(* deliverable, for every set of listings, bound and threshold.            *)
(*                                                                         *)
(* DraftDocuments: for any documents, readers and cleaners a hold or a     *)
(* purchase keeps the bytes, a deletion is recorded when it has happened,  *)
(* and a reading when it has a review, although leases run out under       *)
(* readers and cleaners that go on.                                        *)
(***************************************************************************)
EXTENDS Feasibility, DraftDocuments, SequenceTheorems, FiniteSetTheorems, TLAPS

-------------------------------------------------------------------------------
(* Feasibility.                                                              *)

\* What one row of ap_feasibility_assessments can hold.
AssessmentRow ==
  [plan : Nat, basis : Basis, outcome : {"NONE", "LIKELY", "LIMITED", "INFEASIBLE"},
   blocker : {"NONE", "NEEDS_CANDIDATE_INPUT", "NEEDS_HUMAN_REVIEW"},
   live : BOOLEAN, overlapped : BOOLEAN]

\* What the worker can carry.
AssessorRow ==
  [at : {"IDLE", "PLAN", "INVENTORY", "DERIVE", "INSERT", "CHECK", "COMPLETE", "DEFER", "FAIL"},
   plan : Nat, searched : BOOLEAN, basis : Basis, assessment : Nat]

EvaluationRow == [plan : Nat, verdict : Verdict \cup {"NONE"}, live : BOOLEAN]

FeasibilityTypes ==
  /\ criteria \in 1..MaxCriteria
  /\ inquiry \in [1..MaxCriteria -> Asked]
  /\ plans \in Seq(Plan)
  /\ evaluation \in [Snap -> EvaluationRow]
  /\ \A s \in Snap : evaluation[s].plan # 0 => evaluation[s].verdict \in Verdict
  /\ answers \subseteq Snap
  /\ assessments \in Seq(AssessmentRow)
  /\ assessor \in AssessorRow

\* The pair b = <<job snapshot, verdict>> was read from an evaluation of plan p,
\* which may be invalidated since but never overwritten.
ReadFrom(p, b) == evaluation[b[1]].plan = p /\ evaluation[b[1]].verdict = b[2]

\* A plan the worker has read is still there; what it counted was said.
AssessorHolds ==
  /\ assessor.at \in {"INVENTORY", "DERIVE", "INSERT"} => assessor.plan \in 1..Latest
  /\ assessor.at = "INSERT" => \A b \in assessor.basis : ReadFrom(assessor.plan, b)

\* A live assessment is of a searched plan, and an invalidated evaluation it
\* counts is explained by a correction or by an answer that overlapped it.
RowHolds(r) ==
  /\ r.plan \in 1..Latest /\ plans[r.plan].searched
  /\ r.outcome = Outcome(r.basis)
  /\ \A b \in r.basis :
       /\ ReadFrom(r.plan, b)
       /\ evaluation[b[1]].live \/ Superseded(b[1]) \/ r.overlapped

AssessmentsHold ==
  \A a \in 1..Len(assessments) : assessments[a].live => RowHolds(assessments[a])

FeasibilityInv == FeasibilityTypes /\ ClaimIsKept /\ AssessorHolds /\ AssessmentsHold

\* What every step of the same criteria keeps of plans and evaluations.
Grows ==
  /\ Latest \in Nat /\ Latest' \in Nat /\ Latest' >= Latest
  /\ \A p \in 1..Latest : plans[p].searched => plans'[p].searched
  /\ \A s \in Snap : evaluation[s].plan # 0 =>
       evaluation'[s].plan = evaluation[s].plan
       /\ evaluation'[s].verdict = evaluation[s].verdict

\* Only a correction explains an invalidated evaluation under a live assessment.
Explains ==
  \A s \in Snap : /\ Superseded(s) => Superseded(s)'
                  /\ evaluation[s].live => evaluation'[s].live \/ Superseded(s)'

-------------------------------------------------------------------------------
\* A pair of a basis is a job snapshot and a verdict.
LEMMA PairType ==
  ASSUME NEW basis \in Basis, NEW b \in basis
  PROVE  b[1] \in Snap /\ b[2] \in Verdict /\ b = <<b[1], b[2]>>
  BY DEF Basis

\* The worker's plan and what it counted survive a step that only adds.
LEMMA AssessorKept ==
  ASSUME FeasibilityTypes, AssessorHolds, Grows, UNCHANGED assessor
  PROVE  AssessorHolds'
<1>1. assessor.at = "INSERT" => \A b \in assessor.basis : ReadFrom(assessor.plan, b)'
  <2> SUFFICES ASSUME assessor.at = "INSERT", NEW b \in assessor.basis
               PROVE  ReadFrom(assessor.plan, b)'
    OBVIOUS
  <2>1. b[1] \in Snap
    BY PairType DEF FeasibilityTypes, AssessorRow
  <2>2. evaluation[b[1]].plan # 0
    BY DEF AssessorHolds, ReadFrom, Grows
  <2> QED  BY <2>1, <2>2 DEF AssessorHolds, ReadFrom, Grows
<1> QED  BY <1>1 DEF AssessorHolds, Grows

\* So do live assessments, when invalidated evaluations are explained.
LEMMA AssessmentsKept ==
  ASSUME FeasibilityTypes, AssessmentsHold, Grows, Explains, UNCHANGED assessments
  PROVE  AssessmentsHold'
<1> SUFFICES ASSUME NEW a \in 1..Len(assessments), assessments[a].live
             PROVE  RowHolds(assessments[a])'
  BY DEF AssessmentsHold
<1> DEFINE r == assessments[a]
<1>1. r \in AssessmentRow
  BY ElementOfSeq DEF FeasibilityTypes
<1>2. RowHolds(r)
  BY DEF AssessmentsHold
<1>3. r.plan \in 1..Latest' /\ plans'[r.plan].searched
  BY <1>2 DEF RowHolds, Grows
<1>4. ASSUME NEW b \in r.basis
      PROVE  ReadFrom(r.plan, b)'
             /\ (evaluation'[b[1]].live \/ Superseded(b[1])' \/ r.overlapped)
  <2>1. b[1] \in Snap
    BY <1>1, <1>4, PairType DEF AssessmentRow
  <2>2. evaluation[b[1]].plan # 0
    BY <1>2, <1>4 DEF RowHolds, ReadFrom, Grows
  <2> QED  BY <1>2, <1>4, <2>1, <2>2 DEF RowHolds, ReadFrom, Grows, Explains
<1>5. r' = r
  OBVIOUS
<1> HIDE DEF r
<1>6. RowHolds(r)'
  BY <1>2, <1>3, <1>4, <1>5 DEF RowHolds
<1> QED  BY <1>6 DEF r

\* An evidence step withdraws every assessment and keeps their plans.
LEMMA Withdrawal ==
  ASSUME FeasibilityTypes, Withdraw
  PROVE  /\ assessments' \in Seq(AssessmentRow)
         /\ Len(assessments') = Len(assessments)
         /\ AssessmentsHold'
<1>1. assessments \in [1..Len(assessments) -> AssessmentRow] /\ Len(assessments) \in Nat
      /\ DOMAIN assessments = 1..Len(assessments)
  BY LenProperties DEF FeasibilityTypes
<1>2. \A a \in DOMAIN assessments : Withdrawn(assessments[a].plan) \in AssessmentRow
  BY <1>1 DEF Withdrawn, AssessmentRow, Basis
<1>3. assessments' \in [1..Len(assessments) -> AssessmentRow]
  BY <1>1, <1>2 DEF Withdraw
<1>4. assessments' \in Seq(AssessmentRow) /\ Len(assessments') = Len(assessments)
  BY <1>1, <1>3
<1>5. \A a \in 1..Len(assessments) : ~assessments'[a].live
  BY <1>1 DEF Withdraw, Withdrawn
<1> QED  BY <1>4, <1>5 DEF AssessmentsHold

\* Asking again keeps the request typed and never takes a claimed one.
LEMMA AskedAgain ==
  ASSUME FeasibilityTypes, AskAgain, ClaimIsKept, UNCHANGED <<criteria, assessor>>
  PROVE  inquiry' \in [1..MaxCriteria -> Asked] /\ ClaimIsKept'
<1>1. [state |-> "PENDING", assessment |-> 0] \in Asked
  BY DEF Asked
<1> QED  BY <1>1 DEF FeasibilityTypes, AskAgain, Decided, ClaimIsKept, AssessorAt

\* Appending a plan adds one and leaves the others.
LEMMA PlanAdded ==
  ASSUME FeasibilityTypes, NEW x \in Plan, plans' = Append(plans, x)
  PROVE  /\ plans' \in Seq(Plan) /\ Latest' = Latest + 1 /\ Latest \in Nat
         /\ \A p \in 1..Latest : plans'[p] = plans[p]
  BY DEF FeasibilityTypes, Latest

\* Changing one plan leaves the others and their number.
LEMMA PlanChanged ==
  ASSUME FeasibilityTypes, NEW p \in 1..Latest, NEW x \in Plan,
         plans' = [plans EXCEPT ![p] = x]
  PROVE  /\ plans' \in Seq(Plan) /\ Latest' = Latest /\ Latest \in Nat
         /\ plans'[p] = x
         /\ \A q \in 1..Latest : q # p => plans'[q] = plans[q]
<1>1. Latest \in Nat /\ p \in 1..Len(plans) /\ plans \in Seq(Plan)
  BY LenProperties DEF FeasibilityTypes, Latest
<1> QED  BY <1>1, ExceptSeq DEF Latest

\* There are as many rounds as numbered plans.
LEMMA RoundsType == ASSUME FeasibilityTypes PROVE Rounds \in Nat
<1>1. Latest \in Nat
  BY LenProperties DEF FeasibilityTypes, Latest
<1>2. IsFiniteSet(1..Latest)
  BY <1>1, FS_Interval
<1>3. IsFiniteSet({p \in 1..Latest : plans[p].round > 0})
  BY <1>2, FS_Subset
<1> QED  BY <1>3, FS_CardinalityType DEF Rounds

-------------------------------------------------------------------------------
\* A research round is begun.
LEMMA BeginKeeps ==
  ASSUME FeasibilityInv, NEW manual \in BOOLEAN, BeginRound(manual)
  PROVE  FeasibilityInv'
<1> DEFINE x == [round |-> Rounds + 1, members |-> {}, manual |-> manual,
                 searched |-> FALSE, receipt |-> FALSE]
<1>1. /\ Rounds < 3 /\ plans' = Append(plans, x) /\ AskAgain /\ Withdraw
      /\ UNCHANGED <<criteria, evaluation, answers, assessor>>
  BY DEF BeginRound
<1>2. Rounds \in Nat
  BY RoundsType DEF FeasibilityInv
<1>3. x \in Plan
  <2>1. Rounds + 1 \in 0..3
    BY <1>1, <1>2
  <2> QED  BY <2>1 DEF Plan
<1> HIDE DEF x
<1>4. /\ plans' \in Seq(Plan) /\ Latest' = Latest + 1 /\ Latest \in Nat
      /\ \A p \in 1..Latest : plans'[p] = plans[p]
  BY <1>1, <1>3, PlanAdded DEF FeasibilityInv
<1>5. Grows
  <2>1. evaluation' = evaluation
    BY <1>1
  <2> QED  BY <1>4, <2>1 DEF Grows
<1>6. FeasibilityTypes'
  BY <1>1, <1>4, Withdrawal, AskedAgain DEF FeasibilityInv, FeasibilityTypes
<1> QED  BY <1>1, <1>5, <1>6, AssessorKept, Withdrawal, AskedAgain DEF FeasibilityInv

\* A job is admitted to a plan.
LEMMA AdmitKeeps ==
  ASSUME FeasibilityInv, NEW p \in 1..Latest, NEW s \in Snap, Admit(p, s)
  PROVE  FeasibilityInv'
<1> DEFINE x == [plans[p] EXCEPT !.members = @ \cup {s}]
<1>1. /\ plans' = [plans EXCEPT ![p] = x]
      /\ UNCHANGED <<criteria, inquiry, evaluation, answers, assessments, assessor>>
  BY DEF Admit
<1>2. plans[p] \in Plan
  BY ElementOfSeq DEF FeasibilityInv, FeasibilityTypes, Latest
<1>3. x \in Plan /\ x.searched = plans[p].searched /\ plans[p].members \subseteq x.members
  BY <1>2 DEF Plan
<1> HIDE DEF x
<1>4. /\ plans' \in Seq(Plan) /\ Latest' = Latest /\ Latest \in Nat
      /\ plans'[p] = x /\ \A q \in 1..Latest : q # p => plans'[q] = plans[q]
  BY <1>1, <1>3, PlanChanged DEF FeasibilityInv
<1>5. Grows
  BY <1>1, <1>3, <1>4 DEF Grows
<1>6. \A j : Corrected(j) => Corrected(j)'
  BY <1>3, <1>4 DEF Corrected
<1>7. Explains
  BY <1>1, <1>6 DEF Explains, Superseded
<1>8. FeasibilityTypes'
  BY <1>1, <1>4 DEF FeasibilityInv, FeasibilityTypes
<1> QED  BY <1>1, <1>5, <1>7, <1>8, AssessorKept, AssessmentsKept
         DEF FeasibilityInv, ClaimIsKept, AssessorAt

\* A member of a plan is evaluated for the first time.
LEMMA EvaluateKeeps ==
  ASSUME FeasibilityInv, NEW p \in 1..Latest, NEW s \in Snap, NEW verdict \in Verdict,
         Evaluate(p, s, verdict)
  PROVE  FeasibilityInv'
<1>1. /\ evaluation[s].plan = 0
      /\ evaluation' = [evaluation EXCEPT
                          ![s] = [plan |-> p, verdict |-> verdict, live |-> TRUE]]
      /\ UNCHANGED <<criteria, inquiry, plans, answers, assessments, assessor>>
  BY DEF Evaluate
<1>2. Latest \in Nat /\ p \in Nat
  BY LenProperties DEF FeasibilityInv, FeasibilityTypes, Latest
<1>3. [plan |-> p, verdict |-> verdict, live |-> TRUE] \in EvaluationRow
  BY <1>2 DEF EvaluationRow
<1>4. evaluation' \in [Snap -> EvaluationRow]
  BY <1>1, <1>3 DEF FeasibilityInv, FeasibilityTypes
<1>5. evaluation'[s].plan = p /\ evaluation'[s].verdict = verdict /\ evaluation'[s].live
  BY <1>1 DEF FeasibilityInv, FeasibilityTypes
<1>6. \A n \in Snap : n # s => evaluation'[n] = evaluation[n]
  BY <1>1 DEF FeasibilityInv, FeasibilityTypes
<1>7. Latest' = Latest /\ \A j : Corrected(j)' = Corrected(j)
  BY <1>1 DEF Latest, Corrected
<1>8. Grows
  BY <1>1, <1>2, <1>6, <1>7 DEF Grows
<1>9. Explains
  BY <1>5, <1>6, <1>7 DEF Explains, Superseded
<1>10. FeasibilityTypes'
  BY <1>1, <1>4, <1>5, <1>6 DEF FeasibilityInv, FeasibilityTypes
<1> QED  BY <1>1, <1>8, <1>9, <1>10, AssessorKept, AssessmentsKept
         DEF FeasibilityInv, ClaimIsKept, AssessorAt

\* The search of a plan is completed.
LEMMA SearchKeeps ==
  ASSUME FeasibilityInv, NEW p \in 1..Latest, CompleteSearch(p)
  PROVE  FeasibilityInv'
<1> DEFINE x == [plans[p] EXCEPT !.searched = TRUE, !.receipt = TRUE]
<1>1. /\ plans' = [plans EXCEPT ![p] = x] /\ AskAgain
      /\ UNCHANGED <<criteria, evaluation, answers, assessments, assessor>>
  BY DEF CompleteSearch
<1>2. plans[p] \in Plan
  BY ElementOfSeq DEF FeasibilityInv, FeasibilityTypes, Latest
<1>3. x \in Plan /\ x.searched /\ x.members = plans[p].members
  BY <1>2 DEF Plan
<1> HIDE DEF x
<1>4. /\ plans' \in Seq(Plan) /\ Latest' = Latest /\ Latest \in Nat
      /\ plans'[p] = x /\ \A q \in 1..Latest : q # p => plans'[q] = plans[q]
  BY <1>1, <1>3, PlanChanged DEF FeasibilityInv
<1>5. Grows
  BY <1>1, <1>3, <1>4 DEF Grows
<1>6. \A j : Corrected(j) => Corrected(j)'
  BY <1>3, <1>4 DEF Corrected
<1>7. Explains
  BY <1>1, <1>6 DEF Explains, Superseded
<1>8. FeasibilityTypes'
  BY <1>1, <1>4, AskedAgain DEF FeasibilityInv, FeasibilityTypes
<1> QED  BY <1>1, <1>5, <1>7, <1>8, AssessorKept, AssessmentsKept, AskedAgain DEF FeasibilityInv

\* A listing is corrected: its old evaluation lapses and the job is superseded.
LEMMA CorrectKeeps ==
  ASSUME FeasibilityInv, NEW p \in 1..Latest, NEW j \in Listing, CorrectListing(p,
         j) PROVE FeasibilityInv'
<1> DEFINE old == <<j, 0>>
           x == [plans[p] EXCEPT !.round = 0, !.receipt = FALSE,
                                 !.members = (@ \ {old}) \cup {<<j, 1>>}]
<1>1. /\ plans' = Append(plans, x)
      /\ evaluation' = [evaluation EXCEPT ![old].live = FALSE]
      /\ UNCHANGED <<criteria, inquiry, answers, assessments, assessor>>
  BY DEF CorrectListing
<1>2. plans[p] \in Plan
  BY ElementOfSeq DEF FeasibilityInv, FeasibilityTypes, Latest
<1>3. old \in Snap /\ <<j, 1>> \in Snap
  BY DEF Snap
<1>4. x \in Plan /\ <<j, 1>> \in x.members
  <2>1. (plans[p].members \ {old}) \cup {<<j, 1>>} \in SUBSET Snap
    BY <1>2, <1>3 DEF Plan
  <2> HIDE DEF old
  <2>2. x.members = (plans[p].members \ {old}) \cup {<<j, 1>>}
    BY <1>2 DEF Plan
  <2>3. \A n \in 0..3, m \in SUBSET Snap :
          [plans[p] EXCEPT !.round = n, !.receipt = FALSE, !.members = m] \in Plan
    BY <1>2 DEF Plan
  <2>4. 0 \in 0..3
    OBVIOUS
  <2>5. [plans[p] EXCEPT !.round = 0, !.receipt = FALSE,
           !.members = (plans[p].members \ {old}) \cup {<<j, 1>>}] \in Plan
    BY <2>1, <2>3, <2>4, Zenon
  <2>6. x \in Plan
    BY <2>5
  <2> QED  BY <2>2, <2>6
<1> HIDE DEF x
<1>5. /\ plans' \in Seq(Plan) /\ Latest' = Latest + 1 /\ Latest \in Nat
      /\ \A q \in 1..Latest : plans'[q] = plans[q]
  BY <1>1, <1>4, PlanAdded DEF FeasibilityInv
<1>6. plans'[Latest + 1] = x
  BY <1>1, <1>4 DEF FeasibilityInv, FeasibilityTypes, Latest
<1>7. evaluation' \in [Snap -> EvaluationRow]
  BY <1>1, <1>3 DEF FeasibilityInv, FeasibilityTypes, EvaluationRow
<1>8. \A n \in Snap : /\ evaluation'[n].plan = evaluation[n].plan
                      /\ evaluation'[n].verdict = evaluation[n].verdict
                      /\ n # old => evaluation'[n] = evaluation[n]
  BY <1>1, <1>3 DEF FeasibilityInv, FeasibilityTypes, EvaluationRow
<1>9. Grows
  BY <1>5, <1>8 DEF Grows
<1>10. \A i : Corrected(i) => Corrected(i)'
  BY <1>5 DEF Corrected
<1>11. Corrected(j)'
  BY <1>4, <1>5, <1>6 DEF Corrected
<1>12. Superseded(old)'
  BY <1>11 DEF Superseded
<1> HIDE DEF old
<1>13. Explains
  BY <1>8, <1>10, <1>12 DEF Explains, Superseded
<1>14. FeasibilityTypes'
  BY <1>1, <1>5, <1>7, <1>8 DEF FeasibilityInv, FeasibilityTypes
<1> QED  BY <1>1, <1>9, <1>13, <1>14, AssessorKept, AssessmentsKept
         DEF FeasibilityInv, ClaimIsKept, AssessorAt

\* The customer answers: the evaluation and every assessment are withdrawn.
LEMMA AnswerKeeps ==
  ASSUME FeasibilityInv, NEW s \in Snap, Answer(s)
  PROVE  FeasibilityInv'
<1>1. /\ answers' = answers \cup {s}
      /\ evaluation' = [evaluation EXCEPT ![s].live = FALSE]
      /\ AskAgain /\ Withdraw /\ UNCHANGED <<criteria, plans, assessor>>
  BY DEF Answer
<1>2. evaluation' \in [Snap -> EvaluationRow]
  BY <1>1 DEF FeasibilityInv, FeasibilityTypes, EvaluationRow
<1>3. \A n \in Snap : /\ evaluation'[n].plan = evaluation[n].plan
                      /\ evaluation'[n].verdict = evaluation[n].verdict
  BY <1>1 DEF FeasibilityInv, FeasibilityTypes, EvaluationRow
<1>4. Latest \in Nat /\ Latest' = Latest
  BY <1>1, LenProperties DEF FeasibilityInv, FeasibilityTypes, Latest
<1>5. Grows
  BY <1>1, <1>3, <1>4 DEF Grows
<1>6. FeasibilityTypes'
  BY <1>1, <1>2, <1>3, Withdrawal, AskedAgain DEF FeasibilityInv, FeasibilityTypes
<1> QED  BY <1>1, <1>5, <1>6, AssessorKept, Withdrawal, AskedAgain DEF FeasibilityInv

\* New criteria start over; no worker holds the request of the old ones.
LEMMA FinalizeKeeps ==
  ASSUME FeasibilityInv, FinalizeAgain
  PROVE  FeasibilityInv'
<1>1. /\ criteria < MaxCriteria /\ assessor.at = "IDLE" /\ criteria' = criteria + 1
      /\ plans' = <<>> /\ evaluation' = Unevaluated /\ answers' = {} /\ assessments' = <<>>
      /\ UNCHANGED assessor
  BY DEF FeasibilityInv, FinalizeAgain, ClaimIsKept, AssessorAt
<1>2. criteria' \in 1..MaxCriteria
  BY <1>1, FeasibilityAssumption DEF FeasibilityInv, FeasibilityTypes
<1>3. inquiry' \in [1..MaxCriteria -> Asked]
  <2>1. [state |-> "PENDING", assessment |-> 0] \in Asked
    BY DEF Asked
  <2>2. [inquiry[criteria] EXCEPT !.state = IF @ = "PENDING" THEN "STALE" ELSE @] \in Asked
    BY DEF FeasibilityInv, FeasibilityTypes, Asked
  <2> QED  BY <2>1, <2>2 DEF FeasibilityInv, FeasibilityTypes, FinalizeAgain
<1>4. evaluation' \in [Snap -> EvaluationRow] /\ \A s \in Snap : evaluation'[s].plan = 0
  BY <1>1 DEF Unevaluated, EvaluationRow
<1>5. plans' \in Seq(Plan) /\ assessments' \in Seq(AssessmentRow) /\ Len(assessments') = 0
  BY <1>1, EmptySeq
<1>6. FeasibilityTypes'
  BY <1>1, <1>2, <1>3, <1>4, <1>5 DEF FeasibilityInv, FeasibilityTypes
<1> QED  BY <1>1, <1>5, <1>6 DEF FeasibilityInv, ClaimIsKept, AssessorAt, AssessorHolds, AssessmentsHold

-------------------------------------------------------------------------------
\* A step that leaves plans and evaluations alone adds and explains nothing.
LEMMA Still ==
  ASSUME FeasibilityTypes, UNCHANGED <<plans, evaluation>>
  PROVE  Grows /\ Explains /\ Latest' = Latest
<1>1. Latest \in Nat
  BY LenProperties DEF FeasibilityTypes, Latest
<1> QED  BY <1>1 DEF Grows, Explains, Superseded, Corrected, Latest

\* The worker moves to a step at which it holds nothing to check.
LEMMA GoesOn ==
  ASSUME FeasibilityInv, NEW at \in {"PLAN", "DEFER", "CHECK", "COMPLETE", "FAIL"},
         AssessorGoes(at)
  PROVE  assessor' \in AssessorRow /\ AssessorHolds'
<1>1. assessor' \in AssessorRow /\ assessor'.at = at
  BY DEF FeasibilityInv, FeasibilityTypes, AssessorRow, AssessorGoes
<1> QED  BY <1>1 DEF AssessorHolds

\* A step that changes only the worker, and leaves it at work, holds the rest.
LEMMA LooksKeeps ==
  ASSUME FeasibilityInv, Looks, assessor' \in AssessorRow, AssessorHolds',
         assessor.at = "IDLE" => assessor'.at = "IDLE"
  PROVE  FeasibilityInv'
<1>1. UNCHANGED <<criteria, inquiry, plans, evaluation, answers, assessments>>
  BY DEF Looks, researchVars
<1>2. FeasibilityTypes'
  BY <1>1 DEF FeasibilityInv, FeasibilityTypes
<1>3. AssessmentsHold'
  BY <1>1, Still, AssessmentsKept DEF FeasibilityInv
<1> QED  BY <1>1, <1>2, <1>3 DEF FeasibilityInv, ClaimIsKept, AssessorAt

\* The request is claimed.
LEMMA ClaimKeeps ==
  ASSUME FeasibilityInv, ClaimInquiry
  PROVE  FeasibilityInv'
<1>1. /\ inquiry' = [inquiry EXCEPT ![criteria].state = "CLAIMED"]
      /\ AssessorGoes("PLAN")
      /\ UNCHANGED <<criteria, plans, evaluation, answers, assessments>>
  BY DEF ClaimInquiry, researchVars
<1>2. inquiry' \in [1..MaxCriteria -> Asked] /\ inquiry'[criteria].state = "CLAIMED"
  BY <1>1 DEF FeasibilityInv, FeasibilityTypes, Asked
<1>3. assessor' \in AssessorRow /\ AssessorHolds'
  BY <1>1, GoesOn
<1>4. FeasibilityTypes'
  BY <1>1, <1>2, <1>3 DEF FeasibilityInv, FeasibilityTypes
<1>5. AssessmentsHold'
  BY <1>1, Still, AssessmentsKept DEF FeasibilityInv
<1> QED  BY <1>1, <1>2, <1>3, <1>4, <1>5 DEF FeasibilityInv, ClaimIsKept

\* The latest plan is read.
LEMMA LoadPlanKeeps ==
  ASSUME FeasibilityInv, LoadPlan
  PROVE  FeasibilityInv'
<1>1. assessor.at = "PLAN" /\ Looks
  BY DEF LoadPlan, AssessorAt
<1>2. Latest \in Nat /\ Latest' = Latest
  BY <1>1, Still, LenProperties DEF Looks, researchVars, FeasibilityInv,
     FeasibilityTypes, Latest
<1>3. CASE Latest > 0 /\ (plans[Latest].searched => plans[Latest].receipt)
  <2>1. assessor' = [assessor EXCEPT !.at = "INVENTORY", !.plan = Latest,
                                     !.searched = plans[Latest].searched]
    BY <1>3 DEF LoadPlan
  <2>2. plans[Latest] \in Plan
    BY <1>2, <1>3, ElementOfSeq DEF FeasibilityInv, FeasibilityTypes, Latest
  <2>3. plans[Latest].searched \in BOOLEAN
    BY <2>2 DEF Plan
  <2>4. assessor' \in AssessorRow /\ assessor'.at = "INVENTORY" /\ assessor'.plan = Latest
    BY <1>2, <2>1, <2>3 DEF FeasibilityInv, FeasibilityTypes, AssessorRow
  <2>5. AssessorHolds'
    BY <1>2, <1>3, <2>4 DEF AssessorHolds
  <2> QED  BY <1>1, <2>4, <2>5, LooksKeeps
<1>4. CASE ~(Latest > 0 /\ (plans[Latest].searched => plans[Latest].receipt))
  <2>1. AssessorGoes("FAIL")
    BY <1>4 DEF LoadPlan
  <2> QED  BY <1>1, <2>1, GoesOn, LooksKeeps
<1> QED  BY <1>3, <1>4

\* The inventory of the plan is read.
LEMMA LoadInventoryKeeps ==
  ASSUME FeasibilityInv, LoadInventory
  PROVE  FeasibilityInv'
<1>1. assessor.at = "INVENTORY" /\ Looks
  BY DEF LoadInventory, AssessorAt
<1>2. CASE AssessorGoes("FAIL") \/ AssessorGoes("DEFER")
  BY <1>1, <1>2, GoesOn, LooksKeeps
<1>3. CASE AssessorGoes("DERIVE")
  <2>1. assessor' \in AssessorRow /\ assessor'.at = "DERIVE" /\ assessor'.plan = assessor.plan
    BY <1>3 DEF AssessorGoes, FeasibilityInv, FeasibilityTypes, AssessorRow
  <2>2. Latest' = Latest
    BY <1>1, Still DEF Looks, researchVars, FeasibilityInv
  <2>3. AssessorHolds'
    BY <1>1, <2>1, <2>2 DEF FeasibilityInv, AssessorHolds
  <2> QED  BY <1>1, <2>1, <2>3, LooksKeeps
<1> QED  BY <1>2, <1>3 DEF LoadInventory

\* The assessment is derived from the current evaluations of the latest plan.
LEMMA DeriveKeeps ==
  ASSUME FeasibilityInv, Derive
  PROVE  FeasibilityInv'
<1>1. assessor.at = "DERIVE" /\ Looks
  BY DEF Derive, AssessorAt
<1>2. Latest' = Latest /\ Latest \in Nat /\ Latest \in 1..Latest
  BY <1>1, Still, LenProperties
  DEF Looks, researchVars, FeasibilityInv, FeasibilityTypes, Latest, AssessorHolds
<1>3. CASE Covered(Latest)
  <2> DEFINE basis == {<<s, evaluation[s].verdict>> : s \in plans[Latest].members}
  <2>1. assessor' = [assessor EXCEPT !.at = "INSERT", !.plan = Latest, !.basis = basis]
    BY <1>3 DEF Derive
  <2>2. plans[Latest] \in Plan
    BY <1>2, ElementOfSeq DEF FeasibilityInv, FeasibilityTypes, Latest
  <2>3. \A s \in plans[Latest].members :
          s \in Snap /\ evaluation[s].plan = Latest /\ evaluation[s].verdict \in Verdict
    BY <1>2, <1>3, <2>2 DEF Plan, Covered, Evaluated, FeasibilityInv, FeasibilityTypes
  <2>4. basis \in Basis
    BY <2>3 DEF Basis
  <2>5. \A b \in basis : ReadFrom(Latest, b)
    BY <2>3 DEF ReadFrom
  <2> HIDE DEF basis
  <2>6. /\ assessor' \in AssessorRow /\ assessor'.at = "INSERT"
        /\ assessor'.plan = Latest /\ assessor'.basis = basis
    BY <1>2, <2>1, <2>4 DEF FeasibilityInv, FeasibilityTypes, AssessorRow
  <2>7. AssessorHolds'
    BY <1>1, <1>2, <2>5, <2>6 DEF AssessorHolds, ReadFrom, Looks, researchVars
  <2> QED  BY <1>1, <2>6, <2>7, LooksKeeps
<1>4. CASE ~Covered(Latest)
  <2>1. AssessorGoes("FAIL")
    BY <1>4 DEF Derive
  <2> QED  BY <1>1, <2>1, GoesOn, LooksKeeps
<1> QED  BY <1>3, <1>4

\* The assessment is inserted, or refused because the search was reopened.
LEMMA InsertKeeps ==
  ASSUME FeasibilityInv, InsertAssessment
  PROVE  FeasibilityInv'
<1>1. assessor.at = "INSERT" /\ UNCHANGED <<criteria, inquiry, plans, evaluation, answers>>
  BY DEF InsertAssessment, AssessorAt, researchVars
<1>2. CASE plans[assessor.plan].searched
  <2> DEFINE r == [plan |-> assessor.plan, basis |-> assessor.basis,
                   outcome |-> Outcome(assessor.basis), blocker |-> Blocker(assessor.basis),
                   live |-> TRUE,
                   overlapped |-> \E b \in assessor.basis : ~Evaluated(assessor.plan, b[1])]
  <2>1. assessments' = Append(assessments, r)
    BY <1>2 DEF InsertAssessment
  <2>2. /\ Outcome(assessor.basis) \in {"NONE", "LIKELY", "LIMITED", "INFEASIBLE"}
        /\ Blocker(assessor.basis) \in {"NONE", "NEEDS_CANDIDATE_INPUT", "NEEDS_HUMAN_REVIEW"}
    BY DEF Outcome, Blocker
  <2>3. r \in AssessmentRow
    BY <2>2 DEF FeasibilityInv, FeasibilityTypes, AssessorRow, AssessmentRow
  <2>4. r.plan \in 1..Latest /\ plans[r.plan].searched /\ r.outcome = Outcome(r.basis)
    BY <1>1, <1>2 DEF FeasibilityInv, AssessorHolds
  <2>5. \A b \in r.basis : /\ ReadFrom(r.plan, b)
                           /\ evaluation[b[1]].live \/ r.overlapped
    BY <1>1 DEF FeasibilityInv, AssessorHolds, Evaluated
  <2> HIDE DEF r
  <2>6. RowHolds(r)
    BY <2>4, <2>5 DEF RowHolds
  <2>7. /\ assessments' \in Seq(AssessmentRow) /\ Len(assessments) \in Nat
        /\ Len(assessments') = Len(assessments) + 1
        /\ assessments'[Len(assessments) + 1] = r
        /\ \A a \in 1..Len(assessments) : assessments'[a] = assessments[a]
    BY <2>1, <2>3 DEF FeasibilityInv, FeasibilityTypes
  <2>8. \A a \in 1..Len(assessments') : assessments'[a].live => RowHolds(assessments'[a])
    BY <2>6, <2>7 DEF FeasibilityInv, AssessmentsHold
  <2>9. AssessmentsHold'
    BY <1>1, <2>8
    DEF AssessmentsHold, RowHolds, ReadFrom, Superseded, Corrected, Latest
  <2>10. assessor' \in AssessorRow /\ AssessorHolds'
    <3>1. CASE AssessorGoes("FAIL")
      BY <3>1, GoesOn
    <3>2. CASE assessor' = [assessor EXCEPT !.at = "CHECK", !.assessment = Len(assessments')]
      <4>1. \A n \in Nat :
              LET next == [assessor EXCEPT !.at = "CHECK", !.assessment = n]
              IN  next \in AssessorRow /\ next.at = "CHECK"
        BY DEF FeasibilityInv, FeasibilityTypes, AssessorRow
      <4>2. Len(assessments') \in Nat
        BY <2>7
      <4>3. assessor' \in AssessorRow /\ assessor'.at = "CHECK"
        BY <3>2, <4>1, <4>2, Zenon
      <4> QED  BY <4>3 DEF AssessorHolds
    <3> QED  BY <1>2, <3>1, <3>2 DEF InsertAssessment
  <2> QED  BY <1>1, <2>7, <2>9, <2>10 DEF FeasibilityInv, FeasibilityTypes, ClaimIsKept, AssessorAt
<1>3. CASE ~plans[assessor.plan].searched
  <2>1. AssessorGoes("FAIL") /\ Looks
    BY <1>1, <1>3 DEF InsertAssessment, Looks, researchVars
  <2> QED  BY <1>1, <2>1, GoesOn, LooksKeeps
<1> QED  BY <1>2, <1>3

\* The worker lets go of the request: decided, deferred or failed.
LEMMA SettleKeeps ==
  ASSUME FeasibilityInv, NEW state \in {"COMPLETED", "PENDING", "ERROR"},
         NEW a \in Nat,
         Settles(state, a)
  PROVE  FeasibilityInv'
<1>1. /\ inquiry' = [inquiry EXCEPT ![criteria] = [state |-> state, assessment |-> a]]
      /\ assessor' = Idle
      /\ UNCHANGED <<criteria, plans, evaluation, answers, assessments>>
  BY DEF Settles, researchVars
<1>2. [state |-> state, assessment |-> a] \in Asked
  BY DEF Asked
<1>3. assessor' \in AssessorRow /\ assessor'.at = "IDLE"
  BY <1>1 DEF Idle, AssessorRow, Basis
<1>4. FeasibilityTypes'
  BY <1>1, <1>2, <1>3 DEF FeasibilityInv, FeasibilityTypes
<1>5. AssessmentsHold'
  BY <1>1, Still, AssessmentsKept DEF FeasibilityInv
<1> QED  BY <1>3, <1>4, <1>5 DEF FeasibilityInv, ClaimIsKept, AssessorAt, AssessorHolds

\* The worker dies; its claim stays.
LEMMA DeathKeeps ==
  ASSUME FeasibilityInv, AssessorDies
  PROVE  FeasibilityInv'
<1>1. assessor' \in AssessorRow /\ assessor'.at = "IDLE" /\ Looks
  BY DEF AssessorDies, Idle, AssessorRow, Basis
<1>2. AssessorHolds'
  BY <1>1 DEF AssessorHolds
<1> QED  BY <1>1, <1>2, LooksKeeps

-------------------------------------------------------------------------------
\* Nothing is researched, evaluated or assessed when the criteria are finalized.
LEMMA FeasibilityInvInit == FeasibilityInit => FeasibilityInv
<1> SUFFICES ASSUME FeasibilityInit PROVE FeasibilityInv
  OBVIOUS
<1>1. criteria \in 1..MaxCriteria /\ assessor.at = "IDLE" /\ assessor \in AssessorRow
  BY FeasibilityAssumption DEF FeasibilityInit, Idle, AssessorRow, Basis
<1>2. inquiry \in [1..MaxCriteria -> Asked]
  BY DEF FeasibilityInit, Asked
<1>3. evaluation \in [Snap -> EvaluationRow] /\ \A s \in Snap : evaluation[s].plan = 0
  BY DEF FeasibilityInit, Unevaluated, EvaluationRow
<1>4. plans \in Seq(Plan) /\ assessments \in Seq(AssessmentRow) /\ Len(assessments) = 0
  BY EmptySeq DEF FeasibilityInit
<1>5. answers \subseteq Snap
  BY DEF FeasibilityInit
<1> QED  BY <1>1, <1>2, <1>3, <1>4, <1>5
         DEF FeasibilityInv, FeasibilityTypes, ClaimIsKept, AssessorAt,
             AssessorHolds, AssessmentsHold

\* Every step of research, of the worker and of its failures keeps the invariant.
LEMMA FeasibilityInvNext == FeasibilityInv /\ [FeasibilityNext]_feasibilityVars => FeasibilityInv'
<1> SUFFICES ASSUME FeasibilityInv, [FeasibilityNext]_feasibilityVars PROVE FeasibilityInv'
  OBVIOUS
<1>1. CASE Research
  BY <1>1, BeginKeeps, AdmitKeeps, EvaluateKeeps, SearchKeeps, CorrectKeeps,
     AnswerKeeps,
     FinalizeKeeps
  DEF Research
<1>2. CASE CheckAssessment
  <2>1. assessor.at = "CHECK" /\ Looks /\ (AssessorGoes("COMPLETE") \/ AssessorGoes("FAIL"))
    BY <1>2 DEF CheckAssessment, AssessorAt
  <2> QED  BY <2>1, GoesOn, LooksKeeps
<1>3. CASE CompleteInquiry \/ DeferInquiry \/ FailInquiry
  <2>1. assessor.assessment \in Nat
    BY DEF FeasibilityInv, FeasibilityTypes, AssessorRow
  <2> QED  BY <1>3, <2>1, SettleKeeps DEF CompleteInquiry, DeferInquiry, FailInquiry
<1>4. CASE ClaimInquiry \/ LoadPlan \/ LoadInventory \/ Derive \/ InsertAssessment
  BY <1>4, ClaimKeeps, LoadPlanKeeps, LoadInventoryKeeps, DeriveKeeps, InsertKeeps
<1>5. CASE LoadFails
  <2>1. assessor.at # "IDLE" /\ Looks /\ AssessorGoes("FAIL")
    BY <1>5 DEF LoadFails
  <2> QED  BY <2>1, GoesOn, LooksKeeps
<1>6. CASE AssessorDies
  BY <1>6, DeathKeeps
<1>7. CASE UNCHANGED feasibilityVars
  <2>1. Looks /\ UNCHANGED assessor
    BY <1>7 DEF feasibilityVars, Looks, researchVars
  <2>2. assessor' \in AssessorRow /\ AssessorHolds'
    BY <1>7, Still, AssessorKept DEF feasibilityVars, FeasibilityInv, FeasibilityTypes
  <2> QED  BY <2>1, <2>2, LooksKeeps
<1> QED  BY <1>1, <1>2, <1>3, <1>4, <1>5, <1>6, <1>7 DEF FeasibilityNext, Assess

\* What is shown rests on verdicts that still hold, so an offer of enough jobs
\* is one of as many deliverable jobs.
LEMMA FeasibilityInvSafe == FeasibilityInv => FeasibilitySafe
<1> SUFFICES ASSUME FeasibilityInv PROVE FeasibilitySafe
  OBVIOUS
<1>1. ASSUME NEW a \in DOMAIN assessments, Shown(a)
      PROVE  assessments[a] \in AssessmentRow /\ RowHolds(assessments[a])
  <2>1. a \in 1..Len(assessments)
    BY LenProperties DEF FeasibilityInv, FeasibilityTypes
  <2> QED  BY <1>1, <2>1, ElementOfSeq DEF Shown, FeasibilityInv, FeasibilityTypes, AssessmentsHold
<1>2. ShownHolds
  BY <1>1 DEF ShownHolds, RowHolds, ReadFrom, Evaluated
<1>3. ASSUME NEW a \in DOMAIN assessments, Shown(a),
             assessments[a].outcome = "LIKELY", ~assessments[a].overlapped
      PROVE  Cardinality({b \in assessments[a].basis :
               b[2] = "DELIVERABLE" /\ (b[1] \in Deliverable \/ Superseded(b[1]))}) >= Enough
  <2> DEFINE basis == assessments[a].basis
  <2>1. basis \in Basis /\ RowHolds(assessments[a])
    BY <1>1, <1>3 DEF AssessmentRow
  <2>2. \A b \in basis : b[2] = "DELIVERABLE" => b[1] \in Deliverable \/ Superseded(b[1])
    BY <1>3, <2>1, PairType DEF RowHolds, ReadFrom, Deliverable
  <2>3. {b \in basis : b[2] = "DELIVERABLE" /\ (b[1] \in Deliverable \/ Superseded(b[1]))}
        = Says(basis, "DELIVERABLE")
    BY <2>2 DEF Says
  <2>4. Outcome(basis) = "LIKELY"
    BY <1>3, <2>1 DEF RowHolds
  <2> HIDE DEF basis
  <2>5. Cardinality(Says(basis, "DELIVERABLE")) >= Enough
    BY <2>4 DEF Outcome
  <2> QED  BY <2>3, <2>5 DEF basis
<1>4. OfferedIsDeliverable
  BY <1>3 DEF OfferedIsDeliverable
<1> QED  BY <1>2, <1>4 DEF FeasibilityInv, FeasibilitySafe

\* No research, correction, answer, new criteria or death of a worker makes the
\* customer an offer that its own evidence has left (the feasibility worker of
\* supabase-feasibility-store.ts, ap_persist_derived_feasibility_assessment).
THEOREM FeasibilityIsSafe == FeasibilitySpec => []FeasibilitySafe
<1>1. FeasibilitySpec => []FeasibilityInv
  BY FeasibilityInvInit, FeasibilityInvNext, PTL DEF FeasibilitySpec
<1> QED  BY <1>1, FeasibilityInvSafe, PTL

\* The rows of the invariant are those of the type invariant.
LEMMA FeasibilityInvTypes == FeasibilityInv => FeasibilityTypeOK
<1> SUFFICES ASSUME FeasibilityInv PROVE FeasibilityTypeOK
  OBVIOUS
<1>1. \A a \in DOMAIN assessments : assessments[a] \in AssessmentRow
  <2>1. assessments \in Seq(AssessmentRow)
    BY DEF FeasibilityInv, FeasibilityTypes
  <2> QED  BY <2>1, ElementOfSeq, LenProperties
<1>2. \A a \in DOMAIN assessments : assessments[a].basis \in Basis
  BY <1>1 DEF AssessmentRow
<1> QED
  BY <1>2
  DEF FeasibilityInv, FeasibilityTypes, FeasibilityTypeOK, EvaluationRow, AssessorRow

\* Every row of the research, of the assessments and of the worker keeps the shape
\* its table and its code give it.
THEOREM FeasibilityTypesKept == FeasibilitySpec => []FeasibilityTypeOK
<1>1. FeasibilitySpec => []FeasibilityInv
  BY FeasibilityInvInit, FeasibilityInvNext, PTL DEF FeasibilitySpec
<1> QED  BY <1>1, FeasibilityInvTypes, PTL

-------------------------------------------------------------------------------
(* DraftDocuments.                                                           *)

USE DraftDocumentsAssumption

-------------------------------------------------------------------------------
\* The rows of DocumentTypeOK, by name.
DraftRow ==
  [state : {"IN_PROGRESS", "COMPLETE", "LOCKED_TO_CHECKOUT", "EXPIRED"},
   live : BOOLEAN, hold : BOOLEAN]
DocumentRow ==
  [state : {"ABSENT", "QUARANTINED", "EXTRACTING", "FAILED", "SUPERSEDED"},
   current : BOOLEAN, ready : BOOLEAN, parsed : BOOLEAN, failure : BOOLEAN,
   retention : {"ACTIVE", "DELETE_PENDING", "DELETED"}]
OwnerRow ==
  [at : {"IDLE", "STORED", "UNDO", "QUEUE"}, document : Document \cup {Nothing}]
JobRow ==
  [state : {"NONE", "PENDING", "CLAIMED", "COMPLETED", "FAILED"},
   attempts : 0 .. 3, holder : Reader \cup {Nothing}, lease : BOOLEAN, due : BOOLEAN]
ReaderRow ==
  [at : {"IDLE", "NEXT", "DOWNLOAD", "EXTRACTED", "REVIEWED", "REFUSED"},
   batch : SUBSET Document, document : Document \cup {Nothing}]
CleanRow ==
  [state : {"NONE", "LEASED", "DELETE_AUTHORIZED", "COMPLETED"},
   holder : Cleaner \cup {Nothing}, lease : BOOLEAN]
CleanerRow ==
  [at : {"IDLE", "NEXT", "AUTHORIZE", "REMOVE", "REMOVED", "FAILED"},
   batch : SUBSET Document, document : Document \cup {Nothing}]

DocumentTypes ==
  /\ draft \in DraftRow
  /\ document \in [Document -> DocumentRow]
  /\ stored \in SUBSET Document
  /\ undone \in SUBSET Document
  /\ owner \in OwnerRow
  /\ retries \in 0 .. MaxRetries
  /\ job \in [Document -> JobRow]
  /\ reader \in [Reader -> ReaderRow]
  /\ cleanup \in [Document -> CleanRow]
  /\ cleaner \in [Cleaner -> CleanerRow]

\* A process that is at work is at work on a document.
AtWork ==
  /\ owner.at # "IDLE" => owner.document \in Document
  /\ \A r \in Reader :
       reader[r].at \notin {"IDLE", "NEXT"} => reader[r].document \in Document
  /\ \A c \in Cleaner :
       cleaner[c].at \notin {"IDLE", "NEXT"} => cleaner[c].document \in Document

\* What the steps write into a row is a row.
LEMMA DocumentFields ==
  ASSUME NEW r \in DocumentRow
  PROVE  /\ [r EXCEPT !.current = FALSE, !.state = "SUPERSEDED"] \in DocumentRow
         /\ [r EXCEPT !.state = "QUARANTINED", !.parsed = FALSE, !.failure = FALSE]
              \in DocumentRow
         /\ [r EXCEPT !.state = "FAILED", !.failure = TRUE] \in DocumentRow
         /\ [r EXCEPT !.state = "EXTRACTING", !.ready = TRUE, !.parsed = TRUE,
                      !.failure = FALSE] \in DocumentRow
         /\ [r EXCEPT !.retention = "DELETE_PENDING"] \in DocumentRow
         /\ [r EXCEPT !.retention = "DELETED"] \in DocumentRow
BY DEF DocumentRow

\* So is what the steps write into a job or a cleanup row.
LEMMA JobFields ==
  ASSUME NEW r \in JobRow
  PROVE  /\ [r EXCEPT !.state = "PENDING", !.attempts = 0, !.due = TRUE] \in JobRow
         /\ \A q \in Reader : r.attempts < 3 =>
              [r EXCEPT !.state = "CLAIMED", !.attempts = @ + 1, !.holder = q,
                        !.lease = TRUE] \in JobRow
         /\ [r EXCEPT !.state = "PENDING", !.due = TRUE] \in JobRow
         /\ [r EXCEPT !.state = "FAILED"] \in JobRow
         /\ \A next \in {"COMPLETED", "FAILED", "PENDING"} :
              [r EXCEPT !.state = next, !.holder = Nothing, !.lease = FALSE,
                        !.due = FALSE] \in JobRow
         /\ [r EXCEPT !.lease = FALSE] \in JobRow
         /\ [r EXCEPT !.due = TRUE] \in JobRow
<1>1. \A n \in 0 .. 3, q \in Reader :
        [r EXCEPT !.state = "CLAIMED", !.attempts = n, !.holder = q, !.lease = TRUE]
          \in JobRow
  BY DEF JobRow
<1>2. \A n \in 0 .. 3 :
        [r EXCEPT !.state = "PENDING", !.attempts = n, !.due = TRUE] \in JobRow
  BY DEF JobRow
<1>3. /\ [r EXCEPT !.state = "FAILED"] \in JobRow
      /\ \A next \in {"COMPLETED", "FAILED", "PENDING"} :
           [r EXCEPT !.state = next, !.holder = Nothing, !.lease = FALSE,
                     !.due = FALSE] \in JobRow
      /\ [r EXCEPT !.lease = FALSE] \in JobRow
      /\ [r EXCEPT !.due = TRUE] \in JobRow
  BY DEF JobRow
<1>4. [r EXCEPT !.state = "PENDING", !.due = TRUE] \in JobRow
  BY DEF JobRow
<1>5. 0 \in 0 .. 3 /\ (r.attempts < 3 => r.attempts + 1 \in 0 .. 3)
  BY DEF JobRow
<1> QED  BY <1>1, <1>2, <1>3, <1>4, <1>5

\* What an upload and a claim start with are rows.
LEMMA FreshRows ==
  /\ [Missing EXCEPT !.state = "QUARANTINED", !.current = TRUE] \in DocumentRow
  /\ [NoJob EXCEPT !.state = "PENDING", !.due = TRUE] \in JobRow
  /\ [NoClean EXCEPT !.state = "COMPLETED"] \in CleanRow
<1>1. [Missing EXCEPT !.state = "QUARANTINED", !.current = TRUE] \in DocumentRow
  BY DEF DocumentRow, Missing
<1>2. [NoJob EXCEPT !.state = "PENDING", !.due = TRUE] \in JobRow
  <2>1. 0 \in 0 .. 3
    OBVIOUS
  <2>2. NoJob \in JobRow
    BY <2>1, Zenon DEF JobRow, NoJob
  <2> QED  BY <2>2, JobFields
<1>3. [NoClean EXCEPT !.state = "COMPLETED"] \in CleanRow
  BY DEF CleanRow, NoClean
<1> QED  BY <1>1, <1>2, <1>3

\* What the cleaners write into their rows are rows.
LEMMA CleanFields ==
  ASSUME NEW r \in CleanRow
  PROVE  /\ [r EXCEPT !.state = "DELETE_AUTHORIZED"] \in CleanRow
         /\ [r EXCEPT !.lease = TRUE] \in CleanRow
         /\ [r EXCEPT !.lease = FALSE] \in CleanRow
BY DEF CleanRow

\* Every step keeps the types.
LEMMA DocumentTypesNext ==
  ASSUME DocumentTypes, AtWork, [DocumentNext]_documentVars PROVE DocumentTypes'
<1> USE DEF DocumentTypes, ownerVars, readVars, cleanupVars
<1>1. ASSUME NEW d \in Document, StoreUpload(d) PROVE DocumentTypes'
  <2>1. stored' \in SUBSET Document
    BY <1>1 DEF StoreUpload
  <2>2. owner' \in OwnerRow
    BY <1>1 DEF StoreUpload, Waits, OwnerRow
  <2> QED  BY <1>1, <2>1, <2>2 DEF StoreUpload
<1>2. ASSUME RegisterUpload PROVE DocumentTypes'
  <2>1. document' \in [Document -> DocumentRow]
    <3> DEFINE fresh == [Missing EXCEPT !.state = "QUARANTINED", !.current = TRUE]
               old(e) == [document[e] EXCEPT !.current = FALSE, !.state = "SUPERSEDED"]
    <3>1. \/ document' = document
          \/ document' = [e \in Document |->
               IF e = owner.document THEN fresh
               ELSE IF document[e].current THEN old(e) ELSE document[e]]
      BY <1>2 DEF RegisterUpload
    <3>2. fresh \in DocumentRow
      BY FreshRows
    <3>3. ASSUME NEW e \in Document PROVE old(e) \in DocumentRow
      BY DocumentFields
    <3> HIDE DEF fresh, old
    <3> QED  BY <3>1, <3>2, <3>3
  <2>2. job' \in [Document -> JobRow]
    <3> DEFINE fresh == [NoJob EXCEPT !.state = "PENDING", !.due = TRUE]
    <3>1. job' = job \/ job' = [job EXCEPT ![owner.document] = fresh]
      BY <1>2 DEF RegisterUpload
    <3>2. fresh \in JobRow
      BY FreshRows
    <3> HIDE DEF fresh
    <3> QED  BY <3>1, <3>2
  <2>3. owner' \in OwnerRow
    <3>1. owner.document \in Document
      BY <1>2 DEF RegisterUpload, AtWork
    <3>2. owner' \in {[at |-> "IDLE", document |-> Nothing],
                      [at |-> "UNDO", document |-> owner.document]}
      BY <1>2 DEF RegisterUpload, Waits, Answered
    <3> QED  BY <3>1, <3>2 DEF OwnerRow
  <2> QED  BY <1>2, <2>1, <2>2, <2>3 DEF RegisterUpload
<1>3. ASSUME UndoUpload PROVE DocumentTypes'
  <2>1. stored' \in SUBSET Document
    BY <1>3 DEF UndoUpload
  <2>2. undone' \in SUBSET Document
    BY <1>3 DEF UndoUpload, AtWork
  <2>3. owner' \in OwnerRow
    BY <1>3 DEF UndoUpload, Waits, Answered, OwnerRow
  <2> QED  BY <1>3, <2>1, <2>2, <2>3 DEF UndoUpload
<1>4. ASSUME NEW d \in Document, RemoveDocument(d) PROVE DocumentTypes'
  <2>1. document' \in [Document -> DocumentRow]
    BY <1>4, DocumentFields DEF RemoveDocument
  <2> QED  BY <1>4, <2>1 DEF RemoveDocument
<1>5. ASSUME NEW d \in Document, RetryDocument(d) PROVE DocumentTypes'
  <2>1. document' \in [Document -> DocumentRow]
    BY <1>5, DocumentFields DEF RetryDocument
  <2>2. retries' \in 0 .. MaxRetries
    BY <1>5 DEF RetryDocument
  <2>3. owner' \in OwnerRow
    BY <1>5 DEF RetryDocument, Waits, OwnerRow
  <2> QED  BY <1>5, <2>1, <2>2, <2>3 DEF RetryDocument
<1>6. ASSUME QueueRetry PROVE DocumentTypes'
  <2>1. job' \in [Document -> JobRow]
    BY <1>6, JobFields DEF QueueRetry
  <2>2. owner' \in OwnerRow
    BY <1>6 DEF QueueRetry, Waits, Answered, OwnerRow
  <2> QED  BY <1>6, <2>1, <2>2 DEF QueueRetry
<1>7. ASSUME HandlerDies PROVE DocumentTypes'
  <2>1. owner' \in OwnerRow
    BY <1>7 DEF HandlerDies, Waits, Answered, OwnerRow
  <2> QED  BY <1>7, <2>1 DEF HandlerDies
<1>8. ASSUME FinalizeDraft PROVE DocumentTypes'
  <2>1. draft' \in DraftRow
    BY <1>8 DEF FinalizeDraft, DraftGoes, DraftRow
  <2> QED  BY <1>8, <2>1 DEF FinalizeDraft, DraftGoes
<1>9. ASSUME EditDraft PROVE DocumentTypes'
  <2>1. draft' \in DraftRow
    BY <1>9 DEF EditDraft, DraftGoes, DraftRow
  <2> QED  BY <1>9, <2>1 DEF EditDraft, DraftGoes
<1>10. ASSUME BuyDraft PROVE DocumentTypes'
  <2>1. draft' \in DraftRow
    BY <1>10 DEF BuyDraft, DraftGoes, DraftRow
  <2> QED  BY <1>10, <2>1 DEF BuyDraft, DraftGoes
<1>11. ASSUME NEW r \in Reader, ClaimReads(r) PROVE DocumentTypes'
  <2>1. job' \in [Document -> JobRow]
    BY <1>11, JobFields DEF ClaimReads
  <2>2. reader' \in [Reader -> ReaderRow]
    BY <1>11 DEF ClaimReads, ReaderRow
  <2> QED  BY <1>11, <2>1, <2>2 DEF ClaimReads
<1>12. ASSUME NEW r \in Reader, NextRead(r) PROVE DocumentTypes'
  <2>1. reader' \in [Reader -> ReaderRow]
    BY <1>12 DEF NextRead, Resting, ReaderRow
  <2> QED  BY <1>12, <2>1 DEF NextRead
<1>13. ASSUME NEW r \in Reader, Download(r) PROVE DocumentTypes'
  <2>1. reader' \in [Reader -> ReaderRow]
    BY <1>13 DEF Download, ReaderGoes, ReaderRow
  <2> QED  BY <1>13, <2>1 DEF Download
<1>14. ASSUME NEW r \in Reader, PersistReview(r) PROVE DocumentTypes'
  <2>1. document' \in [Document -> DocumentRow]
    <3> DEFINE d == reader[r].document
    <3>1. d \in Document
      BY <1>14 DEF PersistReview, ReaderAt, AtWork
    <3>2. document[d] \in DocumentRow
      BY <3>1
    <3>3. \/ document' = document
          \/ document' = [document EXCEPT ![d] = [@ EXCEPT !.state = "FAILED", !.failure = TRUE]]
          \/ document' = [document EXCEPT ![d] = [@ EXCEPT !.state = "EXTRACTING", !.ready = TRUE,
                                             !.parsed = TRUE, !.failure = FALSE]]
      BY <1>14 DEF PersistReview, Reads
    <3>4. [document[d] EXCEPT !.state = "FAILED", !.failure = TRUE] \in DocumentRow
      BY <3>2, DocumentFields
    <3>5. [document[d] EXCEPT !.state = "EXTRACTING", !.ready = TRUE,
                                             !.parsed = TRUE, !.failure = FALSE] \in DocumentRow
      BY <3>2, DocumentFields
    <3> QED  BY <3>1, <3>3, <3>4, <3>5
  <2>2. reader' \in [Reader -> ReaderRow]
    BY <1>14 DEF PersistReview, ReaderGoes, ReaderRow
  <2> QED  BY <1>14, <2>1, <2>2 DEF PersistReview
<1>15. ASSUME NEW r \in Reader, CompleteRead(r) PROVE DocumentTypes'
  <2>1. job' \in [Document -> JobRow]
    <3> DEFINE d == reader[r].document
               done(next) == [job[d] EXCEPT !.state = next, !.holder = Nothing,
                                            !.lease = FALSE, !.due = FALSE]
    <3>1. d \in Document
      BY <1>15 DEF CompleteRead, AtWork
    <3>2. job[d] \in JobRow
      BY <3>1
    <3>3. \A next \in {"COMPLETED", "FAILED", "PENDING"} : done(next) \in JobRow
      BY <3>2, JobFields
    <3>4. \/ job' = job
          \/ \E next \in {"COMPLETED", "FAILED", "PENDING"} :
               job' = [job EXCEPT ![d] = done(next)]
      BY <1>15 DEF CompleteRead, Reads
    <3> HIDE DEF d, done
    <3> QED  BY <3>1, <3>3, <3>4
  <2>2. reader' \in [Reader -> ReaderRow]
    BY <1>15 DEF CompleteRead, ReaderGoes, Resting, ReaderRow
  <2> QED  BY <1>15, <2>1, <2>2 DEF CompleteRead
<1>16. ASSUME NEW r \in Reader, ReaderDies(r) PROVE DocumentTypes'
  <2>1. reader' \in [Reader -> ReaderRow]
    BY <1>16 DEF ReaderDies, Resting, ReaderRow
  <2> QED  BY <1>16, <2>1 DEF ReaderDies
<1>17. ASSUME NEW c \in Cleaner, ClaimCleanup(c) PROVE DocumentTypes'
  <2>1. cleanup' \in [Document -> CleanRow]
    BY <1>17 DEF ClaimCleanup, CleanRow
  <2>2. cleaner' \in [Cleaner -> CleanerRow]
    BY <1>17 DEF ClaimCleanup, CleanerRow
  <2> QED  BY <1>17, <2>1, <2>2 DEF ClaimCleanup
<1>18. ASSUME NEW c \in Cleaner, NextCleanup(c) PROVE DocumentTypes'
  <2>1. cleaner' \in [Cleaner -> CleanerRow]
    BY <1>18 DEF NextCleanup, Resting, CleanerRow
  <2> QED  BY <1>18, <2>1 DEF NextCleanup
<1>19. ASSUME NEW c \in Cleaner, AuthorizeDelete(c) PROVE DocumentTypes'
  <2>1. draft' \in DraftRow
    BY <1>19 DEF AuthorizeDelete, DraftRow
  <2>2. document' \in [Document -> DocumentRow]
    <3> DEFINE d == cleaner[c].document
    <3>1. d \in Document
      BY <1>19 DEF AuthorizeDelete, CleanerAt, AtWork
    <3>2. document[d] \in DocumentRow
      BY <3>1
    <3>3. \/ document' = document
          \/ document' = [document EXCEPT ![d] = [@ EXCEPT !.retention = "DELETE_PENDING"]]
      BY <1>19 DEF AuthorizeDelete, Cleans
    <3>4. [document[d] EXCEPT !.retention = "DELETE_PENDING"] \in DocumentRow
      BY <3>2, DocumentFields
    <3> QED  BY <3>1, <3>3, <3>4
  <2>3. cleanup' \in [Document -> CleanRow]
    <3> DEFINE d == cleaner[c].document
    <3>1. d \in Document
      BY <1>19 DEF AuthorizeDelete, CleanerAt, AtWork
    <3>2. cleanup[d] \in CleanRow
      BY <3>1
    <3>3. \/ cleanup' = cleanup
          \/ cleanup' = [cleanup EXCEPT ![d] = [@ EXCEPT !.state = "DELETE_AUTHORIZED"]]
      BY <1>19 DEF AuthorizeDelete, Cleans
    <3>4. [cleanup[d] EXCEPT !.state = "DELETE_AUTHORIZED"] \in CleanRow
      BY <3>2, CleanFields
    <3> QED  BY <3>1, <3>3, <3>4
  <2>4. cleaner' \in [Cleaner -> CleanerRow]
    BY <1>19 DEF AuthorizeDelete, CleanerGoes, CleanerRow
  <2> QED  BY <1>19, <2>1, <2>2, <2>3, <2>4 DEF AuthorizeDelete
<1>20. ASSUME NEW c \in Cleaner, RemoveBytes(c) PROVE DocumentTypes'
  <2>1. stored' \in SUBSET Document
    BY <1>20 DEF RemoveBytes
  <2>2. cleaner' \in [Cleaner -> CleanerRow]
    BY <1>20 DEF RemoveBytes, CleanerGoes, CleanerRow
  <2> QED  BY <1>20, <2>1, <2>2 DEF RemoveBytes
<1>21. ASSUME NEW c \in Cleaner, FinishDelete(c) PROVE DocumentTypes'
  <2>1. document' \in [Document -> DocumentRow]
    <3> DEFINE d == cleaner[c].document
    <3>1. d \in Document
      BY <1>21 DEF FinishDelete, AtWork
    <3>2. document[d] \in DocumentRow
      BY <3>1
    <3>3. \/ document' = document
          \/ document' = [document EXCEPT ![d] = [@ EXCEPT !.retention = "DELETED"]]
      BY <1>21 DEF FinishDelete, Cleans
    <3>4. [document[d] EXCEPT !.retention = "DELETED"] \in DocumentRow
      BY <3>2, DocumentFields
    <3> QED  BY <3>1, <3>3, <3>4
  <2>2. cleanup' \in [Document -> CleanRow]
    <3> DEFINE d == cleaner[c].document
    <3>1. d \in Document
      BY <1>21 DEF FinishDelete, AtWork
    <3>2. cleanup[d] \in CleanRow
      BY <3>1
    <3>3. \/ cleanup' = cleanup
          \/ cleanup' = [cleanup EXCEPT ![d] = [@ EXCEPT !.lease = TRUE]]
          \/ cleanup' = [cleanup EXCEPT ![d] = [NoClean EXCEPT !.state = "COMPLETED"]]
      BY <1>21 DEF FinishDelete, Cleans
    <3>4. [cleanup[d] EXCEPT !.lease = TRUE] \in CleanRow
      BY <3>2, CleanFields
    <3>5. [NoClean EXCEPT !.state = "COMPLETED"] \in CleanRow
      BY FreshRows
    <3> QED  BY <3>1, <3>3, <3>4, <3>5
  <2>3. cleaner' \in [Cleaner -> CleanerRow]
    BY <1>21 DEF FinishDelete, CleanerGoes, CleanerRow
  <2> QED  BY <1>21, <2>1, <2>2, <2>3 DEF FinishDelete
<1>22. ASSUME NEW c \in Cleaner, CleanerDies(c) PROVE DocumentTypes'
  <2>1. cleaner' \in [Cleaner -> CleanerRow]
    BY <1>22 DEF CleanerDies, Resting, CleanerRow
  <2> QED  BY <1>22, <2>1 DEF CleanerDies
<1>23. ASSUME DraftExpires PROVE DocumentTypes'
  <2>1. draft' \in DraftRow
    BY <1>23 DEF DraftExpires, DraftRow
  <2> QED  BY <1>23, <2>1 DEF DraftExpires
<1>24. ASSUME ChangeHold PROVE DocumentTypes'
  <2>1. draft' \in DraftRow
    BY <1>24 DEF ChangeHold, DraftRow
  <2> QED  BY <1>24, <2>1 DEF ChangeHold
<1>25. ASSUME NEW d \in Document, ReadLeaseLapses(d) PROVE DocumentTypes'
  <2>1. job' \in [Document -> JobRow]
    BY <1>25, JobFields DEF ReadLeaseLapses
  <2> QED  BY <1>25, <2>1 DEF ReadLeaseLapses
<1>26. ASSUME NEW d \in Document, ReadComesDue(d) PROVE DocumentTypes'
  <2>1. job' \in [Document -> JobRow]
    BY <1>26, JobFields DEF ReadComesDue
  <2> QED  BY <1>26, <2>1 DEF ReadComesDue
<1>27. ASSUME NEW d \in Document, CleanupLeaseLapses(d) PROVE DocumentTypes'
  <2>1. cleanup' \in [Document -> CleanRow]
    BY <1>27, CleanFields DEF CleanupLeaseLapses
  <2> QED  BY <1>27, <2>1 DEF CleanupLeaseLapses
<1>28. CASE UNCHANGED documentVars
  BY <1>28 DEF documentVars
<1> QED
  BY <1>1, <1>2, <1>3, <1>4, <1>5, <1>6, <1>7, <1>8, <1>9, <1>10, <1>11, <1>12,
     <1>13, <1>14, <1>15, <1>16, <1>17, <1>18, <1>19, <1>20, <1>21, <1>22, <1>23,
     <1>24, <1>25, <1>26, <1>27, <1>28
  DEF DocumentNext, OwnerStep, Read, Clean, DocumentTime

-------------------------------------------------------------------------------
\* The rest of the inductive invariant. A document no one registered has no
\* review; a registration comes after the upload, and once.
RegistersOnce ==
  /\ \A d \in Document : document[d].state = "ABSENT" =>
       ~document[d].ready /\ ~document[d].current /\ document[d].retention = "ACTIVE"
  /\ owner.at = "STORED" => document[owner.document].state = "ABSENT"

\* A reader that reports a review has one.
ReviewFits ==
  \A r \in Reader : reader[r].at = "REVIEWED" => document[reader[r].document].ready

\* A deletion is authorized for a registered document of a draft that is over,
\* and bars holds; what a cleaner removes is authorized, and stays removed.
AuthorizedFits ==
  \A d \in Document : Authorized(d) =>
    document[d].state # "ABSENT" /\ draft.state = "EXPIRED" /\ ~draft.hold
CleanerFits ==
  \A c \in Cleaner :
    /\ cleaner[c].at \in {"REMOVE", "REMOVED", "FAILED"} => Authorized(cleaner[c].document)
    /\ cleaner[c].at = "REMOVED" => cleaner[c].document \notin stored

\* As long as no deletion is authorized every registered document has its bytes,
\* or its handler took them back.
BytesRemain ==
  (\A d \in Document : ~Authorized(d)) =>
    /\ \A d \in Document : document[d].state # "ABSENT" => d \in stored \cup undone
    /\ owner.at = "STORED" => owner.document \in stored

DocumentInv ==
  /\ DocumentTypes /\ AtWork /\ RegistersOnce /\ ReviewFits /\ AuthorizedFits /\ CleanerFits
  /\ BytesRemain /\ DeletedIsGone /\ CompletedIsReviewed

\* Nothing is stored, read or deleted in a new draft.
LEMMA DocumentInvInit == DocumentInit => DocumentInv
BY DEF DocumentInit, DocumentInv, DocumentTypes, AtWork, RegistersOnce, ReviewFits,
   AuthorizedFits,
   CleanerFits,
       BytesRemain, DeletedIsGone, CompletedIsReviewed, Authorized, Missing, NoJob,
       NoClean, Resting, DraftRow, DocumentRow, OwnerRow, JobRow, ReaderRow, CleanRow, CleanerRow

\* Every step of owner, readers, cleaners and time keeps the invariant.
LEMMA DocumentInvNext == DocumentInv /\ [DocumentNext]_documentVars => DocumentInv'
<1> SUFFICES ASSUME DocumentInv, [DocumentNext]_documentVars PROVE DocumentInv'
  OBVIOUS
<1> USE DEF DocumentInv, ownerVars, readVars, cleanupVars
<1>0. DocumentTypes'
  BY DocumentTypesNext
<1>1. ASSUME NEW d \in Document, StoreUpload(d) PROVE DocumentInv'
  <2>1. ReviewFits' /\ AuthorizedFits' /\ CompletedIsReviewed'
    BY <1>1 DEF ReviewFits, AuthorizedFits, CompletedIsReviewed, Authorized,
       StoreUpload
  <2>2. AtWork'
    BY <1>1 DEF AtWork, StoreUpload, Waits
  <2>3. RegistersOnce'
    BY <1>1 DEF RegistersOnce, StoreUpload, Waits
  <2>4. CleanerFits'
    BY <1>1 DEF CleanerFits, Authorized, AuthorizedFits, StoreUpload
  <2>5. BytesRemain'
    BY <1>1 DEF BytesRemain, Authorized, StoreUpload, Waits
  <2>6. DeletedIsGone'
    BY <1>1 DEF DeletedIsGone, RegistersOnce, StoreUpload
  <2> QED  BY <1>0, <2>1, <2>2, <2>3, <2>4, <2>5, <2>6
<1>2. ASSUME RegisterUpload PROVE DocumentInv'
  <2> DEFINE d == owner.document
             fresh == [Missing EXCEPT !.state = "QUARANTINED", !.current = TRUE]
             old(e) == [document[e] EXCEPT !.current = FALSE, !.state = "SUPERSEDED"]
  <2>a. /\ owner.at = "STORED" /\ d \in Document /\ document[d].state = "ABSENT"
        /\ UNCHANGED <<draft, stored, undone, reader, cleanup, cleaner>>
        /\ owner' \in {[at |-> "IDLE", document |-> Nothing], [at |-> "UNDO", document |-> d]}
    BY <1>2 DEF RegisterUpload, Waits, Answered, AtWork, RegistersOnce
  <2>b. \/ UNCHANGED <<document, job>>
        \/ /\ document' = [e \in Document |->
                IF e = d THEN fresh ELSE IF document[e].current THEN old(e) ELSE document[e]]
           /\ job' = [job EXCEPT ![d] = [NoJob EXCEPT !.state = "PENDING", !.due = TRUE]]
    BY <1>2 DEF RegisterUpload
  <2>c. /\ fresh.state = "QUARANTINED" /\ fresh.retention = "ACTIVE"
        /\ [NoJob EXCEPT !.state = "PENDING", !.due = TRUE].state = "PENDING"
    BY DEF Missing, NoJob
  <2>f. ASSUME NEW e \in Document
        PROVE  /\ old(e).state = "SUPERSEDED" /\ old(e).ready = document[e].ready
               /\ old(e).retention = document[e].retention
    BY DEF DocumentTypes, DocumentRow
  <2> HIDE DEF d, fresh, old
  <2>g. \/ UNCHANGED <<document, job>>
        \/ \A e \in Document :
             \/ /\ e = d /\ document'[e].state = "QUARANTINED"
                /\ document'[e].retention = "ACTIVE" /\ job'[e].state = "PENDING"
             \/ /\ e # d /\ job'[e] = job[e]
                /\ \/ document'[e] = document[e]
                   \/ /\ document[e].current /\ document'[e].state = "SUPERSEDED"
                      /\ document'[e].ready = document[e].ready
                      /\ document'[e].retention = document[e].retention
    <3>1. CASE UNCHANGED <<document, job>>
      BY <3>1
    <3>2. CASE ~UNCHANGED <<document, job>>
      <4>1. /\ document' = [e \in Document |->
                  IF e = d THEN fresh ELSE IF document[e].current THEN old(e) ELSE document[e]]
            /\ job' = [job EXCEPT ![d] = [NoJob EXCEPT !.state = "PENDING", !.due = TRUE]]
        BY <2>b, <3>2
      <4>2. DOMAIN job = Document
        BY DEF DocumentTypes
      <4>3. document'[d] = fresh /\ job'[d].state = "PENDING"
        BY <2>a, <2>c, <4>1, <4>2
      <4>4. ASSUME NEW e \in Document, e # d
            PROVE  /\ job'[e] = job[e]
                   /\ document'[e] = IF document[e].current THEN old(e) ELSE document[e]
        BY <4>1, <4>2, <4>4
      <4> QED  BY <2>c, <2>f, <4>3, <4>4
    <3> QED  BY <3>1, <3>2
  <2>1. AtWork'
    BY <2>a, <2>g DEF AtWork
  <2>2. RegistersOnce'
    BY <2>a, <2>g DEF RegistersOnce
  <2>3. ReviewFits'
    BY <2>a, <2>g DEF ReviewFits, RegistersOnce, AtWork
  <2>4. AuthorizedFits'
    BY <2>a, <2>g DEF AuthorizedFits, Authorized
  <2>5. CleanerFits'
    BY <2>a, <2>g DEF CleanerFits, Authorized
  <2>6. BytesRemain'
    BY <2>a, <2>g DEF BytesRemain, RegistersOnce, Authorized, d
  <2>7. DeletedIsGone'
    BY <2>a, <2>g DEF DeletedIsGone
  <2>8. CompletedIsReviewed'
    BY <2>a, <2>g DEF CompletedIsReviewed
  <2> QED  BY <1>0, <2>1, <2>2, <2>3, <2>4, <2>5, <2>6, <2>7, <2>8
<1>3. ASSUME UndoUpload PROVE DocumentInv'
  <2>1. ReviewFits' /\ AuthorizedFits' /\ CompletedIsReviewed'
    BY <1>3 DEF ReviewFits, AuthorizedFits, CompletedIsReviewed, Authorized,
       UndoUpload
  <2>2. AtWork'
    BY <1>3 DEF AtWork, UndoUpload, Waits, Answered
  <2>3. RegistersOnce'
    BY <1>3 DEF RegistersOnce, UndoUpload, Waits, Answered
  <2>4. CleanerFits'
    BY <1>3 DEF CleanerFits, Authorized, UndoUpload
  <2>5. BytesRemain'
    BY <1>3 DEF BytesRemain, Authorized, UndoUpload, Waits, Answered
  <2>6. DeletedIsGone'
    BY <1>3 DEF DeletedIsGone, UndoUpload
  <2> QED  BY <1>0, <2>1, <2>2, <2>3, <2>4, <2>5, <2>6
<1>4. ASSUME NEW d \in Document, RemoveDocument(d) PROVE DocumentInv'
  <2>1. AtWork' /\ CleanerFits'
    BY <1>4 DEF AtWork, CleanerFits, Authorized, RemoveDocument
  <2>2. RegistersOnce'
    BY <1>4 DEF RegistersOnce, RemoveDocument
  <2>3. ReviewFits'
    BY <1>4 DEF ReviewFits, RemoveDocument
  <2>4. AuthorizedFits'
    BY <1>4 DEF AuthorizedFits, Authorized, RemoveDocument
  <2>5. BytesRemain'
    BY <1>4 DEF BytesRemain, Authorized, RegistersOnce, RemoveDocument
  <2>6. DeletedIsGone'
    BY <1>4 DEF DeletedIsGone, RemoveDocument
  <2>7. CompletedIsReviewed'
    BY <1>4 DEF CompletedIsReviewed, RemoveDocument
  <2> QED  BY <1>0, <2>1, <2>2, <2>3, <2>4, <2>5, <2>6, <2>7
<1>5. ASSUME NEW d \in Document, RetryDocument(d) PROVE DocumentInv'
  <2>1. CleanerFits'
    BY <1>5 DEF CleanerFits, Authorized, RetryDocument
  <2>2. AtWork'
    BY <1>5 DEF AtWork, RetryDocument, Waits
  <2>3. RegistersOnce'
    BY <1>5 DEF RegistersOnce, RetryDocument, Waits
  <2>4. ReviewFits'
    BY <1>5 DEF ReviewFits, RetryDocument
  <2>5. AuthorizedFits'
    BY <1>5 DEF AuthorizedFits, Authorized, RetryDocument
  <2>6. BytesRemain'
    BY <1>5 DEF BytesRemain, Authorized, RetryDocument, Waits
  <2>7. DeletedIsGone'
    BY <1>5 DEF DeletedIsGone, RetryDocument
  <2>8. CompletedIsReviewed'
    BY <1>5 DEF CompletedIsReviewed, RetryDocument
  <2> QED  BY <1>0, <2>1, <2>2, <2>3, <2>4, <2>5, <2>6, <2>7, <2>8
<1>6. ASSUME QueueRetry PROVE DocumentInv'
  <2>1. ReviewFits' /\ AuthorizedFits' /\ CleanerFits' /\ DeletedIsGone'
    BY <1>6 DEF ReviewFits, AuthorizedFits, CleanerFits, DeletedIsGone, Authorized,
       QueueRetry
  <2>2. AtWork'
    BY <1>6 DEF AtWork, QueueRetry, Waits, Answered
  <2>3. RegistersOnce'
    BY <1>6 DEF RegistersOnce, QueueRetry, Waits, Answered
  <2>4. BytesRemain'
    BY <1>6 DEF BytesRemain, Authorized, QueueRetry, Waits, Answered
  <2>5. CompletedIsReviewed'
    BY <1>6 DEF CompletedIsReviewed, QueueRetry
  <2> QED  BY <1>0, <2>1, <2>2, <2>3, <2>4, <2>5
<1>7. ASSUME HandlerDies PROVE DocumentInv'
  <2>1. ReviewFits' /\ AuthorizedFits' /\ CleanerFits' /\ DeletedIsGone'
        /\ CompletedIsReviewed'
    BY <1>7 DEF ReviewFits, AuthorizedFits, CleanerFits, DeletedIsGone,
       CompletedIsReviewed, Authorized, HandlerDies
  <2>2. AtWork'
    BY <1>7 DEF AtWork, HandlerDies, Waits, Answered
  <2>3. RegistersOnce'
    BY <1>7 DEF RegistersOnce, HandlerDies, Waits, Answered
  <2>4. BytesRemain'
    BY <1>7 DEF BytesRemain, Authorized, HandlerDies, Waits, Answered
  <2> QED  BY <1>0, <2>1, <2>2, <2>3, <2>4
<1>8. ASSUME FinalizeDraft PROVE DocumentInv'
  <2>1. AtWork' /\ RegistersOnce' /\ ReviewFits' /\ CleanerFits' /\ BytesRemain'
        /\ DeletedIsGone' /\ CompletedIsReviewed'
    BY <1>8 DEF AtWork, RegistersOnce, ReviewFits, CleanerFits, BytesRemain,
       DeletedIsGone, CompletedIsReviewed, Authorized, FinalizeDraft, DraftGoes
  <2>2. AuthorizedFits'
    BY <1>8 DEF AuthorizedFits, Authorized, FinalizeDraft, DraftGoes
  <2> QED  BY <1>0, <2>1, <2>2
<1>9. ASSUME EditDraft PROVE DocumentInv'
  <2>1. AtWork' /\ RegistersOnce' /\ ReviewFits' /\ CleanerFits' /\ BytesRemain'
        /\ DeletedIsGone' /\ CompletedIsReviewed'
    BY <1>9 DEF AtWork, RegistersOnce, ReviewFits, CleanerFits, BytesRemain,
       DeletedIsGone, CompletedIsReviewed, Authorized, EditDraft, DraftGoes
  <2>2. AuthorizedFits'
    BY <1>9 DEF AuthorizedFits, Authorized, EditDraft, DraftGoes
  <2> QED  BY <1>0, <2>1, <2>2
<1>10. ASSUME BuyDraft PROVE DocumentInv'
  <2>1. AtWork' /\ RegistersOnce' /\ ReviewFits' /\ CleanerFits' /\ BytesRemain'
        /\ DeletedIsGone' /\ CompletedIsReviewed'
    BY <1>10 DEF AtWork, RegistersOnce, ReviewFits, CleanerFits, BytesRemain,
       DeletedIsGone, CompletedIsReviewed, Authorized, BuyDraft, DraftGoes
  <2>2. AuthorizedFits'
    BY <1>10 DEF AuthorizedFits, Authorized, BuyDraft, DraftGoes
  <2> QED  BY <1>0, <2>1, <2>2
<1>11. ASSUME NEW r \in Reader, ClaimReads(r) PROVE DocumentInv'
  <2>1. RegistersOnce' /\ AuthorizedFits' /\ CleanerFits' /\ BytesRemain'
        /\ DeletedIsGone'
    BY <1>11 DEF RegistersOnce, AuthorizedFits, CleanerFits, BytesRemain,
       DeletedIsGone, Authorized, ClaimReads
  <2>2. AtWork'
    BY <1>11 DEF AtWork, ClaimReads, DocumentTypes
  <2>3. ReviewFits'
    BY <1>11 DEF ReviewFits, ClaimReads, DocumentTypes
  <2>4. CompletedIsReviewed'
    BY <1>11 DEF CompletedIsReviewed, ClaimReads, ReaderAt, DocumentTypes,
       Authorized, JobRow
  <2> QED  BY <1>0, <2>1, <2>2, <2>3, <2>4
<1>12. ASSUME NEW r \in Reader, NextRead(r) PROVE DocumentInv'
  <2>1. RegistersOnce' /\ AuthorizedFits' /\ CleanerFits' /\ BytesRemain'
        /\ DeletedIsGone' /\ CompletedIsReviewed'
    BY <1>12 DEF RegistersOnce, AuthorizedFits, CleanerFits, BytesRemain,
       DeletedIsGone, CompletedIsReviewed, Authorized, NextRead
  <2>2. AtWork'
    BY <1>12 DEF AtWork, NextRead, Resting, DocumentTypes, ReaderRow
  <2>3. ReviewFits'
    BY <1>12 DEF ReviewFits, NextRead, Resting, DocumentTypes
  <2> QED  BY <1>0, <2>1, <2>2, <2>3
<1>13. ASSUME NEW r \in Reader, Download(r) PROVE DocumentInv'
  <2>1. RegistersOnce' /\ AuthorizedFits' /\ CleanerFits' /\ BytesRemain'
        /\ DeletedIsGone' /\ CompletedIsReviewed'
    BY <1>13 DEF RegistersOnce, AuthorizedFits, CleanerFits, BytesRemain,
       DeletedIsGone, CompletedIsReviewed, Authorized, Download
  <2>2. AtWork'
    BY <1>13 DEF AtWork, Download, ReaderAt, ReaderGoes, Reads, DocumentTypes,
       ReaderRow
  <2>3. ReviewFits'
    BY <1>13 DEF ReviewFits, Download, ReaderAt, ReaderGoes, DocumentTypes, ReaderRow
  <2> QED  BY <1>0, <2>1, <2>2, <2>3
<1>14. ASSUME NEW r \in Reader, PersistReview(r) PROVE DocumentInv'
  <2> DEFINE d == reader[r].document
             failed == [document[d] EXCEPT !.state = "FAILED", !.failure = TRUE]
             read == [document[d] EXCEPT !.state = "EXTRACTING", !.ready = TRUE,
                                         !.parsed = TRUE, !.failure = FALSE]
  <2>a. /\ d \in Document /\ UNCHANGED <<draft, stored, undone, owner, job, cleanup, cleaner>>
        /\ \A q \in Reader \ {r} : reader'[q] = reader[q]
        /\ reader'[r].document = d /\ reader'[r].at \in {"REFUSED", "REVIEWED"}
    BY <1>14 DEF PersistReview, ReaderAt, ReaderGoes, AtWork, DocumentTypes, ReaderRow
  <2>b. /\ failed.state = "FAILED" /\ failed.ready = document[d].ready
        /\ failed.retention = document[d].retention
        /\ read.state = "EXTRACTING" /\ read.ready
        /\ read.retention = document[d].retention
    BY <2>a
  <2>c. \/ document' = document /\ (reader'[r].at = "REVIEWED" => document[d].ready)
        \/ document[d].current /\ document' = [document EXCEPT ![d] = failed]
           /\ reader'[r].at = "REFUSED"
        \/ document[d].current /\ document' = [document EXCEPT ![d] = read]
    BY <1>14, <2>a DEF PersistReview, ReaderGoes, Reads, Reviewable, DocumentTypes,
       ReaderRow
  <2> HIDE DEF failed, read
  <2>g. /\ \A e \in Document \ {d} : document'[e] = document[e]
        /\ \/ document'[d] = document[d]
           \/ /\ document[d].current /\ document'[d].state # "ABSENT"
              /\ document[d].ready => document'[d].ready
              /\ document'[d].retention = document[d].retention
        /\ reader'[r].at = "REVIEWED" => document'[d].ready
    BY <2>a, <2>b, <2>c DEF DocumentTypes
  <2> HIDE DEF d
  <2>1. AtWork'
    BY <2>a, <2>g DEF AtWork
  <2>2. RegistersOnce'
    BY <2>a, <2>g DEF RegistersOnce, AtWork
  <2>3. ReviewFits'
    BY <2>a, <2>g DEF ReviewFits, AtWork
  <2>4. AuthorizedFits'
    BY <2>a, <2>g DEF AuthorizedFits, Authorized
  <2>5. CleanerFits'
    BY <2>a, <2>g DEF CleanerFits, Authorized
  <2>6. BytesRemain'
    BY <2>a, <2>g DEF BytesRemain, RegistersOnce, Authorized
  <2>7. DeletedIsGone'
    BY <2>a, <2>g DEF DeletedIsGone
  <2>8. CompletedIsReviewed'
    BY <2>a, <2>g DEF CompletedIsReviewed
  <2> QED  BY <1>0, <2>1, <2>2, <2>3, <2>4, <2>5, <2>6, <2>7, <2>8
<1>15. ASSUME NEW r \in Reader, CompleteRead(r) PROVE DocumentInv'
  <2> DEFINE d == reader[r].document
             next == IF reader[r].at = "REVIEWED" THEN "COMPLETED"
                     ELSE IF job[d].attempts >= 3 THEN "FAILED" ELSE "PENDING"
             done == [job[d] EXCEPT !.state = next, !.holder = Nothing, !.lease = FALSE,
                                    !.due = FALSE]
  <2>a. /\ d \in Document
        /\ UNCHANGED <<draft, document, stored, undone, owner, cleanup, cleaner>>
        /\ \A q \in Reader \ {r} : reader'[q] = reader[q]
        /\ reader'[r].at \in {"NEXT", "IDLE"}
    BY <1>15 DEF CompleteRead, ReaderGoes, Resting, AtWork, DocumentTypes, ReaderRow
  <2>b. done.state = next
    BY <2>a
  <2>c. job' = job \/ job' = [job EXCEPT ![d] = done]
    BY <1>15 DEF CompleteRead, Reads, ReaderAt
  <2>f. next = "COMPLETED" => reader[r].at = "REVIEWED"
    OBVIOUS
  <2> HIDE DEF done, next
  <2>g. \A e \in Document : job'[e].state = "COMPLETED" =>
          job[e].state = "COMPLETED" \/ (e = d /\ reader[r].at = "REVIEWED")
    BY <2>a, <2>b, <2>c, <2>f DEF DocumentTypes
  <2>1. AtWork'
    BY <2>a, <2>g DEF AtWork
  <2>2. RegistersOnce'
    BY <2>a, <2>g DEF RegistersOnce
  <2>3. ReviewFits'
    BY <2>a, <2>g DEF ReviewFits
  <2>4. AuthorizedFits'
    BY <2>a, <2>g DEF AuthorizedFits, Authorized
  <2>5. CleanerFits'
    BY <2>a, <2>g DEF CleanerFits, Authorized
  <2>6. BytesRemain'
    BY <2>a, <2>g DEF BytesRemain, Authorized
  <2>7. DeletedIsGone'
    BY <2>a, <2>g DEF DeletedIsGone
  <2>8. CompletedIsReviewed'
    BY <2>a, <2>g DEF CompletedIsReviewed, ReviewFits
  <2> QED  BY <1>0, <2>1, <2>2, <2>3, <2>4, <2>5, <2>6, <2>7, <2>8
<1>16. ASSUME NEW r \in Reader, ReaderDies(r) PROVE DocumentInv'
  <2>1. RegistersOnce' /\ AuthorizedFits' /\ CleanerFits' /\ BytesRemain'
        /\ DeletedIsGone' /\ CompletedIsReviewed'
    BY <1>16 DEF RegistersOnce, AuthorizedFits, CleanerFits, BytesRemain,
       DeletedIsGone, CompletedIsReviewed, Authorized, ReaderDies
  <2>2. AtWork'
    BY <1>16 DEF AtWork, ReaderDies, Resting
  <2>3. ReviewFits'
    BY <1>16 DEF ReviewFits, ReaderDies, Resting
  <2> QED  BY <1>0, <2>1, <2>2, <2>3
<1>17. ASSUME NEW c \in Cleaner, ClaimCleanup(c) PROVE DocumentInv'
  <2>1. RegistersOnce' /\ ReviewFits' /\ DeletedIsGone' /\ CompletedIsReviewed'
    BY <1>17 DEF RegistersOnce, ReviewFits, DeletedIsGone, CompletedIsReviewed,
       ClaimCleanup
  <2>2. AtWork'
    BY <1>17 DEF AtWork, ClaimCleanup
  <2>3. AuthorizedFits'
    BY <1>17 DEF AuthorizedFits, Authorized, ClaimCleanup
  <2>4. CleanerFits'
    BY <1>17 DEF CleanerFits, Authorized, AtWork, ClaimCleanup
  <2>5. BytesRemain'
    BY <1>17 DEF BytesRemain, Authorized, ClaimCleanup
  <2> QED  BY <1>0, <2>1, <2>2, <2>3, <2>4, <2>5
<1>18. ASSUME NEW c \in Cleaner, NextCleanup(c) PROVE DocumentInv'
  <2>1. RegistersOnce' /\ ReviewFits' /\ AuthorizedFits' /\ BytesRemain'
        /\ DeletedIsGone' /\ CompletedIsReviewed'
    BY <1>18 DEF RegistersOnce, ReviewFits, AuthorizedFits, BytesRemain,
       DeletedIsGone, CompletedIsReviewed, Authorized, NextCleanup
  <2>2. AtWork'
    BY <1>18 DEF AtWork, NextCleanup, Resting, DocumentTypes, CleanerRow
  <2>3. CleanerFits'
    BY <1>18 DEF CleanerFits, Authorized, NextCleanup, Resting, DocumentTypes
  <2> QED  BY <1>0, <2>1, <2>2, <2>3
<1>19. ASSUME NEW c \in Cleaner, AuthorizeDelete(c) PROVE DocumentInv'
  <2> DEFINE d == cleaner[c].document
             pending == [document[d] EXCEPT !.retention = "DELETE_PENDING"]
             taken == [cleanup[d] EXCEPT !.state = "DELETE_AUTHORIZED"]
             over == [draft EXCEPT !.state = "EXPIRED"]
  <2>a. /\ d \in Document /\ UNCHANGED <<stored, undone, owner, job, reader>>
        /\ \A b \in Cleaner \ {c} : cleaner'[b] = cleaner[b]
        /\ cleaner'[c].document = d /\ cleaner'[c].at \in {"REMOVE", "NEXT"}
    BY <1>19 DEF AuthorizeDelete, CleanerAt, CleanerGoes, AtWork, DocumentTypes,
       CleanerRow
  <2>b. /\ pending.state = document[d].state /\ pending.ready = document[d].ready
        /\ pending.current = document[d].current /\ pending.retention = "DELETE_PENDING"
        /\ taken.state = "DELETE_AUTHORIZED"
        /\ over.state = "EXPIRED" /\ over.hold = draft.hold
    BY <2>a
  <2>c. \/ UNCHANGED <<cleanup, document, draft>> /\ cleaner'[c].at = "NEXT"
        \/ /\ document[d].state # "ABSENT" /\ ~draft.hold
           /\ document' = [document EXCEPT ![d] = pending]
           /\ cleanup' = [cleanup EXCEPT ![d] = taken]
           /\ draft' = over
    BY <1>19, <2>a DEF AuthorizeDelete, CleanerGoes, Cleans, Eligible, DocumentTypes,
       CleanerRow
  <2> HIDE DEF pending, taken, over
  <2>g. \/ UNCHANGED <<cleanup, document, draft>> /\ cleaner'[c].at = "NEXT"
        \/ /\ document[d].state # "ABSENT" /\ ~draft.hold
           /\ draft'.state = "EXPIRED" /\ ~draft'.hold
           /\ \A e \in Document \ {d} : document'[e] = document[e] /\ cleanup'[e] = cleanup[e]
           /\ document'[d].state = document[d].state
           /\ document'[d].ready = document[d].ready
           /\ document'[d].current = document[d].current
           /\ document'[d].retention = "DELETE_PENDING"
           /\ cleanup'[d].state = "DELETE_AUTHORIZED"
    BY <2>a, <2>b, <2>c DEF DocumentTypes
  <2> HIDE DEF d
  <2>1. AtWork'
    BY <2>a, <2>g DEF AtWork
  <2>2. RegistersOnce'
    BY <2>a, <2>g DEF RegistersOnce, AtWork
  <2>3. ReviewFits'
    BY <2>a, <2>g DEF ReviewFits, AtWork
  <2>4. AuthorizedFits'
    BY <2>a, <2>g DEF AuthorizedFits, Authorized
  <2>5. CleanerFits'
    BY <2>a, <2>g DEF CleanerFits, AtWork, Authorized
  <2>6. BytesRemain'
    BY <2>a, <2>g DEF BytesRemain, Authorized
  <2>7. DeletedIsGone'
    BY <2>a, <2>g DEF DeletedIsGone
  <2>8. CompletedIsReviewed'
    BY <2>a, <2>g DEF CompletedIsReviewed
  <2> QED  BY <1>0, <2>1, <2>2, <2>3, <2>4, <2>5, <2>6, <2>7, <2>8
<1>20. ASSUME NEW c \in Cleaner, RemoveBytes(c) PROVE DocumentInv'
  <2>1. RegistersOnce' /\ ReviewFits' /\ AuthorizedFits' /\ CompletedIsReviewed'
    BY <1>20 DEF RegistersOnce, ReviewFits, AuthorizedFits, CompletedIsReviewed,
       Authorized, RemoveBytes
  <2>2. AtWork'
    BY <1>20 DEF AtWork, RemoveBytes, CleanerAt, CleanerGoes, DocumentTypes,
       CleanerRow
  <2>3. CleanerFits'
    BY <1>20 DEF CleanerFits, Authorized, RemoveBytes, CleanerAt, CleanerGoes,
       Cleans, DocumentTypes, CleanerRow
  <2>4. BytesRemain'
    BY <1>20 DEF BytesRemain, Authorized, AtWork, CleanerFits, RemoveBytes, CleanerAt
  <2>5. DeletedIsGone'
    BY <1>20 DEF DeletedIsGone, RemoveBytes
  <2> QED  BY <1>0, <2>1, <2>2, <2>3, <2>4, <2>5
<1>21. ASSUME NEW c \in Cleaner, FinishDelete(c) PROVE DocumentInv'
  <2> DEFINE d == cleaner[c].document
             deleted == [document[d] EXCEPT !.retention = "DELETED"]
             closed == [NoClean EXCEPT !.state = "COMPLETED"]
             longer == [cleanup[d] EXCEPT !.lease = TRUE]
  <2>a. /\ d \in Document /\ cleaner[c].at \in {"REMOVED", "FAILED"}
        /\ UNCHANGED <<draft, stored, undone, owner, job, reader>>
        /\ \A b \in Cleaner \ {c} : cleaner'[b] = cleaner[b]
        /\ cleaner'[c].at = "NEXT"
    BY <1>21 DEF FinishDelete, CleanerGoes, AtWork, DocumentTypes
  <2>b. /\ deleted.state = document[d].state /\ deleted.ready = document[d].ready
        /\ deleted.current = document[d].current /\ deleted.retention = "DELETED"
        /\ closed.state = "COMPLETED" /\ longer.state = cleanup[d].state
    BY <2>a
  <2>c. \/ /\ document' = document
           /\ cleanup' \in {cleanup, [cleanup EXCEPT ![d] = longer]}
        \/ /\ document' = [document EXCEPT ![d] = deleted]
           /\ cleanup' = [cleanup EXCEPT ![d] = closed]
           /\ cleaner[c].at = "REMOVED" /\ cleanup[d].state = "DELETE_AUTHORIZED"
    BY <1>21 DEF FinishDelete, CleanerAt, Cleans
  <2> HIDE DEF deleted, closed, longer
  <2>f. \A e \in Document : document'[e] = document[e] \/
          /\ e = d /\ cleaner[c].at = "REMOVED"
          /\ document'[e].state = document[e].state /\ document'[e].ready = document[e].ready
          /\ document'[e].current = document[e].current
    BY <2>a, <2>b, <2>c DEF DocumentTypes
  <2>g. \A e \in Document :
          cleanup'[e].state = cleanup[e].state \/
          {cleanup[e].state, cleanup'[e].state} \subseteq {"DELETE_AUTHORIZED", "COMPLETED"}
    BY <2>a, <2>b, <2>c DEF DocumentTypes
  <2> HIDE DEF d
  <2>1. AtWork'
    BY <2>a, <2>f, <2>g DEF AtWork
  <2>2. RegistersOnce'
    BY <2>a, <2>f, <2>g DEF RegistersOnce, AtWork, CleanerFits, AuthorizedFits, d
  <2>3. ReviewFits'
    BY <2>a, <2>f, <2>g DEF ReviewFits, AtWork
  <2>4. AuthorizedFits'
    BY <2>a, <2>f, <2>g DEF AuthorizedFits, Authorized
  <2>5. CleanerFits'
    BY <2>a, <2>f, <2>g DEF CleanerFits, AtWork, Authorized
  <2>6. BytesRemain'
    BY <2>a, <2>f, <2>g DEF BytesRemain, Authorized
  <2>7. DeletedIsGone'
    BY <2>a, <2>f, <2>g DEF DeletedIsGone, CleanerFits, d
  <2>8. CompletedIsReviewed'
    BY <2>a, <2>f, <2>g DEF CompletedIsReviewed
  <2> QED  BY <1>0, <2>1, <2>2, <2>3, <2>4, <2>5, <2>6, <2>7, <2>8
<1>22. ASSUME NEW c \in Cleaner, CleanerDies(c) PROVE DocumentInv'
  <2>1. RegistersOnce' /\ ReviewFits' /\ AuthorizedFits' /\ BytesRemain'
        /\ DeletedIsGone' /\ CompletedIsReviewed'
    BY <1>22 DEF RegistersOnce, ReviewFits, AuthorizedFits, BytesRemain,
       DeletedIsGone, CompletedIsReviewed, Authorized, CleanerDies
  <2>2. AtWork'
    BY <1>22 DEF AtWork, CleanerDies, Resting
  <2>3. CleanerFits'
    BY <1>22 DEF CleanerFits, Authorized, CleanerDies, Resting
  <2> QED  BY <1>0, <2>1, <2>2, <2>3
<1>23. ASSUME DraftExpires PROVE DocumentInv'
  <2>1. AtWork' /\ RegistersOnce' /\ ReviewFits' /\ CleanerFits' /\ BytesRemain'
        /\ DeletedIsGone' /\ CompletedIsReviewed'
    BY <1>23 DEF AtWork, RegistersOnce, ReviewFits, CleanerFits, BytesRemain,
       DeletedIsGone, CompletedIsReviewed, Authorized, DraftExpires
  <2>2. AuthorizedFits'
    BY <1>23 DEF AuthorizedFits, Authorized, DraftExpires
  <2> QED  BY <1>0, <2>1, <2>2
<1>24. ASSUME ChangeHold PROVE DocumentInv'
  <2>1. AtWork' /\ RegistersOnce' /\ ReviewFits' /\ CleanerFits' /\ BytesRemain'
        /\ DeletedIsGone' /\ CompletedIsReviewed'
    BY <1>24 DEF AtWork, RegistersOnce, ReviewFits, CleanerFits, BytesRemain,
       DeletedIsGone, CompletedIsReviewed, Authorized, ChangeHold
  <2>2. AuthorizedFits'
    BY <1>24 DEF AuthorizedFits, Authorized, ChangeHold
  <2> QED  BY <1>0, <2>1, <2>2
<1>25. ASSUME NEW d \in Document, ReadLeaseLapses(d) PROVE DocumentInv'
  <2>1. AtWork' /\ RegistersOnce' /\ ReviewFits' /\ AuthorizedFits' /\ CleanerFits'
        /\ BytesRemain' /\ DeletedIsGone'
    BY <1>25 DEF AtWork, RegistersOnce, ReviewFits, AuthorizedFits, CleanerFits,
       BytesRemain, DeletedIsGone, Authorized, ReadLeaseLapses
  <2>2. CompletedIsReviewed'
    BY <1>25 DEF CompletedIsReviewed, ReadLeaseLapses
  <2> QED  BY <1>0, <2>1, <2>2
<1>26. ASSUME NEW d \in Document, ReadComesDue(d) PROVE DocumentInv'
  <2>1. AtWork' /\ RegistersOnce' /\ ReviewFits' /\ AuthorizedFits' /\ CleanerFits'
        /\ BytesRemain' /\ DeletedIsGone'
    BY <1>26 DEF AtWork, RegistersOnce, ReviewFits, AuthorizedFits, CleanerFits,
       BytesRemain, DeletedIsGone, Authorized, ReadComesDue
  <2>2. CompletedIsReviewed'
    BY <1>26 DEF CompletedIsReviewed, ReadComesDue
  <2> QED  BY <1>0, <2>1, <2>2
<1>27. ASSUME NEW d \in Document, CleanupLeaseLapses(d) PROVE DocumentInv'
  <2>1. AtWork' /\ RegistersOnce' /\ ReviewFits' /\ DeletedIsGone'
        /\ CompletedIsReviewed'
    BY <1>27 DEF AtWork, RegistersOnce, ReviewFits, DeletedIsGone,
       CompletedIsReviewed, CleanupLeaseLapses
  <2>2. AuthorizedFits'
    BY <1>27 DEF AuthorizedFits, Authorized, CleanupLeaseLapses
  <2>3. CleanerFits'
    BY <1>27 DEF CleanerFits, Authorized, CleanupLeaseLapses
  <2>4. BytesRemain'
    BY <1>27 DEF BytesRemain, Authorized, CleanupLeaseLapses
  <2> QED  BY <1>0, <2>1, <2>2, <2>3, <2>4
<1>28. CASE UNCHANGED documentVars
  BY <1>0, <1>28 DEF documentVars, AtWork, RegistersOnce, ReviewFits, AuthorizedFits,
     CleanerFits, BytesRemain, DeletedIsGone, CompletedIsReviewed, Authorized
<1> QED
  BY <1>1, <1>2, <1>3, <1>4, <1>5, <1>6, <1>7, <1>8, <1>9, <1>10, <1>11, <1>12,
     <1>13, <1>14, <1>15, <1>16, <1>17, <1>18, <1>19, <1>20, <1>21, <1>22, <1>23,
     <1>24, <1>25, <1>26, <1>27, <1>28
  DEF DocumentNext, OwnerStep, Read, Clean, DocumentTime

\* A hold keeps the bytes, and so does a purchase; deletions and readings are
\* recorded when they have happened.
THEOREM DocumentsAreSafe == DocumentSpec => []DocumentsSafe
<1>1. DocumentInv => DocumentsSafe
  BY DEF DocumentInv, DocumentTypes, DraftRow, AuthorizedFits, BytesRemain,
     DocumentsSafe,
     HeldBytesRemain
<1>2. DocumentSpec => []DocumentInv
  BY DocumentInvInit, DocumentInvNext, PTL DEF DocumentSpec
<1> QED  BY <1>1, <1>2, PTL

\* The rows of the invariant are those of the type invariant.
LEMMA DocumentInvTypes == DocumentInv => DocumentTypeOK
BY DEF DocumentInv, DocumentTypes, DocumentTypeOK, DraftRow, DocumentRow, OwnerRow, JobRow,
       ReaderRow, CleanRow, CleanerRow

\* Every row of the documents, of the readers and of the cleaners keeps the shape
\* its table and its code give it.
THEOREM DocumentTypesKept == DocumentSpec => []DocumentTypeOK
<1>1. DocumentSpec => []DocumentInv
  BY DocumentInvInit, DocumentInvNext, PTL DEF DocumentSpec
<1> QED  BY <1>1, DocumentInvTypes, PTL
===============================================================================
