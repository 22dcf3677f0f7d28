------------------------------- MODULE Feasibility -------------------------------
(***************************************************************************)
(* From finalized criteria to a feasibility answer: research rounds and    *)
(* their inventories, evaluations, parser corrections, the customer's      *)
(* answers and new criteria, and the worker that turns all of it into an   *)
(* assessment. One draft; research and assessments are of its latest       *)
(* criteria.                                                               *)
(*                                                                         *)
(* The functions run under READ COMMITTED and an answer takes no lock they *)
(* hold: deriving an assessment and completing a request are two steps     *)
(* each. Assessments also lapse after an hour, which is left out.          *)
(***************************************************************************)
EXTENDS Naturals, Sequences, FiniteSets

CONSTANTS
  Listing,       \* jobs that research can admit; each may be corrected once
  Verdict,       \* what an evaluation can say of a job
  Enough,        \* deliverable jobs for LIKELY: 10
  MaxCriteria,   \* bound: finalized snapshots of the draft
  MaxPlans       \* bound: coverage plans of one snapshot

ASSUME FeasibilityAssumption ==
  /\ Verdict \subseteq {"DELIVERABLE", "REVIEWABLE", "INPUT", "EXCLUDED"}
  /\ Enough \in Nat \ {0} /\ MaxCriteria \in Nat \ {0} /\ MaxPlans \in Nat

VARIABLES
  criteria,     \* how many snapshots are finalized; the last one is current
  inquiry,      \* ap_feasibility_requests, one of each snapshot
  plans,        \* ap_feasibility_coverage_plans, the latest last
  evaluation,   \* ap_match_evaluations: member's plan, verdict, not invalidated
  answers,      \* jobs whose question the customer answered
  assessments,  \* ap_feasibility_assessments, and what each was derived from
  assessor      \* the step of the worker and what it carries

researchVars == <<plans, evaluation, answers>>
feasibilityVars == <<criteria, inquiry, plans, evaluation, answers, assessments, assessor>>

\* A job snapshot: <<j, 0>> as captured, <<j, 1>> as corrected.
Snap   == Listing \X {0, 1}
Plan   == [round : 0..3, members : SUBSET Snap, manual : BOOLEAN,
           searched : BOOLEAN, receipt : BOOLEAN]
Basis  == SUBSET (Snap \X Verdict)
Asked  == [state : {"ABSENT", "PENDING", "CLAIMED", "COMPLETED", "ERROR", "STALE"},
           assessment : Nat]
Idle   == [at |-> "IDLE", plan |-> 0, searched |-> FALSE, basis |-> {}, assessment |-> 0]
Withdrawn(p) == [plan |-> p, basis |-> {}, outcome |-> "NONE", blocker |-> "NONE",
                 live |-> FALSE, overlapped |-> FALSE]
Unevaluated == [s \in Snap |-> [plan |-> 0, verdict |-> "NONE", live |-> FALSE]]

Latest     == Len(plans)
Rounds     == Cardinality({p \in 1..Latest : plans[p].round > 0})
Corrected(j) == \E p \in 1..Latest : <<j, 1>> \in plans[p].members
Superseded(s) == s[2] = 0 /\ Corrected(s[1])
\* A current evaluation of the member s of plan p.
Evaluated(p, s) == evaluation[s].plan = p /\ evaluation[s].live
Covered(p) == \A s \in plans[p].members : Evaluated(p, s)
Deliverable == {s \in Snap : evaluation[s].live /\ evaluation[s].verdict = "DELIVERABLE"}

\* classify, blocker and the counts of ap_persist_derived_feasibility_assessment.
Says(basis, verdict) == {b \in basis : b[2] = verdict}
Outcome(basis) ==
  LET deliverable == Cardinality(Says(basis, "DELIVERABLE"))
      reviewable  == Cardinality(Says(basis, "REVIEWABLE") \cup Says(basis, "INPUT"))
  IN CASE deliverable >= Enough         -> "LIKELY"
       [] deliverable + reviewable >= 1 -> "LIMITED"
       [] OTHER                         -> "INFEASIBLE"
Blocker(basis) ==
  CASE Says(basis, "INPUT") # {}      -> "NEEDS_CANDIDATE_INPUT"
    [] Says(basis, "REVIEWABLE") # {} -> "NEEDS_HUMAN_REVIEW"
    [] OTHER                          -> "NONE"

FeasibilityInit ==
  /\ criteria = 1
  /\ inquiry = [c \in 1..MaxCriteria |->
                  [state |-> IF c = 1 THEN "PENDING" ELSE "ABSENT", assessment |-> 0]]
  /\ plans = <<>> /\ evaluation = Unevaluated /\ answers = {}
  /\ assessments = <<>>
  /\ assessor = Idle

-------------------------------------------------------------------------------
(* Research. New evidence asks an ended request again, never a claimed one.  *)
Decided(c) == inquiry[c].state \in {"ERROR", "COMPLETED"}
AskAgain ==
  inquiry' = IF Decided(criteria)
             THEN [inquiry EXCEPT ![criteria] = [state |-> "PENDING", assessment |-> 0]]
             ELSE inquiry
\* What a withdrawn assessment said is read by nothing, only its plan is.
Withdraw == assessments' = [a \in DOMAIN assessments |-> Withdrawn(assessments[a].plan)]

\* A later round waits for an assessment of the one before, and for a shortage.
BeginRound(manual) ==
  /\ Latest < MaxPlans /\ Rounds < 3
  /\ Rounds > 0 =>
       /\ \E a \in DOMAIN assessments : plans[assessments[a].plan].round = Rounds
       /\ Cardinality({s[1] : s \in Deliverable}) < Enough
  /\ plans' = Append(plans, [round |-> Rounds + 1, members |-> {}, manual |-> manual,
                             searched |-> FALSE, receipt |-> FALSE])
  /\ AskAgain /\ Withdraw
  /\ UNCHANGED <<criteria, evaluation, answers, assessor>>

Admit(p, s) ==
  /\ s[2] = IF Corrected(s[1]) THEN 1 ELSE 0
  /\ \A other \in plans[p].members : other[1] # s[1]
  /\ plans' = [plans EXCEPT ![p].members = @ \cup {s}]
  /\ UNCHANGED <<criteria, inquiry, evaluation, answers, assessments, assessor>>

\* Invalidated rows keep their place in unique(snapshot_id, job_snapshot_id,
\* version_bundle): a job snapshot is evaluated once, for one member.
Evaluate(p, s, verdict) ==
  /\ s \in plans[p].members /\ ~Superseded(s)
  /\ evaluation[s].plan = 0
  /\ evaluation' = [evaluation EXCEPT ![s] = [plan |-> p, verdict |-> verdict, live |-> TRUE]]
  /\ UNCHANGED <<criteria, inquiry, plans, answers, assessments, assessor>>

\* ap_complete_manual_research_cell and ap_complete_research_cell; the cells of
\* a plan are taken as one.
CompleteSearch(p) ==
  /\ ~plans[p].receipt /\ (plans[p].manual => ~plans[p].searched)
  /\ Covered(p)
  /\ plans' = [plans EXCEPT ![p] = [@ EXCEPT !.searched = TRUE, !.receipt = TRUE]]
  /\ AskAgain
  /\ UNCHANGED <<criteria, evaluation, answers, assessments, assessor>>

\* The copied cells keep their outcome and have no receipt; the other members
\* are copied under new identities, without their evaluations.
CorrectListing(p, j) ==
  LET old == <<j, 0>> IN
  /\ Latest < MaxPlans
  /\ old \in plans[p].members /\ ~Superseded(old)
  /\ plans' = Append(plans, [plans[p] EXCEPT !.round = 0, !.receipt = FALSE,
                               !.members = (@ \ {old}) \cup {<<j, 1>>}])
  /\ evaluation' = [evaluation EXCEPT ![old].live = FALSE]
  /\ UNCHANGED <<criteria, inquiry, answers, assessments, assessor>>

\* Fault: an answer also takes the request from the worker that holds it.
AnswerTakesClaim(s) ==
  /\ s \notin answers /\ \E p \in 1..Latest : s \in plans[p].members
  /\ answers' = answers \cup {s}
  /\ evaluation' = [evaluation EXCEPT ![s].live = FALSE]
  /\ inquiry' = [inquiry EXCEPT ![criteria] = [state |-> "PENDING", assessment |-> 0]]
  /\ Withdraw
  /\ UNCHANGED <<criteria, plans, assessor>>

\* The answer to a question an operator asked about an admitted job.
Answer(s) ==
  /\ s \notin answers /\ \E p \in 1..Latest : s \in plans[p].members
  /\ answers' = answers \cup {s}
  /\ evaluation' = [evaluation EXCEPT ![s].live = FALSE]
  /\ AskAgain /\ Withdraw
  /\ UNCHANGED <<criteria, plans, assessor>>

\* A claimed request keeps its claimed_by, so setting it STALE breaks the
\* table's check and the whole finalization is refused.
FinalizeAgain ==
  /\ criteria < MaxCriteria /\ inquiry[criteria].state # "CLAIMED"
  /\ criteria' = criteria + 1
  /\ inquiry' = [inquiry EXCEPT
       ![criteria].state = IF @ = "PENDING" THEN "STALE" ELSE @,
       ![criteria + 1] = [state |-> "PENDING", assessment |-> 0]]
  /\ plans' = <<>> /\ evaluation' = Unevaluated /\ answers' = {} /\ assessments' = <<>>
  /\ UNCHANGED assessor

Research ==
  \/ \E manual \in BOOLEAN : BeginRound(manual)
  \/ \E p \in 1..Latest :
       \/ \E s \in Snap : Admit(p, s) \/ \E v \in Verdict : Evaluate(p, s, v)
       \/ CompleteSearch(p)
       \/ \E j \in Listing : CorrectListing(p, j)
  \/ \E s \in Snap : Answer(s)
  \/ FinalizeAgain

-------------------------------------------------------------------------------
(* The worker. Every step that raises goes to "FAIL".                        *)
AssessorAt(at) == assessor.at = at
AssessorGoes(at) == assessor' = [assessor EXCEPT !.at = at]
Settles(state, a) ==
  /\ inquiry' = [inquiry EXCEPT ![criteria] = [state |-> state, assessment |-> a]]
  /\ assessor' = Idle
  /\ UNCHANGED <<criteria, researchVars, assessments>>
Looks == UNCHANGED <<criteria, inquiry, researchVars, assessments>>

ClaimInquiry ==
  /\ AssessorAt("IDLE") /\ inquiry[criteria].state = "PENDING"
  /\ inquiry' = [inquiry EXCEPT ![criteria].state = "CLAIMED"]
  /\ AssessorGoes("PLAN")
  /\ UNCHANGED <<criteria, researchVars, assessments>>

LoadPlan ==
  /\ AssessorAt("PLAN") /\ Looks
  /\ IF Latest > 0 /\ (plans[Latest].searched => plans[Latest].receipt)
     THEN assessor' = [assessor EXCEPT !.at = "INVENTORY", !.plan = Latest,
                                       !.searched = plans[Latest].searched]
     ELSE AssessorGoes("FAIL")

\* Missing evaluations are an error even while the search goes on.
LoadInventory ==
  /\ AssessorAt("INVENTORY") /\ Looks
  /\ AssessorGoes(CASE ~Covered(assessor.plan) -> "FAIL"
                    [] ~assessor.searched      -> "DEFER"
                    [] OTHER                   -> "DERIVE")

Derive ==
  /\ AssessorAt("DERIVE") /\ Looks
  /\ IF Covered(Latest)
     THEN assessor' = [assessor EXCEPT !.at = "INSERT", !.plan = Latest,
            !.basis = {<<s, evaluation[s].verdict>> : s \in plans[Latest].members}]
     ELSE AssessorGoes("FAIL")

\* The insert is refused by a trigger while a cell of the plan is open; the
\* answer to the worker may be lost.
InsertAssessment ==
  /\ AssessorAt("INSERT")
  /\ IF plans[assessor.plan].searched
     THEN /\ assessments' = Append(assessments,
               [plan |-> assessor.plan, basis |-> assessor.basis,
                outcome |-> Outcome(assessor.basis), blocker |-> Blocker(assessor.basis),
                live |-> TRUE,
                overlapped |-> \E b \in assessor.basis : ~Evaluated(assessor.plan, b[1])])
          /\ \/ assessor' = [assessor EXCEPT !.at = "CHECK", !.assessment = Len(assessments')]
             \/ AssessorGoes("FAIL")
     ELSE AssessorGoes("FAIL") /\ UNCHANGED assessments
  /\ UNCHANGED <<criteria, inquiry, researchVars>>

CheckAssessment ==
  /\ AssessorAt("CHECK") /\ Looks
  /\ AssessorGoes(IF assessments[assessor.assessment].live THEN "COMPLETE" ELSE "FAIL")

CompleteInquiry == AssessorAt("COMPLETE") /\ Settles("COMPLETED", assessor.assessment)
DeferInquiry    == AssessorAt("DEFER") /\ Settles("PENDING", 0)
FailInquiry     == AssessorAt("FAIL") /\ Settles("ERROR", 0)

\* A read or a call that does not answer, or evidence older than a day.
LoadFails == assessor.at \in {"PLAN", "INVENTORY", "DERIVE", "CHECK"} /\ AssessorGoes("FAIL") /\ Looks

Assess ==
  \/ ClaimInquiry \/ LoadPlan \/ LoadInventory \/ Derive \/ InsertAssessment
  \/ CheckAssessment \/ CompleteInquiry \/ DeferInquiry \/ FailInquiry

\* A claim has no lease: nothing takes the request over.
AssessorDies == ~AssessorAt("IDLE") /\ assessor' = Idle /\ Looks

FeasibilityNext == Research \/ Assess \/ LoadFails \/ AssessorDies
FeasibilitySpec == FeasibilityInit /\ [][FeasibilityNext]_feasibilityVars

-------------------------------------------------------------------------------
FeasibilityTypeOK ==
  /\ criteria \in 1..MaxCriteria
  /\ inquiry \in [1..MaxCriteria -> Asked]
  /\ plans \in Seq(Plan)
  /\ evaluation \in [Snap -> [plan : Nat, verdict : Verdict \cup {"NONE"}, live : BOOLEAN]]
  /\ answers \subseteq Snap
  /\ \A a \in DOMAIN assessments : assessments[a].basis \in Basis
  /\ assessor.basis \in Basis

\* The request a worker holds stays claimed for the criteria it works on until
\* the worker lets go of it.
ClaimIsKept == ~AssessorAt("IDLE") => inquiry[criteria].state = "CLAIMED"

\* ap_read_current_feasibility shows an assessment.
Shown(a) == inquiry[criteria].state = "COMPLETED" /\ a = inquiry[criteria].assessment
            /\ assessments[a].live

\* What the customer is shown rests on a finished search of the current criteria
\* and every job still has the verdict it was counted under, unless an answer
\* overlapped the derivation or the job was corrected since.
ShownHolds ==
  \A a \in DOMAIN assessments : Shown(a) =>
    /\ plans[assessments[a].plan].searched
    /\ \A b \in assessments[a].basis :
         \/ Evaluated(assessments[a].plan, b[1]) /\ evaluation[b[1]].verdict = b[2]
         \/ Superseded(b[1]) \/ assessments[a].overlapped

\* Checkout is offered for enough deliverable jobs and nothing left to resolve.
OfferedIsDeliverable ==
  \A a \in DOMAIN assessments :
    (Shown(a) /\ assessments[a].outcome = "LIKELY" /\ assessments[a].blocker = "NONE"
       /\ ~assessments[a].overlapped)
      => Cardinality({b \in assessments[a].basis :
           b[2] = "DELIVERABLE" /\ (b[1] \in Deliverable \/ Superseded(b[1]))}) >= Enough

FeasibilitySafe == ClaimIsKept /\ ShownHolds /\ OfferedIsDeliverable

\* A request whose research is finished and evaluated is yet to be decided.
AssessmentOwed ==
  /\ inquiry[criteria].state \in {"PENDING", "CLAIMED"}
  /\ Latest > 0 /\ plans[Latest].receipt /\ Covered(Latest)

===============================================================================
