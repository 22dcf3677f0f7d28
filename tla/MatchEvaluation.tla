---------------------------- MODULE MatchEvaluation ----------------------------
(***************************************************************************)
(* What is derived of one job and one candidate from persisted evidence:   *)
(* the salary gate, the gates of the customer's hard criteria, eligibility *)
(* and the class of the result that the feasibility counts use.            *)
(*                                                                         *)
(* Reading facts out of text (tokens, degrees, credentials) is left out: a *)
(* leaf or a criterion is what that reading says of it.                    *)
(***************************************************************************)
EXTENDS RequirementTree

Null == -1

-------------------------------------------------------------------------------
(* Salary, in cents. A listing's pay (published by the employer, an estimate, *)
(* or neither; with a material variable part), the customer's floor and       *)
(* whether variable pay is accepted, a reviewer's comparison with the hours   *)
(* of a conversion (0: none), and what else the customer permits. "NONE" is   *)
(* what a listing leaves out.                                                 *)

Salary(status, disposition) == [status |-> status, disposition |-> disposition]

\* Math.round: half a cent goes up.
Convert(x, pay, floor, hours) ==
  CASE x = Null \/ pay.period = floor.period -> x
    [] pay.period = "HOUR" /\ floor.period = "YEAR" /\ x # Null -> x * hours
    [] OTHER -> (2 * x + hours) \div (2 * hours)

Ends(pay, lower, upper) ==
  CASE pay.meaning = "STARTING_AT" -> <<lower, Null>>
    [] pay.meaning = "FIXED" -> IF lower = Null THEN <<upper, upper>> ELSE <<lower, lower>>
    [] pay.meaning = "UP_TO" -> <<Null, IF upper = Null THEN lower ELSE upper>>
    [] OTHER -> <<lower, upper>>

Published(pay) == pay.published /\ (pay.lower # Null \/ pay.upper # Null)

Permitted(status, permission, permitted) ==
  Salary(status, IF permission \in permitted THEN "ALLOWED_WITH_WARNING" ELSE "FAIL")

Compared(ends, meaning, floor, permitted) ==
  CASE ends[1] # Null /\ ends[1] >= floor.amount -> Salary("PUBLISHED_MEETS_MINIMUM", "PASS")
    [] ends[2] # Null /\ ends[2] < floor.amount  -> Salary("PUBLISHED_BELOW_MINIMUM", "FAIL")
    [] /\ ends[2] # Null /\ ends[2] >= floor.amount /\ meaning # "UP_TO"
       /\ (ends[1] = Null \/ ends[1] < floor.amount) ->
         Permitted("PUBLISHED_OVERLAPS_MINIMUM", "OVERLAP", permitted)
    [] OTHER -> Permitted("PUBLISHED_NONCOMPARABLE", "NONCOMPARABLE", permitted)

Comparable(pay, floor, review) ==
  /\ review.confirmed /\ pay.period # "NONE"
  /\ pay.basis \in {"BASE"} \cup (IF floor.basis = "BASE" THEN {} ELSE {"GUARANTEED_TOTAL"})

Unconverted(pay, floor, review) == pay.period # floor.period /\ review.hours = 0

evaluateSalary(pay, floor, review, permitted) ==
  LET refused  == Salary("PUBLISHED_NONCOMPARABLE", "FAIL")
      unlike   == Permitted("PUBLISHED_NONCOMPARABLE", "NONCOMPARABLE", permitted)
      untested == IF pay.estimate THEN "ESTIMATE_ONLY"
                  ELSE IF Published(pay) THEN "PUBLISHED_NONCOMPARABLE" ELSE "UNPUBLISHED"
  IN IF (Published(pay) \/ pay.estimate) /\ pay.currency = "OTHER" THEN refused
     ELSE IF ~floor.firm THEN Salary(untested, "NOT_APPLICABLE")
     ELSE IF pay.estimate \/ ~Published(pay) THEN Permitted(untested, "UNPUBLISHED", permitted)
     ELSE IF pay.currency # "USD" THEN refused
     ELSE IF ~Comparable(pay, floor, review) THEN unlike
     ELSE IF pay.variable /\ ~floor.variable THEN refused
     ELSE IF Unconverted(pay, floor, review) THEN unlike
     ELSE Compared(Ends(pay, Convert(pay.lower, pay, floor, review.hours),
                             Convert(pay.upper, pay, floor, review.hours)),
                   pay.meaning, floor, permitted)

-------------------------------------------------------------------------------
(* Gates and eligibility.                                                    *)

Gate(result, issue, consented) == [result |-> result, issue |-> issue, consented |-> consented]
Settled(passes) == Gate(IF passes THEN "PASS" ELSE "FAIL", "NONE", FALSE)

\* An overlap with a warning passes; what could not be compared is an omission.
SalaryGate(salary) ==
  IF salary.disposition = "ALLOWED_WITH_WARNING" /\ salary.status # "PUBLISHED_OVERLAPS_MINIMUM"
  THEN Gate("UNKNOWN", "EMPLOYER_OMITTED", TRUE)
  ELSE Settled(salary.disposition # "FAIL")

\* A hard criterion of the customer, what the listing says of it, and a review of
\* it. Only silence is open to a review, which can settle it one way only:
\* against a job for what the customer excludes, for it otherwise.
CustomerGate(criterion, review) ==
  IF criterion.listing # "SILENT" THEN Settled(criterion.listing = criterion.wanted)
  ELSE CASE review = "NONE" -> Gate("UNKNOWN", "EMPLOYER_OMITTED", criterion.waived)
         [] review = "SETTLED" -> Settled(criterion.wanted = "PRESENT")
         [] review = "ALLOWED" -> Gate("UNKNOWN", "EMPLOYER_OMITTED", TRUE)
         [] review = "BLOCKED" -> Gate("UNKNOWN", "EMPLOYER_OMITTED", FALSE)
         [] OTHER -> Gate("UNKNOWN", review, FALSE)

RequirementGate(t, d, issue) == Gate(Root(t, d), Issue(t, d, issue), FALSE)

deriveEligibility(gates) ==
  LET unknown == {g \in gates : g.result = "UNKNOWN"}
  IN CASE \E g \in gates : g.result = "FAIL" -> "INELIGIBLE"
       [] /\ \A g \in gates : g.result # "FAIL"
          /\ \E g \in unknown : g.issue = "CANDIDATE_MISSING" -> "NEEDS_CANDIDATE_INPUT"
       [] /\ \A g \in gates : g.result # "FAIL" /\ g.issue # "CANDIDATE_MISSING"
          /\ \E g \in unknown : g.issue \in {"PARSER_UNCERTAIN", "EVIDENCE_CONFLICT"} ->
            "NEEDS_HUMAN_REVIEW"
       [] /\ \A g \in gates : g.result = "PASS" \/ (g \in unknown /\ g.issue = "EMPLOYER_OMITTED")
          /\ \E g \in unknown : ~g.consented -> "INELIGIBLE"
       [] OTHER -> IF unknown # {} THEN "ELIGIBLE_WITH_ALLOWED_UNKNOWNS" ELSE "ELIGIBLE"
Eligible == {"ELIGIBLE", "ELIGIBLE_WITH_ALLOWED_UNKNOWNS"}

-------------------------------------------------------------------------------
(* The class of an evaluation, as the database counts it on completion; the   *)
(* worker's own reading before that takes every source for authorized. Here   *)
(* an outcome of the listing is PASS, FAIL or UNKNOWN.                        *)

Classified(e, authorized) ==
  CASE /\ authorized /\ e.eligibility \in Eligible /\ e.sufficient /\ e.usefulness = "PASS"
       /\ e.salary # "FAIL" /\ e.readiness # "BLOCKED" /\ e.listing = "PASS" -> "DELIVERABLE"
    [] \/ e.eligibility \in {"INELIGIBLE", "INVALID"} \/ ~e.sufficient
       \/ e.usefulness = "FAIL" \/ e.salary = "FAIL" \/ e.listing = "FAIL" -> "EXCLUDED"
    [] OTHER -> "REVIEWABLE"

\* isPersistedEvaluationDeliverable; an eligible and sufficient evaluation has a
\* fit score and a confidence. Authorization and facts are those of today, and the
\* job must be linked to a row that a release can name.
Releasable(e, authorized, factsActive, linked) ==
  /\ e.eligibility \in Eligible /\ e.sufficient /\ e.usefulness = "PASS"
  /\ e.salary # "FAIL" /\ e.readiness # "BLOCKED" /\ e.listing = "PASS"
  /\ authorized /\ factsActive /\ linked

-------------------------------------------------------------------------------
(* Properties, over bounded inputs.                                           *)

Amount == {Null} \cup 0..3
Meanings == {"RANGE", "STARTING_AT", "UP_TO", "FIXED"}
PlainPay ==   \* a comparable pay, with all its ends
  {pay \in [published : {TRUE}, estimate : {FALSE}, currency : {"USD"}, variable : {FALSE},
            period : {"HOUR", "YEAR"}, basis : {"BASE"}, lower : Amount, upper : Amount,
            meaning : Meanings] : pay.upper = Null \/ pay.lower <= pay.upper}
MixedPay ==   \* and everything that can be missing or odd of one range
  [published : BOOLEAN, estimate : BOOLEAN, currency : {"USD", "OTHER", "NONE"}, variable : BOOLEAN,
   period : {"HOUR", "YEAR", "NONE"}, basis : {"BASE", "GUARANTEED_TOTAL", "VARIABLE_OTE", "NONE"},
   lower : {1}, upper : {3}, meaning : {"RANGE"}]
Floor ==
  [amount : 0..6, firm : BOOLEAN, period : {"HOUR", "YEAR"}, basis : {"BASE", "GUARANTEED_TOTAL"},
   variable : BOOLEAN]
Review == [confirmed : BOOLEAN, hours : {0, 2}]
Permissions == {{}, {"OVERLAP"}, {"NONCOMPARABLE", "UNPUBLISHED"},
                {"OVERLAP", "NONCOMPARABLE", "UNPUBLISHED"}}

\* What the listing may pay, at most `most' where it names no end, and whether one
\* pay reaches the floor, up to half a cent where a year's pay is converted to hours.
Offers(pay, most) ==
  LET low  == IF pay.lower = Null THEN 0 ELSE pay.lower
      high == IF pay.upper = Null THEN most ELSE pay.upper
  IN CASE pay.meaning = "STARTING_AT" /\ pay.lower # Null -> low..most
       [] pay.meaning = "FIXED" -> IF pay.lower # Null THEN {pay.lower} ELSE {pay.upper}
       [] pay.meaning = "UP_TO" -> 0..(IF pay.upper # Null THEN pay.upper ELSE pay.lower)
       [] OTHER -> low..high
Reaches(x, pay, floor, hours) ==
  CASE pay.period = floor.period -> x >= floor.amount
    [] pay.period = "HOUR" /\ floor.period = "YEAR" -> x * hours >= floor.amount
    [] OTHER -> 2 * x >= (2 * floor.amount - 1) * hours

Rank(salary) == CASE salary.disposition = "FAIL" -> 0
                  [] salary.disposition = "ALLOWED_WITH_WARNING" -> 1
                  [] OTHER -> 2

\* A job passes the salary gate only when every pay it may offer reaches the
\* floor, is below it only when none does, and overlaps a floor above nothing when
\* some do; a higher floor or one permission less never lets a job in.
SalaryHolds(pay, floor, review, permitted, most) ==
  LET salary == evaluateSalary(pay, floor, review, permitted)
      offers == Offers(pay, most)
      reach  == {x \in offers : Reaches(x, pay, floor, review.hours)}
  IN /\ salary.status = "PUBLISHED_MEETS_MINIMUM" => reach = offers
     /\ salary.status = "PUBLISHED_BELOW_MINIMUM" => reach = {}
     /\ salary.status = "PUBLISHED_OVERLAPS_MINIMUM" /\ floor.amount > 0 =>
          reach # {} /\ reach # offers
     /\ Rank(salary) >=
          Rank(evaluateSalary(pay, [floor EXCEPT !.amount = @ + 1], review, permitted))
     /\ \A p \in permitted :
          Rank(salary) >= Rank(evaluateSalary(pay, floor, review, permitted \ {p}))

SalarySound ==
  \A pay \in PlainPay \cup MixedPay, floor \in Floor, review \in Review, permitted \in Permissions :
    SalaryHolds(pay, floor, review, permitted, 8)

Criterion == [wanted : {"PRESENT", "ABSENT"}, listing : {"PRESENT", "ABSENT", "SILENT"},
              waived : BOOLEAN]
Reviews == {"NONE", "SETTLED", "ALLOWED", "BLOCKED", "PARSER_UNCERTAIN", "EVIDENCE_CONFLICT"}
SomeSalary == {Salary("PUBLISHED_MEETS_MINIMUM", "PASS"), Salary("UNPUBLISHED", "FAIL"),
               Salary("PUBLISHED_OVERLAPS_MINIMUM", "ALLOWED_WITH_WARNING"),
               Salary("UNPUBLISHED", "ALLOWED_WITH_WARNING")}

\* A job is eligible only for a candidate of whom every possible completion
\* satisfies its requirements, and only with omissions that the customer or a
\* review accepted; a customer is asked only for a fact that decides the
\* requirements alone; no job is refused for what is merely unknown of the
\* candidate.
AnswerHolds(required, certain, hopeless, asked, c, r, s) ==
  LET customer == CustomerGate(c, r)
      answer   == deriveEligibility({required, customer, SalaryGate(s)})
  IN /\ answer \in Eligible =>
          /\ certain /\ s.disposition # "FAIL"
          /\ c.listing = c.wanted \/ (c.listing = "SILENT" /\
               (r = "ALLOWED" \/ (r = "NONE" /\ c.waived) \/ (r = "SETTLED" /\ c.wanted = "PRESENT")))
     /\ answer = "NEEDS_CANDIDATE_INPUT" => asked # {}
     /\ answer = "INELIGIBLE" =>
          \/ hopeless \/ customer.result = "FAIL" \/ s.disposition = "FAIL"
          \/ customer.issue = "EMPLOYER_OMITTED" /\ ~customer.consented

EligibilityHolds(t, d, issue, salaries) ==
  LET required == RequirementGate(t, d, issue)
      certain  == \A facts \in Candidates(t, d) : Holds(t, facts)
      hopeless == \A facts \in Candidates(t, d) : ~Holds(t, facts)
      asked    == {l \in Determinative(t, d) : issue[l] = "CANDIDATE_MISSING"}
  IN \A c \in Criterion, r \in Reviews, s \in salaries :
       AnswerHolds(required, certain, hopeless, asked, c, r, s)

EligibleIsCertain ==
  \A t \in Trees : Cardinality(Leaves(t)) <= 3 =>
    \A d \in [Leaves(t) -> Three], conflicts \in {{}, {Min(Leaf)}} :
      EligibilityHolds(t, d, [l \in Leaf |-> IF l \in conflicts THEN "EVIDENCE_CONFLICT"
                                             ELSE "CANDIDATE_MISSING"], SomeSalary)

EvaluationRow ==
  [eligibility : Eligible \cup {"INELIGIBLE", "NEEDS_CANDIDATE_INPUT", "NEEDS_HUMAN_REVIEW"},
   sufficient : BOOLEAN, usefulness : {"PASS", "FAIL", "HUMAN_REVIEW_REQUIRED"},
   salary : {"PASS", "FAIL"}, readiness : {"READY", "BLOCKED"}, listing : Three]

\* What a release takes and the count the request was accepted on agree: what can be
\* released was counted deliverable, what was counted, still has its facts and is
\* linked can be released, and what was excluded stays out whatever is authorized.
CountedAsReleased ==
  \A e \in EvaluationRow : \A authorized, active, linked \in BOOLEAN :
    /\ Releasable(e, authorized, active, linked) => Classified(e, authorized) = "DELIVERABLE"
    /\ Classified(e, authorized) = "DELIVERABLE" /\ active /\ linked
         => Releasable(e, authorized, active, linked)
    /\ Classified(e, FALSE) = "EXCLUDED" => ~Releasable(e, TRUE, active, linked)

===============================================================================
