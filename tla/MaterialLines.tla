----------------------------- MODULE MaterialLines -----------------------------
(***************************************************************************)
(* Documents sold for the matches of one delivered search: from the        *)
(* checkout that claims a match, over payment, review, substitutions and   *)
(* corrections, to the release of the files or the refund of the line.     *)
(* A line is a purchase of its own. Its refund at the provider is the      *)
(* subject of RefundOperation, the pool of units that of CapacityReserve:  *)
(* a call that finds no unit raises, which is a step not taken.            *)
(* Every call may also be refused for what is not modelled (a rule that    *)
(* is no longer current, a reviewer's rights, a missing permission).       *)
(***************************************************************************)
EXTENDS Naturals

CONSTANTS
  Line,      \* ap_material_lines, each with its purchase and checkout intent
  Match,     \* the matches of the delivered release
  Proposal,  \* ap_material_change_proposals that will be made
  None

ASSUME MaterialAssumption == None \notin Line \cup Match

VARIABLES
  line,     \* the line, its intent, deadline job and files of its revision
  payment,  \* the charge, the dispute and the refund of the line
  claim,    \* ap_material_entitlement_claims: the line that holds a match
  named,    \* the match in the line's latest row of the entitlement history
  proposal

materialVars == <<line, payment, claim, named, proposal>>

NoLine == [intent |-> "NONE", match |-> None, fulfillment |-> "NOT_PURCHASED",
           files |-> "NONE", checked |-> FALSE, released |-> FALSE,
           due |-> "NONE", job |-> "NONE", unit |-> "NONE"]
NoPayment == [charge |-> "NONE", dispute |-> "NONE", refund |-> "NONE"]
NoProposal == [state |-> "NONE", kind |-> "NONE", line |-> None, target |-> None,
               current |-> FALSE, expired |-> FALSE]

LineRow ==
  [intent : {"NONE", "READY", "OPEN", "COMPLETED", "FAILED", "EXPIRED"},
   match : Match \cup {None},
   fulfillment : {"NOT_PURCHASED", "PAID", "GENERATING", "HUMAN_REVIEW",
                  "READY_TO_RELEASE", "DELIVERED", "CANCELED"},
   files : {"NONE", "SOME", "MADE", "APPROVED"},  \* of the set for the revision: made, approved
   checked : BOOLEAN,                     \* its last check BEFORE_RELEASE was ACTIVE
   released : BOOLEAN,                    \* has a row in ap_releases
   due : {"NONE", "AHEAD", "PAST"},       \* of the checkout, then of the materials
   job : {"NONE", "WAITING", "DONE"},     \* MATERIAL_LINE_DEADLINE of the revision
   unit : {"NONE", "SPENT", "SUPERSEDED"}]  \* the allocation with a member of the revision
PaymentRow ==
  [charge : {"NONE", "TAKEN", "APPLIED"},  \* at the provider; then in the tables
   dispute : {"NONE", "OPEN", "WON", "LOST"},
   refund : {"NONE", "PENDING", "SUCCEEDED", "FAILED"}]
ProposalRow ==
  [state : {"NONE", "PROPOSED", "ACCEPTED", "DECLINED", "EXPIRED"},
   kind : {"NONE", "SUBSTITUTION", "FACT_CORRECTION"},
   line : Line \cup {None}, target : Match \cup {None},
   current : BOOLEAN,   \* whether its parent is the active revision
   expired : BOOLEAN]

MaterialInit ==
  /\ line = [l \in Line |-> NoLine]
  /\ payment = [l \in Line |-> NoPayment]
  /\ claim = [m \in Match |-> None]
  /\ named = [l \in Line |-> None]
  /\ proposal = [q \in Proposal |-> NoProposal]

MaterialTypeOK ==
  /\ line \in [Line -> LineRow]
  /\ \A l \in Line : line[l].match = None <=> line[l].intent = "NONE"
  /\ payment \in [Line -> PaymentRow]
  /\ claim \in [Match -> Line \cup {None}]
  /\ named \in [Line -> Match \cup {None}]
  /\ proposal \in [Proposal -> ProposalRow]

\* Fault: a line whose last file failed its checks is not looked at.
InReview(l) == line[l].fulfillment \in {"PAID", "HUMAN_REVIEW", "READY_TO_RELEASE"}

InWork(l)   == line[l].fulfillment \in {"PAID", "GENERATING", "HUMAN_REVIEW", "READY_TO_RELEASE"}
Disputed(l) == payment[l].dispute \in {"OPEN", "LOST"}
InTime(l)   == line[l].due = "AHEAD"
Refunding(l) == payment[l].refund # "NONE"

\* Where a change of the line may still be proposed, or a file registered.
Changeable(l) == InWork(l) /\ InTime(l) /\ ~Refunding(l) /\ ~line[l].released

-------------------------------------------------------------------------------
(* Checkout. *)

Begin(l, m) ==
  /\ line[l].intent = "NONE" /\ claim[m] = None
  /\ line' = [line EXCEPT ![l] = [@ EXCEPT !.intent = "READY", !.match = m, !.due = "AHEAD"]]
  /\ claim' = [claim EXCEPT ![m] = l]
  /\ named' = [named EXCEPT ![l] = m]
  /\ UNCHANGED <<payment, proposal>>

Promote(l) ==
  /\ line[l].intent = "READY" /\ InTime(l)
  /\ line' = [line EXCEPT ![l].intent = "OPEN"]
  /\ UNCHANGED <<payment, claim, named, proposal>>

\* The customer pays the session; its event reaches the tables later, perhaps
\* after the checkout's time has run out.
Charge(l) ==
  /\ line[l].intent = "OPEN" /\ InTime(l) /\ payment[l].charge = "NONE"
  /\ payment' = [payment EXCEPT ![l].charge = "TAKEN"]
  /\ UNCHANGED <<line, claim, named, proposal>>

\* By the job when its time is up, and before that by the event of a session the
\* provider ended or by a route that ended it: such a session is not paid.
ExpireCheckout(l) ==
  /\ line[l].intent \in {"READY", "OPEN"}
  /\ line[l].due = "PAST" \/ payment[l].charge = "NONE"
  /\ line' = [line EXCEPT ![l] = [@ EXCEPT !.intent = "EXPIRED", !.fulfillment = "CANCELED"]]
  /\ claim' = [m \in Match |->
       IF m = line[l].match /\ claim[m] = l THEN None ELSE claim[m]]
  /\ UNCHANGED <<payment, named, proposal>>

\* An allocation stays held while its intent is open, and a session does not
\* outlive it, so only the intent and the claim can make an activation invalid.
ValidActivation(l) == line[l].intent = "OPEN" /\ claim[line[l].match] = l

ApplyPayment(l) ==
  /\ payment[l].charge = "TAKEN"
  /\ IF ValidActivation(l)
     THEN /\ line' = [line EXCEPT ![l] = [@ EXCEPT
               !.intent = "COMPLETED", !.fulfillment = "PAID", !.due = "AHEAD", !.job = "WAITING",
               !.unit = "SPENT"]]
          /\ payment' = [payment EXCEPT ![l].charge = "APPLIED"]
     ELSE /\ line' = [line EXCEPT ![l] = [@ EXCEPT !.intent = "FAILED", !.fulfillment = "CANCELED"]]
          /\ payment' = [payment EXCEPT ![l] = [@ EXCEPT !.charge = "APPLIED", !.refund = "PENDING"]]
  /\ named' = [named EXCEPT ![l] = line[l].match]
  /\ UNCHANGED <<claim, proposal>>

-------------------------------------------------------------------------------
(* Refund, dispute and deadline. *)

\* Fault: a release that was committed meanwhile is not looked for.
NotYetRefunding(l) == ~Refunding(l)

Unsettled(l) == ~line[l].released /\ line[l].fulfillment # "DELIVERED" /\ ~Refunding(l)

\* ap_start_material_line_refund, in a call that writes row for the line: nothing
\* to do for a delivered or refunded one, raises for a disputed one.
StartRefund(l, row) ==
  IF Unsettled(l)
  THEN /\ ~Disputed(l)
       /\ line' = [line EXCEPT ![l] = [row EXCEPT !.fulfillment = "CANCELED",
                                                 !.files = "NONE"]]
       /\ payment' = [payment EXCEPT ![l].refund = "PENDING"]
       /\ named' = [named EXCEPT ![l] = line[l].match]
  ELSE /\ line' = [line EXCEPT ![l] = row]
       /\ UNCHANGED <<payment, named>>

\* The job of the active revision, made when it was accepted or by the enqueuer.
\* It raises, and comes again, where the refund does.
DeadlineJob(l) ==
  LET done == [line[l] EXCEPT !.job = "DONE"] IN
  /\ line[l].job = "WAITING" /\ line[l].due = "PAST"
  /\ \/ InWork(l) /\ StartRefund(l, done)
     \/ ~InWork(l) /\ line' = [line EXCEPT ![l] = done] /\ UNCHANGED <<payment, named>>
  /\ UNCHANGED <<claim, proposal>>

OpenDispute(l) ==
  /\ payment[l].charge = "APPLIED" /\ payment[l].dispute = "NONE"
  /\ payment' = [payment EXCEPT ![l].dispute = "OPEN"]
  /\ line' = [line EXCEPT ![l] = IF line[l].released THEN line[l] ELSE [@ EXCEPT
       !.fulfillment = IF line[l].fulfillment = "DELIVERED" THEN "DELIVERED" ELSE "CANCELED",
       !.unit = IF line[l].unit = "SPENT" THEN "SUPERSEDED" ELSE line[l].unit]]
  /\ UNCHANGED <<claim, named, proposal>>

LoseDispute(l) ==
  /\ payment[l].dispute = "OPEN"
  /\ payment' = [payment EXCEPT ![l].dispute = "LOST"]
  /\ UNCHANGED <<line, claim, named, proposal>>

\* A dispute won before the delivery gives the money back all the same.
WinDispute(l) ==
  /\ payment[l].dispute = "OPEN"
  /\ payment' = [payment EXCEPT
       ![l] = [@ EXCEPT
         !.dispute = "WON",
         !.refund = IF line[l].fulfillment = "CANCELED" /\ ~line[l].released /\ ~Refunding(l)
                    THEN "PENDING" ELSE payment[l].refund]]
  /\ UNCHANGED <<line, claim, named, proposal>>

\* The full refund releases the match the line's latest history row names,
\* whichever line has claimed it since.
RefundSucceeds(l) ==
  /\ payment[l].refund = "PENDING"
  /\ payment' = [payment EXCEPT ![l].refund = "SUCCEEDED"]
  /\ claim' = [claim EXCEPT ![named[l]] = None]
  /\ UNCHANGED <<line, named, proposal>>

RefundFails(l) ==
  /\ payment[l].refund = "PENDING"
  /\ payment' = [payment EXCEPT ![l].refund = "FAILED"]
  /\ UNCHANGED <<line, claim, named, proposal>>

RetryRefund(l) ==
  /\ payment[l].refund = "FAILED"
  /\ payment' = [payment EXCEPT ![l].refund = "PENDING"]
  /\ UNCHANGED <<line, claim, named, proposal>>

-------------------------------------------------------------------------------
(* Files, checks and the release. *)

\* Which files are usable after a version of one of the two or three is registered.
FilesAfter(files, passed) ==
  CASE files = "NONE" -> IF passed THEN {"SOME"} ELSE {"NONE"}
    [] files = "SOME" -> IF passed THEN {"SOME", "MADE"} ELSE {"NONE", "SOME"}
    [] OTHER -> IF passed THEN {"MADE"} ELSE {"SOME"}

\* A version whose automated checks pass or not; it is to be approved anew.
RegisterFile(l, passed) ==
  /\ Changeable(l)
  /\ \E files \in FilesAfter(line[l].files, passed) :
       line' = [line EXCEPT
         ![l] = [@ EXCEPT !.files = files,
                          !.fulfillment = IF passed THEN "HUMAN_REVIEW" ELSE "GENERATING"]]
  /\ UNCHANGED <<payment, claim, named, proposal>>

\* A reviewer approves one file of the set, which may complete it. Neither the
\* deadline nor a dispute is looked at.
ApproveFile(l, complete) ==
  /\ line[l].files # "NONE"
  /\ line[l].files = "APPROVED" => complete
  /\ line[l].files = "SOME" => ~complete
  /\ line' = [line EXCEPT
       ![l] = [@ EXCEPT
         !.files = IF complete THEN "APPROVED" ELSE line[l].files,
         !.fulfillment = IF line[l].fulfillment = "DELIVERED" THEN "DELIVERED"
                         ELSE IF complete THEN "READY_TO_RELEASE" ELSE "HUMAN_REVIEW"]]
  /\ UNCHANGED <<payment, claim, named, proposal>>

CheckListing(l, phase, active) ==
  /\ InWork(l)
  /\ line' = [line EXCEPT
       ![l] = [@ EXCEPT
         !.checked = IF phase = "BEFORE_RELEASE" THEN active ELSE line[l].checked,
         !.files = IF active THEN line[l].files ELSE "NONE",
         !.fulfillment = IF active THEN line[l].fulfillment ELSE "HUMAN_REVIEW"]]
  /\ UNCHANGED <<payment, claim, named, proposal>>

\* It completes the unit of the revision, which a trigger refuses for one that a
\* dispute superseded.
CommitRelease(l) ==
  /\ line[l].fulfillment = "READY_TO_RELEASE" /\ InTime(l)
  /\ ~Disputed(l) /\ ~Refunding(l)
  /\ line[l].checked /\ line[l].files = "APPROVED" /\ line[l].unit # "SUPERSEDED"
  /\ line' = [line EXCEPT ![l] = [@ EXCEPT !.fulfillment = "DELIVERED", !.released = TRUE]]
  /\ named' = [named EXCEPT ![l] = line[l].match]
  /\ UNCHANGED <<payment, claim, proposal>>

-------------------------------------------------------------------------------
(* Changes of a paid line. *)

Propose(q, l, kind, target) ==
  proposal' = [proposal EXCEPT ![q] =
    [state |-> "PROPOSED", kind |-> kind, line |-> l, target |-> target,
     current |-> TRUE, expired |-> FALSE]]

OfferSubstitution(q, l, m) ==
  /\ proposal[q].state = "NONE" /\ Changeable(l)
  /\ m # line[l].match /\ claim[m] = None
  /\ Propose(q, l, "SUBSTITUTION", m)
  /\ UNCHANGED <<line, payment, claim, named>>

ProposeCorrection(q, l) ==
  /\ proposal[q].state = "NONE" /\ Changeable(l)
  /\ Propose(q, l, "FACT_CORRECTION", None)
  /\ line' = [line EXCEPT ![l] = [@ EXCEPT !.files = "NONE", !.fulfillment = "HUMAN_REVIEW"]]
  /\ UNCHANGED <<payment, claim, named>>

\* Every revision of a line leaves its other proposals with an old parent.
Revise(l, accepted) ==
  proposal' = [q \in Proposal |->
    IF proposal[q].line # l THEN proposal[q]
    ELSE [proposal[q] EXCEPT !.state = IF q \in accepted THEN "ACCEPTED" ELSE @,
                             !.current = FALSE]]

Acceptable(q) ==
  LET l == proposal[q].line IN
  /\ proposal[q].state = "PROPOSED" /\ proposal[q].current /\ ~proposal[q].expired
  /\ Changeable(l) /\ ~Disputed(l)

\* Fault: the match may have been sold since it was offered.
TargetOffered(q) == proposal[q].kind = "SUBSTITUTION"

\* Fault: a correction's proposal is taken for a substitution.
TargetUnclaimed(q) == \A m \in Match : m = proposal[q].target => claim[m] = None

TargetFree(q) ==
  /\ proposal[q].kind = "SUBSTITUTION"
  /\ claim[proposal[q].target] = None

\* A fresh unit and a fresh deadline for the new revision.
NewRevision(l, m) ==
  line' = [line EXCEPT
    ![l] = [@ EXCEPT !.match = m, !.fulfillment = "PAID", !.files = "NONE",
                     !.checked = FALSE, !.due = "AHEAD", !.job = "WAITING",
                     !.unit = "SPENT"]]

\* Two history rows of one transaction bear the same time: which of them is the
\* latest afterwards is left to their random ids.
AcceptSubstitution(q) ==
  LET l == proposal[q].line  old == line[l].match  new == proposal[q].target IN
  /\ Acceptable(q) /\ TargetFree(q)
  /\ NewRevision(l, new)
  /\ claim' = [claim EXCEPT ![old] = None, ![new] = l]
  /\ \E m \in {old, new} : named' = [named EXCEPT ![l] = m]
  /\ Revise(l, {q})
  /\ UNCHANGED payment

AcceptCorrection(q) ==
  LET l == proposal[q].line IN
  /\ Acceptable(q) /\ proposal[q].kind = "FACT_CORRECTION"
  /\ NewRevision(l, line[l].match)
  /\ named' = [named EXCEPT ![l] = line[l].match]
  /\ Revise(l, {q})
  /\ UNCHANGED <<payment, claim>>

\* The customer takes references out or back: a new revision, which no unit has for
\* a member, with the same deadline, whose job the enqueuer makes.
AmendReferences(l) ==
  /\ Changeable(l) /\ ~Disputed(l)
  /\ line' = [line EXCEPT ![l] = [@ EXCEPT !.fulfillment = "PAID", !.files = "NONE",
                                            !.checked = FALSE, !.job = "WAITING",
                                            !.unit = "NONE"]]
  /\ named' = [named EXCEPT ![l] = line[l].match]
  /\ Revise(l, {})
  /\ UNCHANGED <<payment, claim>>

\* Declined by the customer, or expired by its job: the line is refunded, also
\* when the proposal is one an accepted other has left behind.
EndProposal(q, state) ==
  /\ proposal[q].state = "PROPOSED"
  /\ state = "EXPIRED" => proposal[q].expired
  /\ proposal' = [proposal EXCEPT ![q].state = state]
  /\ StartRefund(proposal[q].line, line[proposal[q].line])
  /\ UNCHANGED claim

-------------------------------------------------------------------------------
(* Time. A proposal ends no later than the line it was made for. *)

ProposalLapses(q) ==
  /\ proposal[q].state = "PROPOSED" /\ ~proposal[q].expired
  /\ proposal' = [proposal EXCEPT ![q].expired = TRUE]
  /\ UNCHANGED <<line, payment, claim, named>>

DuePasses(l) ==
  /\ InTime(l)
  /\ line' = [line EXCEPT ![l].due = "PAST"]
  /\ proposal' = [q \in Proposal |->
       IF proposal[q].line = l /\ proposal[q].state = "PROPOSED"
       THEN [proposal[q] EXCEPT !.expired = TRUE] ELSE proposal[q]]
  /\ UNCHANGED <<payment, claim, named>>

-------------------------------------------------------------------------------
SellLine(l) ==
  \/ \E m \in Match : Begin(l, m)
  \/ Promote(l) \/ Charge(l) \/ ExpireCheckout(l) \/ ApplyPayment(l)

SettleLine(l) ==
  \/ DeadlineJob(l) \/ OpenDispute(l) \/ LoseDispute(l) \/ WinDispute(l)
  \/ RefundSucceeds(l) \/ RefundFails(l) \/ RetryRefund(l)

WorkOnLine(l) ==
  \/ \E passed \in BOOLEAN : RegisterFile(l, passed) \/ ApproveFile(l, passed)
  \/ \E phase \in {"BEFORE_GENERATION", "BEFORE_RELEASE"}, active \in BOOLEAN :
       CheckListing(l, phase, active)
  \/ CommitRelease(l) \/ AmendReferences(l)

ChangeLine(q) ==
  \/ \E l \in Line : ProposeCorrection(q, l) \/ \E m \in Match : OfferSubstitution(q, l, m)
  \/ AcceptSubstitution(q) \/ AcceptCorrection(q) \/ ProposalLapses(q)
  \/ \E state \in {"DECLINED", "EXPIRED"} : EndProposal(q, state)

MaterialNext ==
  \/ \E l \in Line : SellLine(l) \/ SettleLine(l) \/ WorkOnLine(l) \/ DuePasses(l)
  \/ \E q \in Proposal : ChangeLine(q)

MaterialSpec == MaterialInit /\ [][MaterialNext]_materialVars

-------------------------------------------------------------------------------
(* Properties. *)

Live(l) == line[l].intent = "COMPLETED" /\ payment[l].refund # "SUCCEEDED"

\* No line is both delivered and refunded, and a line whose payment was taken and
\* whose work was called off is being refunded unless the bank decides: whatever
\* order approvals, releases, disputes, declined proposals and deadlines come in.
LineIsAnswered ==
  \A l \in Line :
    /\ line[l].released => ~Refunding(l)
    /\ line[l].fulfillment = "CANCELED" /\ payment[l].charge = "APPLIED" =>
         Refunding(l) \/ Disputed(l)

\* Two ways in which a full refund releases a match that is not its line's own: of
\* a payment refused because its checkout had ended, and after a substitution whose
\* old match's row came out as the latest.
Crossed(m) ==
  \E l \in Line :
    /\ payment[l].refund = "SUCCEEDED"
    /\ \/ line[l].intent = "FAILED" /\ line[l].match = m
       \/ named[l] # line[l].match /\ m \in {named[l], line[l].match}

\* Apart from these, a match is claimed by the line that is being bought or worked
\* on for it, hence sold once at a time, and free again when the line is refunded.
ClaimFollowsLine ==
  \A m \in Match : Crossed(m) \/
    \A l \in Line :
      claim[m] = l <=>
        line[l].match = m /\ (line[l].intent \in {"READY", "OPEN"} \/ Live(l))

\* A paid line is delivered or refunded, unless its payment is disputed, however
\* often its references, facts and match are changed.
PaidLineEnds ==
  \A l \in Line :
    Live(l) ~> line[l].released \/ Refunding(l) \/ payment[l].dispute # "NONE"

===============================================================================
