------------------------------- MODULE MCPlatform -------------------------------
(***************************************************************************)
(* Small instances of the components that work beside the checkout. In the *)
(* code they meet in no row that decides a step of another, so one run     *)
(* checks them side by side: the initial state picks the component that    *)
(* moves, and with which of its actors.                                    *)
(***************************************************************************)
EXTENDS Maintenance, DraftDocuments, Feasibility

CONSTANTS p1, p2, d1, d2, r1, r2, c1, c2, j1, j2, m1, worker

ASSUME PlatformAssumption ==
  /\ {p1, p2} \subseteq Pass /\ d1 \in Document /\ r1 \in Reader /\ c1 \in Cleaner
  /\ j1 \in Listing

\* What is computed of one listing and one candidate, and of their set.
Match == INSTANCE MatchEvaluation WITH Inner <- 0..1, Leaf <- 2..4
Tree  == INSTANCE RequirementTree WITH Inner <- 0..2, Leaf <- 3..5
Pick  == INSTANCE MatchSelection

OneOwner == [p \in Pass |-> worker]

VARIABLE subject

platformVars == <<subject, maintenanceVars, documentVars, feasibilityVars>>

Subject == {"passes", "requests", "overlap", "reading", "buying", "racing", "deleting",
            "matching", "criteria", "assessing", "evaluating"}

PlatformInit ==
  /\ subject \in Subject
  /\ MaintenanceInit
  /\ DocumentInit
  /\ FeasibilityInit

Of(group, action) == subject \in group /\ action /\ UNCHANGED subject

-------------------------------------------------------------------------------
(* Messages and maintenance: overlapping passes; one request with a message; *)
(* overlapping requests.                                                     *)
Mail(group, action) == Of(group, action) /\ UNCHANGED <<documentVars, feasibilityVars>>
Passes(group, action) == Mail(group, action) /\ UNCHANGED <<ready, reportVars, request, faults>>

MailStep ==
  \/ Passes({"passes"}, OutboxNext)
  \/ Mail({"requests", "overlap"}, Request(p1) \/ Die(p1))
  \/ Mail({"overlap"}, Request(p2) \/ Die(p2))
  \/ Mail({"requests", "overlap"}, \E d \in Dependency : ReadinessChanges(d))
  \/ Passes({"requests"}, \E m \in Message : Queue(m) \/ OutboxTime(m))

MailFairness ==
  /\ WF_platformVars(Mail({"requests"}, Request(p1)))
  /\ <>[](\A d \in Dependency : ready[d])
  /\ \A m \in Message :
       /\ WF_platformVars(Passes({"requests"}, LeaseLapses(m)))
       /\ WF_platformVars(Passes({"requests"}, RetryComes(m)))
       /\ SF_platformVars(Passes({"requests"}, WindowCloses(m)))

-------------------------------------------------------------------------------
(* Documents: two readers; a purchase; two cleaners of one document; one of two. *)
Draft(group, action) == Of(group, action) /\ UNCHANGED <<maintenanceVars, feasibilityVars>>

HandledIn(group, docs) ==
  Draft(group, \/ \E d \in docs : StoreUpload(d) \/ RemoveDocument(d) \/ DocumentTime(d)
               \/ RegisterUpload \/ UndoUpload \/ HandlerDies \/ DraftExpires)

DraftStep ==
  \/ HandledIn({"reading", "buying", "racing"}, {d1})
  \/ HandledIn({"deleting"}, Document)
  \/ Draft({"reading"}, RetryDocument(d1) \/ QueueRetry)
  \/ Draft({"reading"}, \E r \in Reader : Read(r) \/ ReaderDies(r))
  \/ Draft({"buying"}, Read(r1) \/ FinalizeDraft \/ EditDraft \/ BuyDraft)
  \/ Draft({"racing"}, \E c \in Cleaner : Clean(c) \/ CleanerDies(c))
  \/ Draft({"buying", "deleting"}, Clean(c1) \/ CleanerDies(c1))
  \/ Draft({"buying", "racing", "deleting"}, ChangeHold)

\* A lease that runs out under a cleaner that is still at work.
OutlivesLease(c) ==
  /\ cleaner[c].at # "IDLE"
  /\ \E d \in Document : cleanup[d].holder = c /\ CleanupLeaseLapses(d)

\* Readers may die for ever: a third attempt is the last. Cleaners are retried
\* without end, so in the long run one must live, keep its lease and be answered.
DraftFairness ==
  /\ \A r \in Reader : WF_platformVars(Draft({"reading"}, Read(r)))
  /\ WF_platformVars(Draft({"reading"}, ReadLeaseLapses(d1)))
  /\ WF_platformVars(Draft({"reading"}, ReadComesDue(d1)))
  /\ \A c \in Cleaner :
       /\ WF_platformVars(Draft({"racing"}, Clean(c)))
       /\ SF_platformVars(Draft({"racing"}, AuthorizeDelete(c) /\ cleaner'[c].at = "REMOVE"))
       /\ SF_platformVars(Draft({"racing"}, RemoveBytes(c) /\ cleaner'[c].at = "REMOVED"))
  /\ WF_platformVars(Draft({"racing"}, CleanupLeaseLapses(d1)))
  /\ <>[][\A c \in Cleaner : ~CleanerDies(c) /\ ~OutlivesLease(c)]_platformVars

-------------------------------------------------------------------------------
(* Feasibility: two jobs and a correction; new criteria and deaths; one job   *)
(* under a worker that is kept going (a claim has no lease, so it must live). *)
Inquire(group, action) == Of(group, action) /\ UNCHANGED <<maintenanceVars, documentVars>>

MatchStep ==
  \/ Inquire({"matching"},
       \/ BeginRound(TRUE) \/ Answer(<<j1, 0>>) \/ LoadFails
       \/ \E s \in Snap : Latest > 0 /\ Admit(Latest, s)
       \/ \E p \in 1..Latest :
            \/ CompleteSearch(p) \/ CorrectListing(p, j1)
            \/ \E s \in Snap, v \in Verdict : (v = "INPUT" => s[1] = j1) /\ Evaluate(p, s, v))
  \/ Inquire({"criteria", "assessing"},
       \/ \E p \in 1..Latest, i \in {0, 1} :
            \/ Admit(p, <<j1, i>>) \/ CompleteSearch(p)
            \/ \E v \in Verdict : Evaluate(p, <<j1, i>>, v)
       \/ \E i \in {0, 1} : Answer(<<j1, i>>)
       \/ LoadFails)
  \/ Inquire({"criteria"}, AssessorDies \/ FinalizeAgain
                         \/ \E manual \in BOOLEAN : Latest = 0 /\ BeginRound(manual))
  \/ Inquire({"assessing"}, \/ \E manual \in BOOLEAN : BeginRound(manual)
                          \/ \E p \in 1..Latest : CorrectListing(p, j1))
  \/ Inquire({"matching", "criteria", "assessing"}, Assess)

MatchFairness == WF_platformVars(Inquire({"assessing"}, Assess))

-------------------------------------------------------------------------------
PlatformNext == MailStep \/ DraftStep \/ MatchStep

PlatformSpec ==
  /\ PlatformInit /\ [][PlatformNext]_platformVars
  /\ MailFairness /\ DraftFairness /\ MatchFairness

PlatformTypeOK == MaintenanceTypeOK /\ DocumentTypeOK /\ FeasibilityTypeOK

\* The computed results, over the bounded inputs of their modules.
EvaluationSound ==
  subject = "evaluating" =>
    /\ Tree!TreeSound
    /\ Match!SalarySound /\ Match!EligibleIsCertain /\ Match!CountedAsReleased
    /\ Pick!InventorySound /\ Pick!SelectionSound

\* The obligations of the groups whose actors are kept going.
Unfinished ==
  CASE subject = "requests" -> MaintenanceUnsettled
    [] subject = "racing"   -> DeletionOwed
    [] subject = "reading"  -> ReadingOwed
    [] subject = "assessing" -> AssessmentOwed
    [] OTHER -> FALSE

\* Maintenance comes back to a verified heartbeat and sends or gives up every
\* message after its dependencies are ready again (unless a critical alert
\* stopped it); an authorized deletion is carried out; a queued reading ends; a
\* request whose research is finished and evaluated is decided.
PlatformProgress == Unfinished ~> ~Unfinished

===============================================================================
