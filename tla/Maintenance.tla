------------------------------ MODULE Maintenance ------------------------------
(***************************************************************************)
(* The maintenance request that the schedule sends every quarter of an     *)
(* hour: diagnosis, repair stages gated by it, the commerce workers' pass  *)
(* over the outbox, verification, and the alerts and the heartbeat that    *)
(* report it. Requests may overlap and may die at any await.               *)
(*                                                                         *)
(* What one function writes to the alerts is one step.                     *)
(***************************************************************************)
EXTENDS Outbox

CONSTANTS
  Dependency,  \* the not-ready codes an instance looks at
  MaxFaults    \* bound on the requests that die and the stages that fail

DependencyCode == {"DATABASE_NOT_READY", "EMAIL_NOT_READY", "ENCRYPTION_NOT_READY",
                   "FILE_SAFETY_NOT_READY", "SOURCE_PERMISSION_COVERAGE_MISSING"}

ASSUME MaintenanceAssumption ==
  /\ Dependency \subseteq DependencyCode
  /\ MaxFaults \in Nat

VARIABLES
  ready,      \* whether a dependency answers its readiness check
  open,       \* open alerts maintenance/<code>
  request,    \* the stage a request is at, what it diagnosed and has done
  heartbeat,  \* the phase operational_heartbeats shows
  faults      \* deaths and failures so far

reportVars == <<open, heartbeat>>
maintenanceVars == <<outboxVars, ready, reportVars, request, faults>>

BlockingCode == "CRITICAL_SECURITY_OR_INTEGRITY_ALERT_OPEN"
StaleCode    == {"OUTBOX_QUEUE_STALE", "COMMERCE_RECONCILIATION_STALE"}
Action       == {"EXPIRED_LEASE_RECOVERY", "EXPIRATION_CLEANUP", "DOCUMENT_PROCESSING",
                 "BOUNDED_QUEUE_PROCESSING", "STRIPE_RECONCILIATION",
                 "BOARD_RECOMPUTATION"}
Failure == [EXPIRED_LEASE_RECOVERY   |-> "EXPIRED_LEASE_RECOVERY_FAILED",
            EXPIRATION_CLEANUP       |-> "EXPIRATION_CLEANUP_FAILED",
            DOCUMENT_PROCESSING      |-> "DOCUMENT_PROCESSING_FAILED",
            BOUNDED_QUEUE_PROCESSING |-> "BOUNDED_QUEUE_PROCESSING_FAILED",
            STRIPE_RECONCILIATION    |-> "STRIPE_RECONCILIATION_FAILED",
            BOARD_RECOMPUTATION      |-> "BOARD_RECOMPUTATION_FAILED"]
PostDiagnosisCode == {Failure[a] : a \in Action} \cup {"MAINTENANCE_VERIFICATION_FAILED"}
Code == DependencyCode \cup StaleCode \cup PostDiagnosisCode
          \cup {BlockingCode, "MAINTENANCE_DIAGNOSIS_FAILED"}

Untouched == [a \in Action |-> "NONE"]
Asleep    == [stage |-> "IDLE", before |-> {}, after |-> {}, done |-> Untouched]

MaintenanceInit ==
  /\ OutboxInit
  /\ ready = [d \in Dependency |-> TRUE]
  /\ open = {}
  /\ request = [p \in Pass |-> Asleep]
  /\ heartbeat = "NONE"
  /\ faults = 0

-------------------------------------------------------------------------------
\* collectOperationsSummary with diagnoseOperations. A queue is stale when its
\* oldest message has been actionable for a quarter of an hour; a dead letter
\* keeps the reconciliation stale for good.
Actionable == {m \in Message : Claimable(m) \/ row[m].state = "SENDING"}
Diagnoses ==
  {{d \in Dependency : ~ready[d]}
     \cup (IF critical # {} THEN {BlockingCode} ELSE {})
     \cup (IF \E m \in Message : row[m].state = "DEAD_LETTER"
           THEN {"COMMERCE_RECONCILIATION_STALE"} ELSE {})
     \cup stale : stale \in IF Actionable = {} THEN {{}}
                            ELSE {{}, {"OUTBOX_QUEUE_STALE"}}}

\* reconcileMaintenanceAlerts: the code derived from other alerts is not kept.
Reconcile(active, preserved) ==
  open' = (active \ {BlockingCode}) \cup (open \cap preserved)

Fault == faults < MaxFaults /\ faults' = faults + 1
Sound == faults' = faults
At(p, stage) == request[p].stage = stage
Moves(p, stage) == request' = [request EXCEPT ![p].stage = stage]
Ends(p) == request' = [request EXCEPT ![p] = Asleep]
Records(p, action, status, next) ==
  request' = [request EXCEPT ![p] = [@ EXCEPT !.stage = next, !.done[action] = status]]

\* recordMaintenanceFailure: the request answers 503 and is over.
FailRequest(p, diagnosed, done, code) ==
  /\ Reconcile(diagnosed \cup {code},
               PostDiagnosisCode \ {Failure[a] : a \in {b \in Action : done[b] = "SUCCEEDED"}})
  /\ heartbeat' = IF heartbeat = "NONE" THEN "NONE" ELSE "FAILED"
  /\ Ends(p)

Collect(p) ==
  /\ At(p, "IDLE")
  /\ \/ /\ Sound
        /\ \E codes \in Diagnoses :
             request' = [request EXCEPT ![p] = [Asleep EXCEPT !.stage = "DIAGNOSE",
                                                              !.before = codes]]
        /\ UNCHANGED reportVars
     \/ Fault /\ FailRequest(p, {}, Untouched, "MAINTENANCE_DIAGNOSIS_FAILED")
  /\ UNCHANGED <<outboxVars, ready>>

\* Fault: the diagnosis closes every alert it does not find itself.
DiagnoseForgets(p) ==
  /\ At(p, "DIAGNOSE")
  /\ Sound
  /\ Reconcile(request[p].before, {})
  /\ heartbeat' = IF heartbeat = "NONE" THEN "NONE" ELSE "DIAGNOSED"
  /\ IF request[p].before \cap {"DATABASE_NOT_READY", BlockingCode} # {}
     THEN Ends(p) ELSE Moves(p, "RECOVER")
  /\ UNCHANGED <<outboxVars, ready>>

\* recordMaintenanceDiagnosis and the global stop.
Diagnose(p) ==
  /\ At(p, "DIAGNOSE")
  /\ \/ /\ Sound
        /\ Reconcile(request[p].before, PostDiagnosisCode)
        /\ heartbeat' = IF heartbeat = "NONE" THEN "NONE" ELSE "DIAGNOSED"
        /\ IF request[p].before \cap {"DATABASE_NOT_READY", BlockingCode} # {}
           THEN Ends(p) ELSE Moves(p, "RECOVER")
     \/ Fault /\ Ends(p) /\ UNCHANGED reportVars
  /\ UNCHANGED <<outboxVars, ready>>

\* A stage whose failure ends the request.
Repair(p, stage, action, next) ==
  /\ At(p, stage)
  /\ \/ /\ Sound
        /\ Records(p, action, "SUCCEEDED", next)
        /\ UNCHANGED reportVars
     \/ /\ Fault
        /\ FailRequest(p, request[p].before, request[p].done, Failure[action])
  /\ UNCHANGED <<outboxVars, ready>>

\* A stage whose failure is recorded only, skipped unless its gates are ready.
Gated(p, stage, action, gates, next) ==
  /\ At(p, stage)
  /\ \E status \in {"SUCCEEDED", "FAILED", "SKIPPED"} :
       /\ (status = "SKIPPED") <=> (request[p].before \cap gates # {})
       /\ IF status = "FAILED" THEN Fault ELSE Sound
       /\ Records(p, action, status, next)
  /\ UNCHANGED <<outboxVars, ready, reportVars>>

\* The letters about deadlines: only their query's failure ends the request.
Deadlines(p) ==
  /\ At(p, "DEADLINES")
  /\ \/ Sound /\ Moves(p, "DOCUMENTS") /\ UNCHANGED reportVars
     \/ /\ Fault /\ "EMAIL_NOT_READY" \notin request[p].before
        /\ FailRequest(p, request[p].before, request[p].done,
                       "BOUNDED_QUEUE_PROCESSING_FAILED")
  /\ UNCHANGED <<outboxVars, ready>>

\* The queues, with one status for all of them: processChunk4Workers, the last,
\* starts with its pass over the outbox.
EnterQueues(p) ==
  /\ At(p, "QUEUES")
  /\ IF "ENCRYPTION_NOT_READY" \in request[p].before
     THEN /\ \E status \in {"FAILED", "SKIPPED"} :
               /\ IF status = "FAILED" THEN Fault ELSE Sound
               /\ Records(p, "BOUNDED_QUEUE_PROCESSING", status, "STRIPE")
          /\ UNCHANGED outboxVars
     ELSE StartPass(p) /\ Moves(p, "COMMERCE") /\ Sound
  /\ UNCHANGED <<ready, reportVars>>

\* What one of the queues is skipped for; that of the scanner may not be configured.
QueueGates ==
  {gates \in SUBSET {"EMAIL_NOT_READY", "SOURCE_PERMISSION_COVERAGE_MISSING",
                     "FILE_SAFETY_NOT_READY"} :
     {"EMAIL_NOT_READY", "SOURCE_PERMISSION_COVERAGE_MISSING"} \subseteq gates}

LeaveQueues(p) ==
  /\ At(p, "COMMERCE") /\ pass[p].at \in {"DONE", "THROWN"}
  /\ \E failed \in BOOLEAN, gates \in QueueGates :
       /\ IF failed THEN Fault ELSE Sound
       /\ Records(p, "BOUNDED_QUEUE_PROCESSING",
                  IF failed \/ pass[p].at = "THROWN" THEN "FAILED"
                  ELSE IF request[p].before \cap gates # {} THEN "SKIPPED"
                  ELSE "SUCCEEDED", "STRIPE")
  /\ EndPass(p)
  /\ UNCHANGED <<ready, reportVars>>

Verify(p) ==
  /\ At(p, "VERIFY")
  /\ \/ /\ Sound
        /\ \E codes \in Diagnoses :
             request' = [request EXCEPT ![p] = [@ EXCEPT !.stage = "OUTCOME",
                                                         !.after = codes]]
        /\ UNCHANGED reportVars
     \/ /\ Fault
        /\ FailRequest(p, request[p].before, request[p].done,
                       "MAINTENANCE_VERIFICATION_FAILED")
  /\ UNCHANGED <<outboxVars, ready>>

Unresolved(p) == request[p].after
                   \cup {Failure[a] : a \in {b \in Action : request[p].done[b] = "FAILED"}}

\* recordMaintenanceOutcome: alerts first, then the heartbeat.
Resolve(p) ==
  /\ At(p, "OUTCOME")
  /\ \/ Sound /\ Reconcile(Unresolved(p), {}) /\ Moves(p, "REPORT")
     \/ Fault /\ Ends(p) /\ UNCHANGED open
  /\ UNCHANGED <<outboxVars, ready, heartbeat>>

Report(p) ==
  /\ At(p, "REPORT")
  /\ heartbeat' = IF Unresolved(p) = {} /\ \A a \in Action : request[p].done[a] = "SUCCEEDED"
                  THEN "VERIFIED"
                  ELSE IF heartbeat = "NONE" THEN "NONE" ELSE "FAILED"
  /\ Ends(p)
  /\ UNCHANGED <<outboxVars, ready, open, faults>>

Request(p) ==
  \/ Collect(p)
  \/ Diagnose(p)
  \/ Repair(p, "RECOVER", "EXPIRED_LEASE_RECOVERY", "CLEANUP")
  \/ Repair(p, "CLEANUP", "EXPIRATION_CLEANUP", "DEADLINES")
  \/ Deadlines(p)
  \/ Gated(p, "DOCUMENTS", "DOCUMENT_PROCESSING",
           {"FILE_SAFETY_NOT_READY", "ENCRYPTION_NOT_READY"}, "QUEUES")
  \/ EnterQueues(p)
  \/ At(p, "COMMERCE") /\ Advance(p) /\ UNCHANGED <<ready, reportVars, request, faults>>
  \/ LeaveQueues(p)
  \/ Gated(p, "STRIPE", "STRIPE_RECONCILIATION", {}, "BOARD")
  \/ Gated(p, "BOARD", "BOARD_RECOMPUTATION", {"SOURCE_PERMISSION_COVERAGE_MISSING"}, "VERIFY")
  \/ Verify(p)
  \/ Resolve(p)
  \/ Report(p)

\* The server is replaced, or the request runs out of time.
Die(p) ==
  /\ ~At(p, "IDLE")
  /\ Fault
  /\ Ends(p)
  /\ EndPass(p) \/ (Current(p, "OFF") /\ UNCHANGED outboxVars)
  /\ UNCHANGED <<ready, reportVars>>

ReadinessChanges(d) ==
  /\ ready' = [ready EXCEPT ![d] = ~@]
  /\ UNCHANGED <<outboxVars, reportVars, request, faults>>

Elsewhere(action) == action /\ UNCHANGED <<ready, reportVars, request, faults>>

MaintenanceNext ==
  \/ \E p \in Pass : Request(p) \/ Die(p)
  \/ \E d \in Dependency : ReadinessChanges(d)
  \/ \E m \in Message : Elsewhere(Queue(m)) \/ Elsewhere(OutboxTime(m))

MaintenanceSpec == MaintenanceInit /\ [][MaintenanceNext]_maintenanceVars

\* The schedule keeps sending requests, a live server carries them on, and
\* time passes.
MaintenanceFairness ==
  /\ \A p \in Pass : WF_maintenanceVars(Request(p))
  /\ \A m \in Message :
       /\ WF_maintenanceVars(Elsewhere(LeaseLapses(m)))
       /\ WF_maintenanceVars(Elsewhere(RetryComes(m)))
       /\ SF_maintenanceVars(Elsewhere(WindowCloses(m)))

-------------------------------------------------------------------------------
MaintenanceTypeOK ==
  /\ OutboxTypeOK
  /\ ready \in [Dependency -> BOOLEAN]
  /\ open \in SUBSET Code
  /\ request \in [Pass ->
       [stage : {"IDLE", "DIAGNOSE", "RECOVER", "CLEANUP", "DEADLINES", "DOCUMENTS", "QUEUES",
                 "COMMERCE", "STRIPE", "BOARD", "VERIFY", "OUTCOME", "REPORT"},
        before : SUBSET Code, after : SUBSET Code,
        done : [Action -> {"NONE", "SUCCEEDED", "FAILED", "SKIPPED"}]]]
  /\ heartbeat \in {"NONE", "DIAGNOSED", "FAILED", "VERIFIED"}
  /\ faults \in 0 .. MaxFaults

\* An alert that an action failed is closed only by a request that has come
\* past that action without its failing, however requests overlap or die.
FailureAlertKept ==
  [][\A a \in Action :
       Failure[a] \in open /\ Failure[a] \notin open'
         => \E p \in Pass : /\ ~At(p, "IDLE")
                            /\ request[p].done[a] \in {"SUCCEEDED", "SKIPPED"}]_maintenanceVars

\* What a request must settle: no VERIFIED heartbeat yet, or a message under way.
MaintenanceUnsettled ==
  /\ critical = {}
  /\ heartbeat # "VERIFIED" \/ \E m \in Message : ~Ended(m) /\ row[m].state # "ABSENT"
===============================================================================
