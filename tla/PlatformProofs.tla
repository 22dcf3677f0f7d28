---------------------------- MODULE PlatformProofs ----------------------------
(***************************************************************************)
(* Proofs about the components that work beside the checkout.              *)
(*                                                                         *)
(* Outbox, for any messages, passes and owners: overlapping passes that    *)
(* share an owner, die, or run past their lease lose no message, and send  *)
(* one twice only after its window.                                        *)
(*                                                                         *)
(* Maintenance, for any requests and dependencies: what it does to the     *)
(* messages is what the outbox allows, and an alert of a failed action is  *)
(* closed only by a request that came past the action.                     *)
(*                                                                         *)
(* MCPlatform: side by side every component keeps what it promises alone,  *)
(* and the computed results are right.                                     *)
(***************************************************************************)
EXTENDS MCPlatform, DraftProofs, TLAPS

USE OutboxAssumption

-------------------------------------------------------------------------------
\* Outbox: its inductive invariant. A key the provider holds was used; it lapses, and
\* lets a message through again, only after the window.
MessageFits(m) ==
  /\ accepted[m] \in 0 .. 2
  /\ row[m].state = "SENT" => accepted[m] > 0
  /\ row[m].state = "DEAD_LETTER" => m \in critical
  /\ key[m] = "UNUSED" => accepted[m] = 0
  /\ key[m] # "UNUSED" => accepted[m] > 0
  /\ key[m] = "LAPSED" => row[m].window = "OVER"
  /\ accepted[m] > 1 => row[m].window = "OVER"

\* A pass works on a message, and records one the provider took.
PassFits(p) ==
  /\ pass[p].at \in {"OPEN", "RENDER", "SUBMIT", "RECORD", "CATCH"} =>
       pass[p].message \in Message
  /\ pass[p].at = "RECORD" => accepted[pass[p].message] > 0

MailInv ==
  /\ OutboxTypeOK
  /\ \A m \in Message : MessageFits(m)
  /\ \A p \in Pass : PassFits(p)

\* What a step of one pass leaves alone: the other passes.
LEMMA GoesFields ==
  ASSUME OutboxTypeOK, NEW p \in Pass, NEW at \in Step, Goes(p, at)
  PROVE  /\ pass' \in [Pass -> [at : Step, batch : SUBSET Message,
                                message : Message \cup {None}]]
         /\ \A q \in Pass \ {p} : pass'[q] = pass[q]
         /\ pass'[p].at = at /\ pass'[p].message = pass[p].message
BY DEF OutboxTypeOK, Goes

\* What the steps write into a row is a row.
LEMMA RowFields ==
  ASSUME NEW r \in Row
  PROVE  /\ [r EXCEPT !.state = "QUEUED", !.due = TRUE] \in Row
         /\ [r EXCEPT !.state = "SENT", !.owner = None, !.lease = "NONE"] \in Row
         /\ \A state \in {"DEAD_LETTER", "RETRY"} :
              [r EXCEPT !.state = state, !.due = FALSE, !.owner = None,
                        !.lease = "NONE"] \in Row
         /\ [r EXCEPT !.lease = "LAPSED"] \in Row
         /\ [r EXCEPT !.due = TRUE] \in Row
         /\ [r EXCEPT !.window = "OVER"] \in Row
BY DEF Row

\* Before the first message is queued the invariant holds,
LEMMA MailInvInit == OutboxInit => MailInv
BY DEF OutboxInit, MailInv, OutboxTypeOK, MessageFits, PassFits, Absent, Off, Row,
   Key, Step

\* and every step of a pass, of the callers and of time keeps it.
LEMMA MailInvNext == MailInv /\ [OutboxNext]_outboxVars => MailInv'
<1> SUFFICES ASSUME MailInv, [OutboxNext]_outboxVars PROVE MailInv'
  OBVIOUS
<1> USE DEF MailInv
<1>1. ASSUME NEW m \in Message, Queue(m) PROVE MailInv'
  <2>1. row' \in [Message -> Row]
    BY <1>1, RowFields DEF OutboxTypeOK, Queue
  <2> QED  BY <1>1, <2>1 DEF OutboxTypeOK, Queue, Row, MessageFits, PassFits
<1>2. ASSUME NEW p \in Pass, StartPass(p) PROVE MailInv'
  <2>1. Goes(p, "CLAIM") /\ UNCHANGED <<row, key, accepted, critical>>
    BY <1>2 DEF StartPass
  <2> QED  BY <2>1, GoesFields DEF OutboxTypeOK, MessageFits, PassFits, Step
<1>3. ASSUME NEW p \in Pass, Claim(p) PROVE MailInv'
  <2> DEFINE claimed == {m \in Message : Claimable(m)}
  <2>1. ASSUME NEW m \in Message
        PROVE  /\ row'[m] \in Row
               /\ row'[m].state \in {"SENT", "DEAD_LETTER"} => row'[m].state = row[m].state
               /\ row[m].window = "OVER" => row'[m].window = "OVER"
    <3>1. row[m] \in Row
      BY DEF OutboxTypeOK
    <3>2. CASE m \in claimed
      BY <1>3, <3>1, <3>2 DEF Claim, Row
    <3>3. CASE m \notin claimed
      BY <1>3, <3>1, <3>3 DEF Claim
    <3> QED  BY <3>2, <3>3
  <2>2. /\ row' \in [Message -> Row]
        /\ UNCHANGED <<key, accepted, critical>>
        /\ pass' = [pass EXCEPT ![p] = [at |-> "NEXT", batch |-> claimed, message |-> None]]
    BY <1>3, <2>1 DEF Claim
  <2> QED  BY <2>1, <2>2 DEF OutboxTypeOK, MessageFits, PassFits, Step
<1>4. ASSUME NEW p \in Pass, TakeNext(p) PROVE MailInv'
  BY <1>4 DEF OutboxTypeOK, TakeNext, Goes, MessageFits, PassFits, Step
<1>5. ASSUME NEW p \in Pass,
             Renew(p, "OPEN", "RENDER") \/ Renew(p, "RENDER", "SUBMIT")
      PROVE  MailInv'
  <2>1. /\ pass[p].message \in Message
        /\ \E at \in {"RENDER", "SUBMIT", "CATCH"} : Goes(p, at)
        /\ UNCHANGED <<row, key, accepted, critical>>
    BY <1>5 DEF Renew, Current, PassFits
  <2> QED  BY <2>1, GoesFields DEF OutboxTypeOK, MessageFits, PassFits, Step
<1>6. ASSUME NEW p \in Pass, CannotRender(p) PROVE MailInv'
  <2>1. /\ pass[p].message \in Message
        /\ Goes(p, "CATCH") /\ UNCHANGED <<row, key, accepted, critical>>
    BY <1>6 DEF CannotRender, Current, PassFits
  <2> QED  BY <2>1, GoesFields DEF OutboxTypeOK, MessageFits, PassFits, Step
<1>7. ASSUME NEW p \in Pass, Submit(p) PROVE MailInv'
  <2> DEFINE m == pass[p].message
  <2>1. m \in Message /\ UNCHANGED <<row, critical>>
    BY <1>7 DEF Submit, Current, PassFits
  <2>2. CASE Goes(p, "CATCH") /\ UNCHANGED <<key, accepted>>
    BY <2>1, <2>2, GoesFields DEF OutboxTypeOK, MessageFits, PassFits, Step
  <2>3. CASE /\ key' = [key EXCEPT ![m] = "HELD"]
             /\ accepted' = IF key[m] = "HELD" \/ accepted[m] = 2 THEN accepted
                            ELSE [accepted EXCEPT ![m] = @ + 1]
             /\ Goes(p, "RECORD") \/ Goes(p, "CATCH")
    <3>1. /\ accepted' \in [Message -> 0 .. 2] /\ key' \in [Message -> Key]
          /\ \A n \in Message : accepted'[n] >= accepted[n]
          /\ \A n \in Message \ {m} : accepted'[n] = accepted[n] /\ key'[n] = key[n]
          /\ key'[m] = "HELD" /\ accepted'[m] > 0
          /\ accepted'[m] > 1 => accepted[m] > 1 \/ key[m] = "LAPSED"
      BY <2>1, <2>3 DEF OutboxTypeOK, MessageFits, Key
    <3>2. \A n \in Message : MessageFits(n)'
      BY <2>1, <3>1 DEF OutboxTypeOK, MessageFits
    <3>3. /\ \A q \in Pass \ {p} : pass'[q] = pass[q]
          /\ pass'[p].at \in {"RECORD", "CATCH"} /\ pass'[p].message = m
          /\ pass' \in [Pass -> [at : Step, batch : SUBSET Message,
                                 message : Message \cup {None}]]
      BY <2>3, GoesFields DEF Step
    <3>4. \A q \in Pass : PassFits(q)'
      BY <2>1, <3>1, <3>3 DEF PassFits, OutboxTypeOK
    <3> QED  BY <2>1, <3>1, <3>2, <3>3, <3>4 DEF OutboxTypeOK
  <2> QED  BY <1>7, <2>2, <2>3 DEF Submit
<1>8. ASSUME NEW p \in Pass, Complete(p) PROVE MailInv'
  <2> DEFINE m == pass[p].message
  <2>1. m \in Message /\ accepted[m] > 0 /\ UNCHANGED <<key, accepted, critical>>
    BY <1>8 DEF Complete, Current, PassFits
  <2>2. \E at \in {"NEXT", "CATCH"} : Goes(p, at)
    BY <1>8 DEF Complete
  <2>3. \A q \in Pass : PassFits(q)'
    BY <2>1, <2>2, GoesFields DEF PassFits, Step
  <2>4. row' \in [Message -> Row] /\ \A n \in Message : MessageFits(n)'
    <3>1. CASE Holds(p, m)
      <4>1. row' = [row EXCEPT ![m] = [@ EXCEPT !.state = "SENT",
                                         !.owner = None, !.lease = "NONE"]]
        BY <1>8, <3>1 DEF Complete
      <4>2. row' \in [Message -> Row]
        BY <2>1, <4>1, RowFields DEF OutboxTypeOK
      <4> QED  BY <2>1, <4>1, <4>2 DEF OutboxTypeOK, Row, MessageFits
    <3>2. CASE ~Holds(p, m)
      BY <1>8, <2>1, <3>2 DEF Complete, OutboxTypeOK, MessageFits
    <3> QED  BY <3>1, <3>2
  <2> QED  BY <2>1, <2>2, <2>3, <2>4, GoesFields DEF OutboxTypeOK, Step
<1>9. ASSUME NEW p \in Pass, Fail(p) PROVE MailInv'
  <2> DEFINE m == pass[p].message
  <2>1. m \in Message /\ UNCHANGED <<key, accepted>>
    BY <1>9 DEF Fail, Current, PassFits
  <2>2. \E at \in {"NEXT", "THROWN"} : Goes(p, at)
    BY <1>9 DEF Fail
  <2>3. \A q \in Pass : PassFits(q)'
    BY <2>1, <2>2, GoesFields DEF PassFits, Step
  <2>4. row' \in [Message -> Row] /\ \A n \in Message : MessageFits(n)'
    <3>1. CASE Holds(p, m) /\ row[m].window = "OVER"
      <4>1. /\ row' = [row EXCEPT ![m] = [@ EXCEPT !.state = "DEAD_LETTER",
                         !.due = FALSE, !.owner = None, !.lease = "NONE"]]
            /\ critical' = critical \cup {m}
        BY <1>9, <3>1 DEF Fail
      <4>2. row' \in [Message -> Row]
        BY <2>1, <4>1, RowFields DEF OutboxTypeOK
      <4> QED  BY <2>1, <4>1, <4>2 DEF OutboxTypeOK, Row, MessageFits
    <3>2. CASE Holds(p, m) /\ row[m].window # "OVER"
      <4>1. /\ row' = [row EXCEPT ![m] = [@ EXCEPT !.state = "RETRY",
                         !.due = FALSE, !.owner = None, !.lease = "NONE"]]
            /\ critical' = critical
        BY <1>9, <3>2 DEF Fail
      <4>2. row' \in [Message -> Row]
        BY <2>1, <4>1, RowFields DEF OutboxTypeOK
      <4> QED  BY <2>1, <4>1, <4>2 DEF OutboxTypeOK, Row, MessageFits
    <3>3. CASE ~Holds(p, m)
      BY <1>9, <2>1, <3>3 DEF Fail, OutboxTypeOK, MessageFits
    <3> QED  BY <3>1, <3>2, <3>3
  <2> QED  BY <2>1, <2>2, <2>3, <2>4, GoesFields DEF OutboxTypeOK, Step
<1>10. ASSUME NEW p \in Pass, EndPass(p) PROVE MailInv'
  BY <1>10 DEF EndPass, OutboxTypeOK, Off, MessageFits, PassFits, Step
<1>11. ASSUME NEW m \in Message, LeaseLapses(m) \/ RetryComes(m) \/ WindowCloses(m)
       PROVE  MailInv'
  <2>1. UNCHANGED <<key, accepted, pass, critical>>
    BY <1>11 DEF LeaseLapses, RetryComes, WindowCloses
  <2>2. row' \in [Message -> Row]
    <3>1. CASE LeaseLapses(m)
      BY <3>1, RowFields DEF LeaseLapses, OutboxTypeOK
    <3>2. CASE RetryComes(m)
      BY <3>2, RowFields DEF RetryComes, OutboxTypeOK
    <3>3. CASE WindowCloses(m)
      BY <3>3, RowFields DEF WindowCloses, OutboxTypeOK
    <3> QED  BY <1>11, <3>1, <3>2, <3>3
  <2>3. \A n \in Message : row'[n].state = row[n].state
                           /\ (row[n].window = "OVER" => row'[n].window = "OVER")
    <3>1. CASE LeaseLapses(m)
      BY <3>1 DEF LeaseLapses, OutboxTypeOK, Row
    <3>2. CASE RetryComes(m)
      BY <3>2 DEF RetryComes, OutboxTypeOK, Row
    <3>3. CASE WindowCloses(m)
      BY <3>3 DEF WindowCloses, OutboxTypeOK, Row
    <3> QED  BY <1>11, <3>1, <3>2, <3>3
  <2> QED  BY <2>1, <2>2, <2>3 DEF OutboxTypeOK, MessageFits, PassFits
<1>12. ASSUME NEW m \in Message, KeyLapses(m) PROVE MailInv'
  BY <1>12 DEF KeyLapses, OutboxTypeOK, Key, MessageFits, PassFits
<1>13. CASE UNCHANGED outboxVars
  BY <1>13 DEF outboxVars, OutboxTypeOK, MessageFits, PassFits
<1> QED
  BY <1>1, <1>2, <1>3, <1>4, <1>5, <1>6, <1>7, <1>8, <1>9, <1>10, <1>11, <1>12,
     <1>13
  DEF OutboxNext, Advance, OutboxTime

\* No interleaving of passes loses a message or sends it twice within its window
\* (claim, renewal, completion and failure of an outbox message; outbox.ts).
THEOREM MailIsSafe == OutboxSpec => []MailSafe
<1>1. MailInv => MailSafe
  BY DEF MailInv, MailSafe, NothingLost, TwiceOnlyAfterWindow, MessageFits
<1>2. OutboxSpec => []MailInv
  BY MailInvInit, MailInvNext, PTL DEF OutboxSpec
<1> QED  BY <1>1, <1>2, PTL

-------------------------------------------------------------------------------
\* Maintenance: its inductive invariant. A request has an outcome of every action
\* its stage has come past.
Stage == {"IDLE", "DIAGNOSE", "RECOVER", "CLEANUP", "DEADLINES", "DOCUMENTS", "QUEUES",
          "COMMERCE", "STRIPE", "BOARD", "VERIFY", "OUTCOME", "REPORT"}
Status == {"NONE", "SUCCEEDED", "FAILED", "SKIPPED"}
RequestRow ==
  [stage : Stage, before : SUBSET Code, after : SUBSET Code, done : [Action -> Status]]

Come(stage) ==
  {a \in Action :
     \/ /\ a = "EXPIRED_LEASE_RECOVERY"
        /\ stage \notin {"IDLE", "DIAGNOSE", "RECOVER"}
     \/ /\ a = "EXPIRATION_CLEANUP"
        /\ stage \notin {"IDLE", "DIAGNOSE", "RECOVER", "CLEANUP"}
     \/ /\ a = "DOCUMENT_PROCESSING"
        /\ stage \in {"QUEUES", "COMMERCE", "STRIPE", "BOARD", "VERIFY", "OUTCOME", "REPORT"}
     \/ /\ a = "BOUNDED_QUEUE_PROCESSING"
        /\ stage \in {"STRIPE", "BOARD", "VERIFY", "OUTCOME", "REPORT"}
     \/ /\ a = "STRIPE_RECONCILIATION"
        /\ stage \in {"BOARD", "VERIFY", "OUTCOME", "REPORT"}
     \/ /\ a = "BOARD_RECOMPUTATION"
        /\ stage \in {"VERIFY", "OUTCOME", "REPORT"}}

RequestsFit ==
  /\ request \in [Pass -> RequestRow]
  /\ \A p \in Pass : \A a \in Come(request[p].stage) : request[p].done[a] # "NONE"

ReportFits ==
  /\ ready \in [Dependency -> BOOLEAN]
  /\ open \in SUBSET Code
  /\ heartbeat \in {"NONE", "DIAGNOSED", "FAILED", "VERIFIED"}
  /\ faults \in 0 .. MaxFaults

MaintenanceInv == MailInv /\ RequestsFit /\ ReportFits

\* A step of maintenance, or one of the outbox beside it.
MaintenanceStep == MaintenanceNext \/ Elsewhere(OutboxNext)

\* The ways a request goes on keep the requests fit: it records the outcome of an
\* action,
LEMMA RecordsKeeps ==
  ASSUME RequestsFit, NEW p \in Pass, NEW action \in Action,
         NEW status \in Status \ {"NONE"},
         NEW next \in Stage, Come(next) \subseteq Come(request[p].stage) \cup {action},
         Records(p, action, status, next)
  PROVE  RequestsFit'
<1>1. request[p] \in RequestRow
  BY DEF RequestsFit
<1> DEFINE done == [request[p].done EXCEPT ![action] = status]
           mine == [request[p] EXCEPT !.stage = next, !.done = done]
<1>2. done \in [Action -> Status] /\ done[action] = status
      /\ \A a \in Action \ {action} : done[a] = request[p].done[a]
  BY <1>1 DEF RequestRow
<1>3. request' = [request EXCEPT ![p] = mine]
  BY Zenon DEF Records
<1> HIDE DEF done
<1>4. mine \in RequestRow /\ mine.stage = next /\ mine.done = done
  BY <1>1, <1>2 DEF RequestRow
<1>5. \A a \in Come(next) : mine.done[a] # "NONE"
  BY <1>2, <1>4 DEF RequestsFit, Come
<1> HIDE DEF mine
<1> QED  BY <1>3, <1>4, <1>5 DEF RequestsFit

\* moves on past none,
LEMMA MovesKeeps ==
  ASSUME RequestsFit, NEW p \in Pass, NEW next \in Stage,
         Come(next) \subseteq Come(request[p].stage), Moves(p, next)
  PROVE  RequestsFit'
<1> DEFINE mine == [request[p] EXCEPT !.stage = next]
<1>1. mine \in RequestRow /\ mine.stage = next /\ mine.done = request[p].done
  BY DEF RequestsFit, RequestRow
<1>2. request' = [request EXCEPT ![p] = mine]
  BY DEF Moves
<1> HIDE DEF mine
<1> QED  BY <1>1, <1>2 DEF RequestsFit

\* or ends.
LEMMA EndsKeeps == ASSUME RequestsFit, NEW p \in Pass, Ends(p) PROVE RequestsFit'
<1>1. Asleep \in RequestRow /\ Asleep.stage = "IDLE" /\ Come("IDLE") = {}
  BY DEF Asleep, Untouched, RequestRow, Stage, Status, Come
<1>2. request' = [request EXCEPT ![p] = Asleep]
  BY DEF Ends
<1> QED  BY <1>1, <1>2 DEF RequestsFit

\* Everything a diagnosis can find is a code of its own, and so is a failure.
LEMMA Codes ==
  /\ Diagnoses \subseteq SUBSET Code
  /\ \A a \in Action : Failure[a] \in PostDiagnosisCode /\ Failure[a] # BlockingCode
  /\ \A a, b \in Action : Failure[a] = Failure[b] => a = b
  /\ PostDiagnosisCode \subseteq Code
<1>1. PostDiagnosisCode \subseteq Code
  BY DEF Code
<1>2. Diagnoses \subseteq SUBSET Code
  BY MaintenanceAssumption DEF Diagnoses, Code, StaleCode
<1>3. \A a \in Action : Failure[a] \in PostDiagnosisCode /\ Failure[a] # BlockingCode
  BY DEF PostDiagnosisCode, Failure, Action, BlockingCode
<1>4. \A a, b \in Action : Failure[a] = Failure[b] => a = b
  BY DEF Failure, Action
<1> QED  BY <1>1, <1>2, <1>3, <1>4

\* What is written to the alerts are codes.
LEMMA ReconcileType ==
  ASSUME ReportFits, NEW active \in SUBSET Code, NEW preserved, Reconcile(active,
         preserved)
  PROVE  open' \in SUBSET Code
BY DEF ReportFits, Reconcile

\* Failures are counted up to their bound.
LEMMA FaultType ==
  ASSUME ReportFits, Fault \/ Sound
  PROVE  faults' \in 0 .. MaxFaults
BY MaintenanceAssumption DEF ReportFits, Fault, Sound

\* What a request of maintenance does to the messages is what the outbox allows.
LEMMA MaintenanceSendsMail == [MaintenanceStep]_maintenanceVars => [OutboxNext]_outboxVars
<1> SUFFICES ASSUME MaintenanceStep PROVE [OutboxNext]_outboxVars
  BY DEF maintenanceVars
<1>1. ASSUME NEW p \in Pass, Request(p) PROVE [OutboxNext]_outboxVars
  <2>1. CASE EnterQueues(p)
    BY <2>1 DEF EnterQueues, OutboxNext
  <2>2. CASE At(p, "COMMERCE") /\ Advance(p)
    BY <2>2 DEF OutboxNext
  <2>3. CASE LeaveQueues(p)
    BY <2>3 DEF LeaveQueues, OutboxNext
  <2>4. CASE UNCHANGED outboxVars
    BY <2>4
  <2> QED
    BY <1>1, <2>1, <2>2, <2>3, <2>4
    DEF Request, Collect, Diagnose, Repair, Deadlines, Gated, Verify, Resolve, Report
<1>2. ASSUME NEW p \in Pass, Die(p) PROVE [OutboxNext]_outboxVars
  BY <1>2 DEF Die, OutboxNext
<1>3. ASSUME NEW d \in Dependency, ReadinessChanges(d) PROVE [OutboxNext]_outboxVars
  BY <1>3 DEF ReadinessChanges
<1>4. ASSUME NEW m \in Message, Elsewhere(Queue(m)) \/ Elsewhere(OutboxTime(m))
      PROVE  [OutboxNext]_outboxVars
  BY <1>4 DEF Elsewhere, OutboxNext
<1> QED  BY <1>1, <1>2, <1>3, <1>4 DEF MaintenanceStep, MaintenanceNext, Elsewhere

\* A request that fails leaves a report that fits, and is over.
LEMMA FailKeeps ==
  ASSUME RequestsFit, ReportFits, NEW p \in Pass, NEW diagnosed \in SUBSET Code,
         NEW done,
         NEW code \in Code, Fault, FailRequest(p, diagnosed, done, code), UNCHANGED ready
  PROVE  RequestsFit' /\ ReportFits'
<1>1. open' \in SUBSET Code
  BY ReconcileType DEF FailRequest
<1>2. RequestsFit' /\ heartbeat' \in {"NONE", "DIAGNOSED", "FAILED", "VERIFIED"}
  BY EndsKeeps DEF FailRequest
<1> QED  BY <1>1, <1>2, FaultType DEF ReportFits

\* No request has come anywhere before the first one is sent,
LEMMA MaintenanceInvInit == MaintenanceInit => MaintenanceInv
<1> SUFFICES ASSUME MaintenanceInit PROVE MaintenanceInv
  OBVIOUS
<1>1. Asleep \in RequestRow /\ Come(Asleep.stage) = {}
  BY DEF Asleep, Untouched, RequestRow, Stage, Status, Come
<1> QED
  BY <1>1, MailInvInit, MaintenanceAssumption
  DEF MaintenanceInit, MaintenanceInv, RequestsFit, ReportFits

\* and no stage is passed without an outcome of its action.
LEMMA MaintenanceInvNext ==
  MaintenanceInv /\ [MaintenanceStep]_maintenanceVars => MaintenanceInv'
<1> SUFFICES ASSUME MaintenanceInv, [MaintenanceStep]_maintenanceVars
             PROVE  RequestsFit' /\ ReportFits'
  BY MailInvNext, MaintenanceSendsMail DEF MaintenanceInv
<1>0. RequestsFit /\ ReportFits
  BY DEF MaintenanceInv
<1> DEFINE Kept == RequestsFit' /\ ReportFits'
<1>1. ASSUME NEW p \in Pass, Request(p) PROVE Kept
  <2>0. request[p] \in RequestRow
    BY <1>0 DEF RequestsFit
  <2>1. CASE Collect(p)
    <3>1. CASE Sound /\ UNCHANGED reportVars
               /\ \E codes \in Diagnoses :
                    request' = [request EXCEPT ![p] = [Asleep EXCEPT !.stage = "DIAGNOSE",
                                                                     !.before = codes]]
      <4>1. PICK codes \in Diagnoses :
              request' = [request EXCEPT ![p] = [Asleep EXCEPT !.stage = "DIAGNOSE",
                                                               !.before = codes]]
        BY <3>1
      <4> DEFINE mine == [Asleep EXCEPT !.stage = "DIAGNOSE", !.before = codes]
      <4>2. mine \in RequestRow /\ Come(mine.stage) = {}
        BY Codes DEF Asleep, Untouched, RequestRow, Stage, Status, Come
      <4> HIDE DEF mine
      <4>3. request' = [request EXCEPT ![p] = mine]
        BY <4>1 DEF mine
      <4>4. RequestsFit'
        BY <1>0, <4>2, <4>3 DEF RequestsFit
      <4> QED  BY <1>0, <2>1, <3>1, <4>4, FaultType DEF Collect, ReportFits, reportVars
    <3>2. CASE Fault /\ FailRequest(p, {}, Untouched, "MAINTENANCE_DIAGNOSIS_FAILED")
      BY <1>0, <2>1, <3>2, FailKeeps DEF Collect, Code
    <3> QED  BY <2>1, <3>1, <3>2 DEF Collect
  <2>2. CASE Diagnose(p)
    <3>1. RequestsFit'
      BY <1>0, <2>2, EndsKeeps, MovesKeeps DEF Diagnose, At, Come, Stage
    <3>2. open' \in SUBSET Code
      BY <1>0, <2>0, <2>2, ReconcileType DEF Diagnose, RequestRow, ReportFits,
         reportVars
    <3> QED  BY <1>0, <2>2, <3>1, <3>2, FaultType DEF Diagnose, ReportFits, reportVars
  <2>3. ASSUME NEW stage \in Stage, NEW action \in Action, NEW next \in Stage,
               Repair(p, stage, action, next), Come(next) \subseteq Come(stage) \cup {action}
        PROVE  Kept
    <3>1. CASE Sound /\ Records(p, action, "SUCCEEDED", next) /\ UNCHANGED reportVars
      <4>1. RequestsFit'
        BY <1>0, <2>3, <3>1, RecordsKeeps DEF Repair, At, Status
      <4> QED  BY <1>0, <2>3, <3>1, <4>1, FaultType DEF Repair, ReportFits, reportVars
    <3>2. CASE Fault /\ FailRequest(p, request[p].before, request[p].done, Failure[action])
      BY <1>0, <2>0, <2>3, <3>2, FailKeeps, Codes DEF Repair, RequestRow
    <3> QED  BY <2>3, <3>1, <3>2 DEF Repair
  <2>4. CASE Deadlines(p)
    <3>1. CASE Sound /\ Moves(p, "DOCUMENTS") /\ UNCHANGED reportVars
      <4>1. RequestsFit'
        BY <1>0, <2>4, <3>1, MovesKeeps DEF Deadlines, At, Come, Stage
      <4> QED  BY <1>0, <2>4, <3>1, <4>1, FaultType DEF Deadlines, ReportFits, reportVars
    <3>2. CASE /\ Fault
               /\ FailRequest(p, request[p].before, request[p].done,
                              "BOUNDED_QUEUE_PROCESSING_FAILED")
      <4>1. "BOUNDED_QUEUE_PROCESSING_FAILED" \in Code
        BY DEF Code, PostDiagnosisCode, Failure, Action
      <4> QED  BY <1>0, <2>0, <2>4, <3>2, <4>1, FailKeeps DEF Deadlines, RequestRow
    <3> QED  BY <2>4, <3>1, <3>2 DEF Deadlines
  <2>5. ASSUME NEW stage \in Stage, NEW action \in Action, NEW gates,
               NEW next \in Stage,
               Gated(p, stage, action, gates, next),
               Come(next) \subseteq Come(stage) \cup {action}
        PROVE  Kept
    <3>1. RequestsFit'
      BY <1>0, <2>5, RecordsKeeps DEF Gated, At, Status
    <3> QED  BY <1>0, <2>5, <3>1, FaultType DEF Gated, ReportFits, reportVars
  <2>6. CASE EnterQueues(p)
    <3>1. "BOUNDED_QUEUE_PROCESSING" \in Action
          /\ {"FAILED", "SKIPPED"} \subseteq Status \ {"NONE"}
          /\ {"STRIPE", "COMMERCE"} \subseteq Stage
          /\ Come("STRIPE") \subseteq Come("QUEUES") \cup {"BOUNDED_QUEUE_PROCESSING"}
          /\ Come("COMMERCE") \subseteq Come("QUEUES")
      BY DEF Action, Status, Stage, Come
    <3>2. \/ \E status \in {"FAILED", "SKIPPED"} :
                Records(p, "BOUNDED_QUEUE_PROCESSING", status, "STRIPE")
          \/ Moves(p, "COMMERCE")
      BY <2>6 DEF EnterQueues
    <3>3. Fault \/ Sound
      BY <2>6 DEF EnterQueues
    <3>4. RequestsFit'
      BY <1>0, <2>6, <3>1, <3>2, RecordsKeeps, MovesKeeps DEF EnterQueues, At
    <3> QED  BY <1>0, <2>6, <3>3, <3>4, FaultType DEF EnterQueues, ReportFits, reportVars
  <2>7. CASE At(p, "COMMERCE") /\ Advance(p) /\ UNCHANGED <<ready, reportVars, request, faults>>
    BY <1>0, <2>7 DEF ReportFits, RequestsFit, reportVars
  <2>8. CASE LeaveQueues(p)
    <3>1. "BOUNDED_QUEUE_PROCESSING" \in Action /\ "STRIPE" \in Stage
          /\ {"FAILED", "SKIPPED", "SUCCEEDED"} = Status \ {"NONE"}
          /\ Come("STRIPE") \subseteq Come("COMMERCE") \cup {"BOUNDED_QUEUE_PROCESSING"}
      BY DEF Action, Status, Stage, Come
    <3>2. \E status \in {"FAILED", "SKIPPED", "SUCCEEDED"} :
            Records(p, "BOUNDED_QUEUE_PROCESSING", status, "STRIPE")
      BY <2>8 DEF LeaveQueues
    <3>3. RequestsFit'
      BY <1>0, <2>8, <3>1, <3>2, RecordsKeeps DEF LeaveQueues, At
    <3> QED  BY <1>0, <2>8, <3>3, FaultType DEF LeaveQueues, ReportFits, reportVars
  <2>9. CASE Verify(p)
    <3>1. CASE Sound /\ UNCHANGED reportVars
               /\ \E codes \in Diagnoses :
                    request' = [request EXCEPT ![p] = [@ EXCEPT !.stage = "OUTCOME",
                                                                !.after = codes]]
      <4>1. PICK codes \in Diagnoses :
              request' = [request EXCEPT ![p] = [@ EXCEPT !.stage = "OUTCOME",
                                                          !.after = codes]]
        BY <3>1
      <4> DEFINE mine == [request[p] EXCEPT !.stage = "OUTCOME", !.after = codes]
      <4>2. /\ mine \in RequestRow /\ mine.stage = "OUTCOME" /\ mine.done = request[p].done
            /\ Come("OUTCOME") = Come("VERIFY") /\ request[p].stage = "VERIFY"
        BY <2>0, <2>9, Codes DEF RequestRow, Stage, Come, Verify, At
      <4> HIDE DEF mine
      <4>3. request' = [request EXCEPT ![p] = mine]
        BY <4>1 DEF mine
      <4>4. RequestsFit'
        BY <1>0, <4>2, <4>3 DEF RequestsFit
      <4> QED  BY <1>0, <2>9, <3>1, <4>4, FaultType DEF Verify, ReportFits, reportVars
    <3>2. CASE /\ Fault
               /\ FailRequest(p, request[p].before, request[p].done,
                              "MAINTENANCE_VERIFICATION_FAILED")
      <4>1. "MAINTENANCE_VERIFICATION_FAILED" \in Code
        BY DEF Code, PostDiagnosisCode
      <4> QED  BY <1>0, <2>0, <2>9, <3>2, <4>1, FailKeeps DEF Verify, RequestRow
    <3> QED  BY <2>9, <3>1, <3>2 DEF Verify
  <2>10. CASE Resolve(p)
    <3>1. Unresolved(p) \in SUBSET Code
      BY <2>0, Codes DEF Unresolved, RequestRow
    <3>2. open' \in SUBSET Code
      BY <1>0, <2>10, <3>1, ReconcileType DEF Resolve, ReportFits
    <3>3. RequestsFit'
      BY <1>0, <2>10, EndsKeeps, MovesKeeps DEF Resolve, At, Come, Stage
    <3> QED  BY <1>0, <2>10, <3>2, <3>3, FaultType DEF Resolve, ReportFits
  <2>11. CASE Report(p)
    <3>1. RequestsFit'
      BY <1>0, <2>11, EndsKeeps DEF Report
    <3> QED  BY <1>0, <2>11, <3>1 DEF Report, ReportFits
  <2>12. /\ {"RECOVER", "CLEANUP", "DEADLINES", "DOCUMENTS", "QUEUES", "STRIPE", "BOARD",
             "VERIFY"} \subseteq Stage
         /\ {"EXPIRED_LEASE_RECOVERY", "EXPIRATION_CLEANUP", "DOCUMENT_PROCESSING",
             "STRIPE_RECONCILIATION", "BOARD_RECOMPUTATION"} \subseteq Action
         /\ Come("CLEANUP") \subseteq Come("RECOVER") \cup {"EXPIRED_LEASE_RECOVERY"}
         /\ Come("DEADLINES") \subseteq Come("CLEANUP") \cup {"EXPIRATION_CLEANUP"}
         /\ Come("QUEUES") \subseteq Come("DOCUMENTS") \cup {"DOCUMENT_PROCESSING"}
         /\ Come("BOARD") \subseteq Come("STRIPE") \cup {"STRIPE_RECONCILIATION"}
         /\ Come("VERIFY") \subseteq Come("BOARD") \cup {"BOARD_RECOMPUTATION"}
    BY DEF Stage, Action, Come
  <2> QED
    BY <1>1, <2>1, <2>2, <2>3, <2>4, <2>5, <2>6, <2>7, <2>8, <2>9, <2>10, <2>11, <2>12
    DEF Request
<1>2. ASSUME NEW p \in Pass, Die(p) PROVE Kept
  <2>1. RequestsFit'
    BY <1>0, <1>2, EndsKeeps DEF Die
  <2> QED  BY <1>0, <1>2, <2>1, FaultType DEF Die, ReportFits, reportVars
<1>3. ASSUME NEW d \in Dependency, ReadinessChanges(d) PROVE Kept
  BY <1>0, <1>3 DEF ReadinessChanges, ReportFits, RequestsFit, reportVars
<1>4. CASE UNCHANGED <<ready, reportVars, request, faults>>
  BY <1>0, <1>4 DEF ReportFits, RequestsFit, reportVars
<1> QED
  BY <1>1, <1>2, <1>3, <1>4
  DEF MaintenanceStep, MaintenanceNext, Elsewhere, maintenanceVars

\* An alert that goes is one a request resolved, or one it failed without: it had
\* an outcome of the action, and not a failure.
LEMMA AlertStep ==
  ASSUME MaintenanceInv, [MaintenanceStep]_maintenanceVars, NEW a \in Action,
         Failure[a] \in open, Failure[a] \notin open'
  PROVE  \E p \in Pass : /\ ~At(p, "IDLE")
                         /\ request[p].done[a] \in {"SUCCEEDED", "SKIPPED"}
<1>0. RequestsFit /\ Failure[a] \in PostDiagnosisCode /\ Failure[a] # BlockingCode
  BY Codes DEF MaintenanceInv
<1>1. ~ UNCHANGED open
  OBVIOUS
<1>2. ASSUME NEW p \in Pass, NEW diagnosed, NEW code,
             FailRequest(p, diagnosed, request[p].done, code)
      PROVE  request[p].done[a] = "SUCCEEDED"
  BY <1>0, <1>2, Codes DEF FailRequest, Reconcile
<1>3. ASSUME NEW p \in Pass, Request(p)
      PROVE  ~At(p, "IDLE") /\ request[p].done[a] \in {"SUCCEEDED", "SKIPPED"}
  <2>1. CASE Collect(p)
    <3>1. FailRequest(p, {}, Untouched, "MAINTENANCE_DIAGNOSIS_FAILED")
      BY <1>1, <2>1 DEF Collect, reportVars
    <3>2. {b \in Action : Untouched[b] = "SUCCEEDED"} = {}
      BY DEF Untouched
    <3> QED  BY <1>0, <3>1, <3>2 DEF FailRequest, Reconcile
  <2>2. CASE Diagnose(p)
    <3>1. Reconcile(request[p].before, PostDiagnosisCode)
      BY <1>1, <2>2 DEF Diagnose, reportVars
    <3> QED  BY <1>0, <3>1 DEF Reconcile
  <2>3. ASSUME NEW stage \in Stage \ {"IDLE"}, NEW action, NEW next, Repair(p, stage,
               action, next)
        PROVE  ~At(p, "IDLE") /\ request[p].done[a] \in {"SUCCEEDED", "SKIPPED"}
    <3>1. FailRequest(p, request[p].before, request[p].done, Failure[action])
      BY <1>1, <2>3 DEF Repair, reportVars
    <3> QED  BY <1>2, <2>3, <3>1 DEF Repair, At
  <2>4. CASE Deadlines(p) \/ Verify(p)
    <3>1. \E code : FailRequest(p, request[p].before, request[p].done, code)
      BY <1>1, <2>4 DEF Deadlines, Verify, reportVars
    <3> QED  BY <1>2, <2>4, <3>1 DEF Deadlines, Verify, At
  <2>5. CASE Resolve(p)
    <3>1. Reconcile(Unresolved(p), {}) /\ request[p].stage = "OUTCOME"
      BY <1>1, <2>5 DEF Resolve, At
    <3>2. Failure[a] \notin Unresolved(p)
      BY <1>0, <3>1 DEF Reconcile
    <3>3. request[p].done[a] \in Status \ {"NONE", "FAILED"}
      BY <1>0, <3>1, <3>2 DEF RequestsFit, RequestRow, Come, Action, Unresolved
    <3> QED  BY <3>1, <3>3 DEF At, Status
  <2>6. UNCHANGED open
        \/ Collect(p) \/ Diagnose(p) \/ Deadlines(p) \/ Verify(p) \/ Resolve(p)
        \/ Repair(p, "RECOVER", "EXPIRED_LEASE_RECOVERY", "CLEANUP")
        \/ Repair(p, "CLEANUP", "EXPIRATION_CLEANUP", "DEADLINES")
    BY <1>3 DEF Request, Gated, EnterQueues, LeaveQueues, Report, reportVars
  <2> QED  BY <1>1, <2>1, <2>2, <2>3, <2>4, <2>5, <2>6 DEF Stage
<1>4. \E p \in Pass : Request(p)
  BY <1>1
  DEF MaintenanceStep, MaintenanceNext, Elsewhere, Die, ReadinessChanges,
      maintenanceVars,
      reportVars
<1> QED  BY <1>3, <1>4

\* The rows of the invariant are those of the type invariant.
LEMMA MaintenanceInvTypes == MaintenanceInv => MaintenanceTypeOK
BY DEF MaintenanceInv, MailInv, RequestsFit, ReportFits, RequestRow, Stage, Status,
       MaintenanceTypeOK

\* Every message, alert and request of maintenance keeps the shape its table and
\* its code give it.
THEOREM MaintenanceTypesKept == MaintenanceSpec => []MaintenanceTypeOK
<1>1. MaintenanceNext => MaintenanceStep
  BY DEF MaintenanceStep
<1> QED
  BY <1>1, MaintenanceInvTypes, MaintenanceInvInit, MaintenanceInvNext, PTL
  DEF MaintenanceSpec

\* However requests overlap, fail or die, the alert of a failed action is closed
\* only by a request that came past the action without its failing
\* (reconcileMaintenanceAlerts and its three callers, maintenance-observability.ts).
THEOREM AlertsStay == MaintenanceSpec => FailureAlertKept
<1>1. MaintenanceInv /\ [MaintenanceNext]_maintenanceVars =>
        [\A a \in Action :
           Failure[a] \in open /\ Failure[a] \notin open'
             => \E p \in Pass : /\ ~At(p, "IDLE")
                                /\ request[p].done[a] \in {"SUCCEEDED", "SKIPPED"}]_maintenanceVars
  BY AlertStep DEF MaintenanceStep
<1>2. MaintenanceNext => MaintenanceStep
  BY DEF MaintenanceStep
<1> QED
  BY <1>1, <1>2, MaintenanceInvInit, MaintenanceInvNext, PTL
  DEF MaintenanceSpec, FailureAlertKept

\* Maintenance uses the outbox as the outbox is specified: its requests drive the
\* passes (processChunk4Workers, called by the maintenance route) and nothing else
\* of it writes a message.
THEOREM MaintenanceRefinesOutbox == MaintenanceSpec => OutboxSpec
<1>1. MaintenanceInit => OutboxInit
  BY DEF MaintenanceInit
<1>2. [MaintenanceNext]_maintenanceVars => [OutboxNext]_outboxVars
  BY MaintenanceSendsMail DEF MaintenanceStep
<1> QED  BY <1>1, <1>2, PTL DEF MaintenanceSpec, OutboxSpec

-------------------------------------------------------------------------------
\* The components side by side: whichever moves, each takes one of its own steps
\* or none.
LEMMA PlatformSteps ==
  FeasibilityInv /\ [PlatformNext]_platformVars =>
    /\ [MaintenanceStep]_maintenanceVars
    /\ [DocumentNext]_documentVars
    /\ [FeasibilityNext]_feasibilityVars
<1> SUFFICES ASSUME FeasibilityInv, PlatformNext
             PROVE  /\ [MaintenanceStep]_maintenanceVars
                    /\ [DocumentNext]_documentVars
                    /\ [FeasibilityNext]_feasibilityVars
  BY DEF platformVars
<1>1. CASE MailStep
  <2>1. UNCHANGED <<documentVars, feasibilityVars>>
    BY <1>1 DEF MailStep, Passes, Mail
  <2>2. \/ OutboxNext /\ UNCHANGED <<ready, reportVars, request, faults>>
        \/ \E p \in Pass : Request(p) \/ Die(p)
        \/ \E d \in Dependency : ReadinessChanges(d)
        \/ \E m \in Message : \/ Queue(m) /\ UNCHANGED <<ready, reportVars, request, faults>>
                              \/ OutboxTime(m) /\ UNCHANGED <<ready, reportVars, request, faults>>
    BY <1>1, PlatformAssumption DEF MailStep, Passes, Mail, Of
  <2>3. MaintenanceStep
    BY <2>2 DEF MaintenanceStep, MaintenanceNext, Elsewhere
  <2> QED  BY <2>1, <2>3
<1>2. CASE DraftStep
  <2>1. UNCHANGED <<maintenanceVars, feasibilityVars>>
    BY <1>2 DEF DraftStep, HandledIn, Draft
  <2>2. ASSUME NEW group, NEW docs \in SUBSET Document, HandledIn(group, docs)
        PROVE  DocumentNext
    BY <2>2 DEF HandledIn, Draft, Of, DocumentNext, OwnerStep
  <2>3. \/ \E group : HandledIn(group, {d1}) \/ HandledIn(group, Document)
        \/ RetryDocument(d1) \/ QueueRetry
        \/ \E r \in Reader : Read(r) \/ ReaderDies(r)
        \/ FinalizeDraft \/ EditDraft \/ BuyDraft \/ ChangeHold
        \/ \E c \in Cleaner : Clean(c) \/ CleanerDies(c)
    BY <1>2, PlatformAssumption DEF DraftStep, Draft, Of
  <2>4. DocumentNext
    BY <2>2, <2>3, PlatformAssumption DEF DocumentNext, OwnerStep
  <2> QED  BY <2>1, <2>4
<1>3. CASE MatchStep
  <2>1. UNCHANGED <<maintenanceVars, documentVars>>
    BY <1>3 DEF MatchStep, Inquire
  <2>2. Latest \in Nat
    BY LenProperties DEF FeasibilityInv, FeasibilityTypes, Latest
  <2>3. Latest > 0 => Latest \in 1..Latest
    BY <2>2
  <2>4. \A s \in Snap, p \in 1..Latest :
          /\ Answer(s) => Research
          /\ Admit(p, s) => Research
          /\ \A v \in Verdict : Evaluate(p, s, v) => Research
    BY DEF Research
  <2>5. /\ \A manual \in BOOLEAN : BeginRound(manual) => Research
        /\ \A p \in 1..Latest : CompleteSearch(p) \/ CorrectListing(p, j1) => Research
        /\ FinalizeAgain => Research
    BY PlatformAssumption DEF Research
  <2>6. Research \/ LoadFails \/ AssessorDies \/ Assess
    <3>1. \A i \in {0, 1} : <<j1, i>> \in Snap
      BY PlatformAssumption DEF Snap
    <3>2. \A i \in {0, 1}, p \in 1..Latest :
            /\ Answer(<<j1, i>>) => Research
            /\ Admit(p, <<j1, i>>) => Research
            /\ \A v \in Verdict : Evaluate(p, <<j1, i>>, v) => Research
      BY <2>4, <3>1, Zenon
    <3>3. \A i \in {0, 1} : Answer(<<j1, i>>) => Research
      BY <3>1 DEF Research
    <3>4. CASE MatchStep!1
      BY <2>3, <2>4, <2>5, <3>3, <3>4, Zenon DEF Inquire, Of
    <3>5. CASE MatchStep!2
      BY <2>5, <3>2, <3>3, <3>5, Zenon DEF Inquire, Of
    <3>6. CASE MatchStep!3 \/ MatchStep!4 \/ MatchStep!5
      BY <2>5, <3>6, Zenon DEF Inquire, Of
    <3> QED  BY <1>3, <3>4, <3>5, <3>6 DEF MatchStep
  <2>7. FeasibilityNext
    BY <2>6 DEF FeasibilityNext
  <2> QED  BY <2>1, <2>7
<1> QED  BY <1>1, <1>2, <1>3 DEF PlatformNext

\* What holds of all of them at once.
PlatformInv == MaintenanceInv /\ DocumentInv /\ FeasibilityInv

LEMMA PlatformInvariance == PlatformSpec => []PlatformInv
<1>1. PlatformInit => PlatformInv
  BY MaintenanceInvInit, DocumentInvInit, FeasibilityInvInit DEF PlatformInit,
     PlatformInv
<1>2. PlatformInv /\ [PlatformNext]_platformVars => PlatformInv'
  BY PlatformSteps, MaintenanceInvNext, DocumentInvNext, FeasibilityInvNext
  DEF PlatformInv
<1> QED  BY <1>1, <1>2, PTL DEF PlatformSpec

\* Side by side the components keep every row in its shape.
THEOREM PlatformTypes == PlatformSpec => []PlatformTypeOK
<1>1. PlatformInv => PlatformTypeOK
  BY MaintenanceInvTypes, DocumentInvTypes, FeasibilityInvTypes DEF PlatformInv,
     PlatformTypeOK
<1> QED  BY <1>1, PlatformInvariance, PTL

\* The platform is each of its components and nothing else that would disturb
\* them: what is promised of the outbox, of the documents and of the feasibility
\* answers alone is kept side by side (the tables the functions share are read by
\* none of the others' steps).
THEOREM PlatformRefines == PlatformSpec => OutboxSpec /\ DocumentSpec /\ FeasibilitySpec
<1>1. PlatformInit => OutboxInit /\ DocumentInit /\ FeasibilityInit
  BY DEF PlatformInit, MaintenanceInit
<1>2. PlatformInv /\ [PlatformNext]_platformVars =>
        /\ [OutboxNext]_outboxVars /\ [DocumentNext]_documentVars
        /\ [FeasibilityNext]_feasibilityVars
  BY PlatformSteps, MaintenanceSendsMail DEF PlatformInv
<1> QED
  BY <1>1, <1>2, PlatformInvariance, PTL
  DEF PlatformSpec, OutboxSpec, DocumentSpec, FeasibilitySpec

\* So no message, document or offer goes wrong in any interleaving of them all.
THEOREM PlatformIsSafe == PlatformSpec => [](MailSafe /\ DocumentsSafe /\ FeasibilitySafe)
BY PlatformRefines, MailIsSafe, DocumentsAreSafe, FeasibilityIsSafe, PTL

\* Passes of the outbox that run beside the requests close no alert either.
THEOREM PlatformAlertsStay == PlatformSpec => FailureAlertKept
<1>1. PlatformInv /\ [PlatformNext]_platformVars =>
        [\A a \in Action :
           Failure[a] \in open /\ Failure[a] \notin open'
             => \E p \in Pass : /\ ~At(p, "IDLE")
                                /\ request[p].done[a] \in {"SUCCEEDED", "SKIPPED"}]_maintenanceVars
  BY AlertStep, PlatformSteps DEF PlatformInv
<1> QED  BY <1>1, PlatformInvariance, PTL DEF PlatformSpec, FailureAlertKept

-------------------------------------------------------------------------------
(* The computed results: the theorems of the matching engine, instantiated.   *)

TreeProofs  == INSTANCE MatchingProofs WITH Inner <- 0 .. 2, Leaf <- 3 .. 5
MatchProofs == INSTANCE MatchingProofs WITH Inner <- 0 .. 1, Leaf <- 2 .. 4

\* The trees of the instances are numbered from the root down.
LEMMA PlatformTreesAreNumbered == TreeProofs!NumberedTree /\ MatchProofs!NumberedTree
<1>1. TreeProofs!NumberedTree
  <2>1. 0 .. 2 \cup 3 .. 5 = 0 .. 5
    OBVIOUS
  <2>2. 0 \in Int /\ 5 \in Int /\ \A n \in 0 .. 2, l \in 3 .. 5 : n < l
    OBVIOUS
  <2>3. TreeProofs!IsFiniteSet(0 .. 5)
    BY <2>2, TreeProofs!FS_Interval
  <2> QED  BY <2>1, <2>2, <2>3 DEF TreeProofs!NumberedTree, TreeProofs!Node
<1>2. MatchProofs!NumberedTree
  <2>1. 0 .. 1 \cup 2 .. 4 = 0 .. 4
    OBVIOUS
  <2>2. 0 \in Int /\ 4 \in Int /\ \A n \in 0 .. 1, l \in 2 .. 4 : n < l
    OBVIOUS
  <2>3. MatchProofs!IsFiniteSet(0 .. 4)
    BY <2>2, MatchProofs!FS_Interval
  <2> QED  BY <2>1, <2>2, <2>3 DEF MatchProofs!NumberedTree, MatchProofs!Node
<1> QED  BY <1>1, <1>2

\* EvaluationSound, which a run computes over these trees and the bounded inputs: it
\* is what MatchingProofs shows of any tree, pay and jobs, read for the instances.
THEOREM EvaluationIsSound == PlatformSpec => []EvaluationSound
<1>1. Tree!TreeSound
  BY PlatformTreesAreNumbered, TreeProofs!TreesAreSound, Zenon
  DEF TreeProofs!Children, Tree!Children, TreeProofs!Node, Tree!Node,
      TreeProofs!Results,
      Tree!Results, TreeProofs!Join, Tree!Join, TreeProofs!Root, Tree!Root,
      TreeProofs!Determinative, Tree!Determinative, TreeProofs!Holds, Tree!Holds,
      TreeProofs!Candidates, Tree!Candidates, TreeProofs!Leaves, Tree!Leaves,
      TreeProofs!Trees, Tree!Trees, TreeProofs!Three, Tree!Three, TreeProofs!Cardinality,
      Tree!Cardinality, TreeProofs!LeavesUnder, Tree!LeavesUnder, TreeProofs!Selection,
      Tree!Selection, TreeProofs!Path, Tree!Path, TreeProofs!Better, Tree!Better,
      TreeProofs!Sum, Tree!Sum, TreeProofs!Importance, Tree!Importance,
      TreeProofs!Confidence, Tree!Confidence, TreeProofs!MapThenSumSet, Tree!MapThenSumSet,
      TreeProofs!MapThenFoldSet, Tree!MapThenFoldSet, TreeProofs!TreeSound, Tree!TreeSound,
      TreeProofs!TreeSoundFor, Tree!TreeSoundFor, TreeProofs!ResultSound, Tree!ResultSound,
      TreeProofs!DeterminativeSound, Tree!DeterminativeSound, TreeProofs!PathSound,
      Tree!PathSound
<1>2. Match!SalarySound
  BY MatchProofs!SalariesAreSound, Zenon
  DEF MatchProofs!SalarySound, Match!SalarySound, MatchProofs!SalaryHolds,
      Match!SalaryHolds, MatchProofs!PlainPay, Match!PlainPay, MatchProofs!MixedPay,
      Match!MixedPay, MatchProofs!Meanings, Match!Meanings, MatchProofs!Floor,
      Match!Floor, MatchProofs!Review, Match!Review, MatchProofs!Permissions,
      Match!Permissions, MatchProofs!Amount, Match!Amount, MatchProofs!Null,
      Match!Null, MatchProofs!Offers, Match!Offers, MatchProofs!Reaches,
      Match!Reaches, MatchProofs!Rank, Match!Rank, MatchProofs!evaluateSalary,
      Match!evaluateSalary, MatchProofs!Salary, Match!Salary, MatchProofs!Convert,
      Match!Convert, MatchProofs!Ends, Match!Ends, MatchProofs!Published,
      Match!Published, MatchProofs!Permitted, Match!Permitted, MatchProofs!Compared,
      Match!Compared, MatchProofs!Comparable, Match!Comparable,
      MatchProofs!Unconverted, Match!Unconverted
<1>3. Match!EligibleIsCertain
  BY PlatformTreesAreNumbered, MatchProofs!EligibleAreCertain, Zenon
  DEF MatchProofs!Children, Match!Children, MatchProofs!Node, Match!Node,
      MatchProofs!Results, Match!Results, MatchProofs!Join, Match!Join, MatchProofs!Root,
      Match!Root, MatchProofs!Determinative, Match!Determinative, MatchProofs!Holds,
      Match!Holds, MatchProofs!Candidates, Match!Candidates, MatchProofs!Leaves,
      Match!Leaves, MatchProofs!Trees, Match!Trees, MatchProofs!Three, Match!Three,
      MatchProofs!Cardinality, Match!Cardinality, MatchProofs!Issue, Match!Issue,
      MatchProofs!Min, Match!Min, MatchProofs!Gate, Match!Gate,
      MatchProofs!RequirementGate, Match!RequirementGate, MatchProofs!CustomerGate,
      Match!CustomerGate, MatchProofs!SalaryGate, Match!SalaryGate, MatchProofs!Settled,
      Match!Settled, MatchProofs!Salary, Match!Salary, MatchProofs!deriveEligibility,
      Match!deriveEligibility, MatchProofs!Eligible, Match!Eligible,
      MatchProofs!AnswerHolds, Match!AnswerHolds, MatchProofs!EligibilityHolds,
      Match!EligibilityHolds, MatchProofs!EligibleIsCertain, Match!EligibleIsCertain,
      MatchProofs!Criterion, Match!Criterion, MatchProofs!Reviews, Match!Reviews,
      MatchProofs!SomeSalary, Match!SomeSalary
<1>4. Match!CountedAsReleased
  BY MatchProofs!CountedIsReleased, Zenon
  DEF MatchProofs!CountedAsReleased, Match!CountedAsReleased,
      MatchProofs!EvaluationRow,
      Match!EvaluationRow, MatchProofs!Three, Match!Three, MatchProofs!Eligible,
      Match!Eligible, MatchProofs!Classified, Match!Classified, MatchProofs!Releasable,
      Match!Releasable
<1>5. Pick!InventorySound
  BY MatchProofs!InventoriesAreSound, Zenon
  DEF MatchProofs!InventorySound, Pick!InventorySound, MatchProofs!InventoryHolds,
      Pick!InventoryHolds, MatchProofs!OrderHolds, Pick!OrderHolds, MatchProofs!Swaps,
      Pick!Swaps, MatchProofs!Record, Pick!Record, MatchProofs!Missing, Pick!Missing,
      MatchProofs!IndependentInventory, Pick!IndependentInventory,
      MatchProofs!Independent, Pick!Independent, MatchProofs!FirstArrivals,
      Pick!FirstArrivals, MatchProofs!BetterRecord, Pick!BetterRecord,
      MatchProofs!Quality, Pick!Quality, MatchProofs!Precedes, Pick!Precedes,
      MatchProofs!StableId, Pick!StableId, MatchProofs!Strong, Pick!Strong,
      MatchProofs!Urls, Pick!Urls, MatchProofs!Duplicates, Pick!Duplicates
<1>6. Pick!SelectionSound
  BY MatchProofs!SelectionsAreSound, Zenon
  DEF MatchProofs!SelectionSound, Pick!SelectionSound, MatchProofs!SelectionHolds,
      Pick!SelectionHolds, MatchProofs!Ranked, Pick!Ranked, MatchProofs!Missing,
      Pick!Missing, MatchProofs!BoundedDiversity, Pick!BoundedDiversity,
      MatchProofs!SlotHolds, Pick!SlotHolds, MatchProofs!RanksBefore,
      Pick!RanksBefore, MatchProofs!NearEquals, Pick!NearEquals,
      MatchProofs!LessCrowded, Pick!LessCrowded, MatchProofs!Crowded, Pick!Crowded,
      MatchProofs!Precedes, Pick!Precedes, MatchProofs!Cardinality, Pick!Cardinality
<1>7. EvaluationSound
  BY <1>1, <1>2, <1>3, <1>4, <1>5, <1>6 DEF EvaluationSound
<1> QED  BY <1>7, PTL

===============================================================================
