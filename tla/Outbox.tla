-------------------------------- MODULE Outbox --------------------------------
(***************************************************************************)
(* Transactional messages from their row in ap_outbox_messages to the mail *)
(* provider: the passes of processChunk4Outbox, their leases and retries,  *)
(* the provider's idempotency keys, and the alert a dead letter opens.     *)
(*                                                                         *)
(* Of time only the order of its ends is kept: the 24 hours of the retry   *)
(* window begin when a message is first claimed, those of the provider's   *)
(* key when it is first submitted, which is later.                         *)
(***************************************************************************)
EXTENDS Naturals

CONSTANTS
  Message,  \* ap_outbox_messages, queued by the other components
  Pass,     \* calls of processChunk4Outbox, which may overlap
  Owner,    \* lease owners
  OwnerOf,  \* the owner a pass claims for: the environment's worker id
  None

ASSUME OutboxAssumption ==
  /\ OwnerOf \in [Pass -> Owner]
  /\ None \notin Owner \cup Message

VARIABLES
  row,       \* ap_outbox_messages
  key,       \* whether the provider holds the message's idempotency key
  accepted,  \* how often the provider took the message for delivery, up to 2
  pass,      \* the step a pass is at, its claimed messages and the current one
  critical   \* open CRITICAL alerts whose key is not maintenance/...

outboxVars == <<row, key, accepted, pass, critical>>

Absent == [state |-> "ABSENT", owner |-> None, lease |-> "NONE",
           due |-> FALSE, window |-> "UNSUBMITTED"]
Row == [state : {"ABSENT", "QUEUED", "SENDING", "RETRY", "SENT", "DEAD_LETTER"},
        owner : Owner \cup {None}, lease : {"NONE", "LIVE", "LAPSED"},
        due : BOOLEAN, window : {"UNSUBMITTED", "OPEN", "OVER"}]
Key  == {"UNUSED", "HELD", "LAPSED"}
Off  == [at |-> "OFF", batch |-> {}, message |-> None]
Step == {"OFF", "CLAIM", "NEXT", "OPEN", "RENDER", "SUBMIT", "RECORD", "CATCH",
         "DONE", "THROWN"}

\* The rows a pass may write: ap_fail_outbox_message and
\* ap_complete_outbox_message look at state and owner, not at the lease's end.
Holds(p, m)    == row[m].state = "SENDING" /\ row[m].owner = OwnerOf[p]
Claimable(m)   == \/ row[m].state \in {"QUEUED", "RETRY"} /\ row[m].due
                  \/ row[m].state = "SENDING" /\ row[m].lease = "LAPSED"
Ended(m)       == row[m].state \in {"SENT", "DEAD_LETTER"}
Goes(p, at)    == pass' = [pass EXCEPT ![p].at = at]
Current(p, at) == pass[p].at = at

OutboxInit ==
  /\ row = [m \in Message |-> Absent]
  /\ key = [m \in Message |-> "UNUSED"]
  /\ accepted = [m \in Message |-> 0]
  /\ pass = [p \in Pass |-> Off]
  /\ critical = {}

-------------------------------------------------------------------------------
\* A commerce function queues its message in its own transaction.
Queue(m) ==
  /\ row[m].state = "ABSENT"
  /\ row' = [row EXCEPT ![m] = [@ EXCEPT !.state = "QUEUED", !.due = TRUE]]
  /\ UNCHANGED <<key, accepted, pass, critical>>

StartPass(p) ==
  /\ Current(p, "OFF")
  /\ Goes(p, "CLAIM")
  /\ UNCHANGED <<row, key, accepted, critical>>

Claim(p) ==
  /\ Current(p, "CLAIM")
  /\ LET claimed == {m \in Message : Claimable(m)} IN
     /\ row' = [m \in Message |->
          IF m \notin claimed THEN row[m]
          ELSE [row[m] EXCEPT
                 !.state = "SENDING", !.owner = OwnerOf[p], !.lease = "LIVE",
                 !.window = IF @ = "UNSUBMITTED" THEN "OPEN" ELSE @]]
     /\ pass' = [pass EXCEPT ![p] =
                   [at |-> "NEXT", batch |-> claimed, message |-> None]]
  /\ UNCHANGED <<key, accepted, critical>>

\* The loop over the claimed rows.
TakeNext(p) ==
  /\ Current(p, "NEXT")
  /\ IF pass[p].batch = {}
     THEN Goes(p, "DONE")
     ELSE \E m \in pass[p].batch :
            pass' = [pass EXCEPT ![p] = [at |-> "OPEN", message |-> m,
                                         batch |-> pass[p].batch \ {m}]]
  /\ UNCHANGED <<row, key, accepted, critical>>

\* ap_renew_outbox_lease, called before the message is put together and again
\* before it is submitted.
Renew(p, from, to) ==
  LET m == pass[p].message IN
  /\ Current(p, from)
  /\ Goes(p, IF Holds(p, m) /\ row[m].lease = "LIVE" THEN to ELSE "CATCH")
  /\ UNCHANGED <<row, key, accepted, critical>>

\* Configuration, context, access link or template is missing.
CannotRender(p) ==
  /\ Current(p, "RENDER")
  /\ Goes(p, "CATCH")
  /\ UNCHANGED <<row, key, accepted, critical>>

\* emails.send with the message's idempotency key; the answer may be lost.
Submit(p) ==
  LET m == pass[p].message IN
  /\ Current(p, "SUBMIT")
  /\ \/ /\ key' = [key EXCEPT ![m] = "HELD"]
        /\ accepted' = IF key[m] = "HELD" \/ accepted[m] = 2 THEN accepted
                       ELSE [accepted EXCEPT ![m] = @ + 1]
        /\ Goes(p, "RECORD") \/ Goes(p, "CATCH")
     \/ Goes(p, "CATCH") /\ UNCHANGED <<key, accepted>>
  /\ UNCHANGED <<row, critical>>

Complete(p) ==
  LET m == pass[p].message IN
  /\ Current(p, "RECORD")
  /\ IF Holds(p, m)
     THEN /\ row' = [row EXCEPT ![m] = [@ EXCEPT !.state = "SENT",
                                          !.owner = None, !.lease = "NONE"]]
          /\ Goes(p, "NEXT")
     ELSE Goes(p, "CATCH") /\ UNCHANGED row
  /\ UNCHANGED <<key, accepted, critical>>

\* Fault: a message is given up without an alert.
FailSilently(p) ==
  LET m == pass[p].message IN
  /\ Current(p, "CATCH")
  /\ IF Holds(p, m)
     THEN /\ row' = [row EXCEPT ![m] = [@ EXCEPT
                       !.state = IF row[m].window = "OVER" THEN "DEAD_LETTER" ELSE "RETRY",
                       !.due = FALSE, !.owner = None, !.lease = "NONE"]]
          /\ Goes(p, "NEXT")
     ELSE Goes(p, "THROWN") /\ UNCHANGED row
  /\ UNCHANGED <<key, accepted, critical>>

\* The catch block of processChunk4Outbox with ap_fail_outbox_message, whose
\* own failure leaves the loop.
Fail(p) ==
  LET m == pass[p].message
      dead == row[m].window = "OVER" IN
  /\ Current(p, "CATCH")
  /\ IF Holds(p, m)
     THEN /\ row' = [row EXCEPT ![m] = [@ EXCEPT
                       !.state = IF dead THEN "DEAD_LETTER" ELSE "RETRY",
                       !.due = FALSE, !.owner = None, !.lease = "NONE"]]
          /\ critical' = IF dead THEN critical \cup {m} ELSE critical
          /\ Goes(p, "NEXT")
     ELSE Goes(p, "THROWN") /\ UNCHANGED <<row, critical>>
  /\ UNCHANGED <<key, accepted>>

Advance(p) ==
  \/ Claim(p)
  \/ TakeNext(p)
  \/ Renew(p, "OPEN", "RENDER")
  \/ Renew(p, "RENDER", "SUBMIT")
  \/ CannotRender(p)
  \/ Submit(p)
  \/ Complete(p)
  \/ Fail(p)

\* The pass returned, threw, or its process died.
EndPass(p) ==
  /\ ~Current(p, "OFF")
  /\ pass' = [pass EXCEPT ![p] = Off]
  /\ UNCHANGED <<row, key, accepted, critical>>

\* Time.
LeaseLapses(m) ==
  /\ row[m].lease = "LIVE"
  /\ row' = [row EXCEPT ![m].lease = "LAPSED"]
  /\ UNCHANGED <<key, accepted, pass, critical>>

RetryComes(m) ==
  /\ row[m].state = "RETRY" /\ ~row[m].due
  /\ row' = [row EXCEPT ![m].due = TRUE]
  /\ UNCHANGED <<key, accepted, pass, critical>>

\* 24 hours after first_submitted_at.
WindowCloses(m) ==
  /\ row[m].window = "OPEN"
  /\ row' = [row EXCEPT ![m].window = "OVER"]
  /\ UNCHANGED <<key, accepted, pass, critical>>

\* 24 hours after the provider first saw the key, which is after the first claim.
KeyLapses(m) ==
  /\ key[m] = "HELD" /\ row[m].window = "OVER"
  /\ key' = [key EXCEPT ![m] = "LAPSED"]
  /\ UNCHANGED <<row, accepted, pass, critical>>

OutboxTime(m) ==
  LeaseLapses(m) \/ RetryComes(m) \/ WindowCloses(m) \/ KeyLapses(m)

OutboxNext ==
  \/ \E p \in Pass : StartPass(p) \/ Advance(p) \/ EndPass(p)
  \/ \E m \in Message : Queue(m) \/ OutboxTime(m)

OutboxSpec == OutboxInit /\ [][OutboxNext]_outboxVars

-------------------------------------------------------------------------------
OutboxTypeOK ==
  /\ row \in [Message -> Row]
  /\ key \in [Message -> Key]
  /\ accepted \in [Message -> 0 .. 2]
  /\ pass \in [Pass -> [at : Step, batch : SUBSET Message,
                        message : Message \cup {None}]]

\* A message leaves the queue in two ways only: the provider has taken it, or
\* staff have an alert that it was given up. No order of overlapping passes,
\* whose owners are equal, marks a message sent that was not.
NothingLost ==
  \A m \in Message :
    /\ row[m].state = "SENT" => accepted[m] > 0
    /\ row[m].state = "DEAD_LETTER" => m \in critical

\* The provider takes a message a second time only when 24 hours have passed
\* since it was first claimed: until then every pass sends one key.
TwiceOnlyAfterWindow ==
  \A m \in Message : accepted[m] > 1 => row[m].window = "OVER"

MailSafe == NothingLost /\ TwiceOnlyAfterWindow

===============================================================================
