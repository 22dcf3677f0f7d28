----------------------------- MODULE RefundPromise -----------------------------
(***************************************************************************)
(* What an operator and a customer may believe of a refund operation: it   *)
(* is reported done only when a refund of it has gone through, and then    *)
(* for good; it is reported failed only when one was refused; and a failed *)
(* refund is pending again only because an operator retried it, once for   *)
(* every failure reported.                                                 *)
(***************************************************************************)
EXTENDS Naturals

CONSTANT Operation

VARIABLES
  reported,  \* what the database says
  paid,      \* operations of which a refund went through
  refused,   \* operations of which a refund failed
  retries    \* how often an operator retried it

promised == <<reported, paid, refused, retries>>

Init ==
  /\ reported = [o \in Operation |-> "PENDING"]
  /\ paid = {}
  /\ refused = {}
  /\ retries = [o \in Operation |-> 0]

PayBack(o) ==
  /\ paid' = paid \cup {o}
  /\ UNCHANGED <<reported, refused, retries>>

Refuse(o) ==
  /\ refused' = refused \cup {o}
  /\ UNCHANGED <<reported, paid, retries>>

Report(o, state) ==
  /\ reported[o] = "PENDING"
  /\ \/ state = "SUCCEEDED" /\ o \in paid
     \/ state = "FAILED" /\ o \in refused
  /\ reported' = [reported EXCEPT ![o] = state]
  /\ UNCHANGED <<paid, refused, retries>>

Retry(o) ==
  /\ reported[o] = "FAILED"
  /\ reported' = [reported EXCEPT ![o] = "PENDING"]
  /\ retries' = [retries EXCEPT ![o] = @ + 1]
  /\ UNCHANGED <<paid, refused>>

Next ==
  \E o \in Operation :
    \/ PayBack(o)
    \/ Refuse(o)
    \/ \E state \in {"SUCCEEDED", "FAILED"} : Report(o, state)
    \/ Retry(o)

Spec == Init /\ [][Next]_promised
================================================================================
