---------------------------- MODULE ServicePromise ----------------------------
(***************************************************************************)
(* What a paid search promises: ten jobs or the money back, once, and      *)
(* nothing is delivered on a payment its payer disputes.  A merchant who   *)
(* wins the dispute before anything was delivered refunds it.              *)
(***************************************************************************)
CONSTANT Service

VARIABLES outcome, dispute

pvars == <<outcome, dispute>>

Outcome == {"OWED", "DELIVERED", "REFUNDING"}

Init ==
  /\ outcome = [s \in Service |-> "OWED"]
  /\ dispute = [s \in Service |-> "NONE"]

Deliver(s) ==
  /\ outcome[s] = "OWED"
  /\ dispute[s] = "NONE"
  /\ outcome' = [outcome EXCEPT ![s] = "DELIVERED"]
  /\ UNCHANGED dispute

Refund(s) ==
  /\ outcome[s] = "OWED"
  /\ outcome' = [outcome EXCEPT ![s] = "REFUNDING"]
  /\ UNCHANGED dispute

Open(s) ==
  /\ dispute[s] = "NONE"
  /\ dispute' = [dispute EXCEPT ![s] = "OPEN"]
  /\ UNCHANGED outcome

Lose(s) ==
  /\ dispute[s] = "OPEN"
  /\ dispute' = [dispute EXCEPT ![s] = "LOST"]
  /\ UNCHANGED outcome

Win(s) ==
  /\ dispute[s] = "OPEN"
  /\ dispute' = [dispute EXCEPT ![s] = "WON"]
  /\ outcome' = [outcome EXCEPT ![s] = IF @ = "OWED" THEN "REFUNDING" ELSE @]

Next ==
  \E s \in Service : Deliver(s) \/ Refund(s) \/ Open(s) \/ Lose(s) \/ Win(s)

Spec == Init /\ [][Next]_pvars
===============================================================================
