---------------------------- MODULE SearchPromise ----------------------------
(***************************************************************************)
(* What the search checkout promises its customers: a charge is answered   *)
(* once, by a search or by a refund; a charge that was not verified buys   *)
(* nothing; and one draft buys one search.                                 *)
(***************************************************************************)
CONSTANTS Attempt, Draft, OwnerOf

VARIABLES charge, outcome

pvars == <<charge, outcome>>

Charge  == {"NONE", "VERIFIED", "UNVERIFIED"}
Outcome == {"UNSETTLED", "SERVED", "REFUNDED", "REJECTED"}

Init ==
  /\ charge = [a \in Attempt |-> "NONE"]
  /\ outcome = [a \in Attempt |-> "UNSETTLED"]

Pay(a) ==
  /\ charge[a] = "NONE"
  /\ \E kind \in {"VERIFIED", "UNVERIFIED"} :
       charge' = [charge EXCEPT ![a] = kind]
  /\ UNCHANGED outcome

Answer(a, kind, answer) ==
  /\ charge[a] = kind
  /\ outcome[a] = "UNSETTLED"
  /\ outcome' = [outcome EXCEPT ![a] = answer]
  /\ UNCHANGED charge

Serve(a) ==
  /\ \A b \in Attempt : OwnerOf[b] = OwnerOf[a] => outcome[b] # "SERVED"
  /\ Answer(a, "VERIFIED", "SERVED")

Refund(a) == Answer(a, "VERIFIED", "REFUNDED")

Reject(a) == Answer(a, "UNVERIFIED", "REJECTED")

Next == \E a \in Attempt : Pay(a) \/ Serve(a) \/ Refund(a) \/ Reject(a)

Spec == Init /\ [][Next]_pvars

\* One draft buys one search.
OneSearchEach ==
  \A a, b \in Attempt :
    outcome[a] = "SERVED" /\ outcome[b] = "SERVED" /\ OwnerOf[a] = OwnerOf[b]
      => a = b
==============================================================================
