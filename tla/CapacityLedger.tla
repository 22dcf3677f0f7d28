---------------------------- MODULE CapacityLedger ----------------------------
(***************************************************************************)
(* What the capacity tables promise, whoever writes them: every unit asked *)
(* for is debited from one bucket, is spent or returned at most once and   *)
(* never changes hands, and no bucket is debited beyond its total units.   *)
(*                                                                         *)
(* A slot is one unit of one allocation.  One transaction may advance any  *)
(* number of slots.                                                        *)
(***************************************************************************)
EXTENDS Naturals, FiniteSets

CONSTANTS Slot, Bucket, Total, None

VARIABLE unit

Status    == {"FREE", "HELD", "SPENT", "RETURNED"}
UnitState == [status : Status, bucket : Bucket \cup {None}]
Unasked   == [status |-> "FREE", bucket |-> None]

\* The units debited from a bucket.
Used(b) == {s \in Slot : /\ unit[s].bucket = b
                         /\ unit[s].status \in {"HELD", "SPENT"}}

\* No bucket is oversold.
Fits == \A b \in Bucket : Cardinality(Used(b)) <= Total[b]

Init == unit = [s \in Slot |-> Unasked]

Debit(s) ==
  /\ unit[s] = Unasked
  /\ unit'[s].status \in {"HELD", "SPENT"}
  /\ unit'[s].bucket \in Bucket

Spend(s) ==
  /\ unit[s].status = "HELD"
  /\ unit'[s] = [unit[s] EXCEPT !.status = "SPENT"]

Return(s) ==
  /\ unit[s].status = "HELD"
  /\ unit'[s] = [unit[s] EXCEPT !.status = "RETURNED"]

Next ==
  /\ unit' \in [Slot -> UnitState]
  /\ \A s \in Slot : unit'[s] = unit[s] \/ Debit(s) \/ Spend(s) \/ Return(s)
  /\ Fits'

Spec == Init /\ [][Next]_unit
===============================================================================
