-------------------------- MODULE MCSearchCheckout --------------------------
(***************************************************************************)
(* Instances of SearchCheckout for model checking.                         *)
(***************************************************************************)
EXTENDS SearchCheckout, TLC

CONSTANTS d1, s1, s2, a1, a2

\* One draft owns every snapshot.
OneDraft      == [s \in Snapshot |-> d1]

\* Every attempt is on one snapshot; or each of two snapshots has one.
OneSnapshot   == [a \in Attempt |-> s1]
SnapshotEach  == (a1 :> s1 @@ a2 :> s2)
=============================================================================
