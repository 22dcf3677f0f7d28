-------------------------- MODULE MCCapacityReserve --------------------------
(***************************************************************************)
(* An instance of CapacityReserve: three calls, two of them the same       *)
(* request sent twice, on a bucket with room for one of the two requests   *)
(* and a later one with room for both.                                     *)
(***************************************************************************)
EXTENDS CapacityReserve, TLC

CONSTANTS c1, c2, c3, k1, k2

Keys   == (c1 :> k1 @@ c2 :> k1 @@ c3 :> k2)
Units  == (k1 :> 1 @@ k2 :> 2)
Totals == (1 :> 2 @@ 2 :> 3)
==============================================================================
