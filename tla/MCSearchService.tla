--------------------------- MODULE MCSearchService ---------------------------
(***************************************************************************)
(* Instances of SearchService for model checking.                          *)
(***************************************************************************)
EXTENDS SearchService

CONSTANT s1

\* Every proposal is made to the one search: searches share nothing but the
\* capacity bucket, and CapacityReserve has that.
OneService == [m \in Amendment |-> s1]
=============================================================================
