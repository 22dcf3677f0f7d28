SPECIFICATION FairSpec
CONSTANTS
  s1 = s1
  None = None
  Service = {s1}
  Amendment = {m1, m2}
  ServiceOf <- OneService
INVARIANT TypeOK
INVARIANT DeliveredOrRefunded
INVARIANT UnitFollowsCriteria
INVARIANT RowsCohere
PROPERTY ReleaseWaitsForAnswer
PROPERTY DisputeStopsRelease
PROPERTY KeepsPromise
PROPERTY SearchIsDecided
PROPERTY ProposalIsAnswered
