SPECIFICATION Spec
CONSTANTS
  d1 = d1
  s1 = s1
  s2 = s2
  a1 = a1
  a2 = a2
  None = None
  Draft = {d1}
  Snapshot = {s1, s2}
  Attempt = {a1, a2}
  Request = {r1}
  Worker = {}
  DraftOf <- OneDraft
  SnapshotOf <- SnapshotEach
  Total = 2
INVARIANT LockMatchesCheckout
PROPERTY KeepsPromise
