SPECIFICATION Spec
CONSTANTS
  d1 = d1
  s1 = s1
  s2 = s2
  a1 = a1
  a2 = a2
  None = None
  Draft = {d1}
  Snapshot = {s1}
  Attempt = {a1, a2}
  Request = {r1}
  Worker = {w1}
  DraftOf <- OneDraft
  SnapshotOf <- OneSnapshot
  Total = 1
INVARIANT TypeOK
INVARIANT RowsCohere
INVARIANT SpentExactlyWhenServed
INVARIANT PaymentNeverBlocked
INVARIANT NeverOversold
