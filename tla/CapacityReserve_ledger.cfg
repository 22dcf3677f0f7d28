SPECIFICATION FairSpec
CONSTANTS
  c1 = c1
  c2 = c2
  c3 = c3
  k1 = k1
  k2 = k2
  None = None
  Caller = {c1, c2, c3}
  Key = {k1, k2}
  KeyOf <- Keys
  UnitsOf <- Units
  Bucket = {1, 2}
  TotalOf <- Totals
INVARIANT TypeOK
INVARIANT PoolIsHeld
PROPERTY KeepsLedger
PROPERTY WaitEnds
