SPECIFICATION FairSpec
CONSTANTS
  None = None
  Operation = {o1}
  MaterialLine = {o1}
  Worker = {w1, w2}
  MaxRetries = 1
  Overrun = FALSE
INVARIANT TypeOK
INVARIANT RowsCohere
INVARIANT PaysOnceUncrossed
INVARIANT PendingIsWorked
PROPERTY KeepsPromise
PROPERTY RefundEnds
CHECK_DEADLOCK FALSE
