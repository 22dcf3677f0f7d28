SPECIFICATION Spec
CONSTANTS
  None = None
  Operation = {o1}
  MaterialLine = {o1}
  Worker = {w1}
  MaxRetries = 2
  Overrun = FALSE
INVARIANT MoneyBackOnce
CHECK_DEADLOCK FALSE
