CONSTANTS
  a = a
  b = b
  c = c
  d = d
  Callers = {a, b, c, d}
  Request <- MCRequest
  Enabled = TRUE
  MaxConcurrent = 2
  MaxQueued = 2
  MaxBytes = 2
SPECIFICATION Spec
INVARIANTS LeasesExact HeadBlocked
PROPERTIES Fifo NoSuccessAfterClose PoolSpec
CHECK_DEADLOCK FALSE
