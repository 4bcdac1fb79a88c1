SPECIFICATION ServerFairSpec
CONSTANTS
  a = a
  b = b
  c = c
  Callers = {a, b, c}
  Request <- MCRequest
  Casts <- MCCasts
  Enabled = TRUE
  MaxConcurrent = 1
  MaxQueued = 2
  MaxBytes = 2
CHECK_DEADLOCK FALSE
INVARIANTS StoreOutlivesWork
PROPERTIES WaiterReturns ShutdownEnds
