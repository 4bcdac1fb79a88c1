CONSTANTS
  c1 = c1
  c2 = c2
  c3 = c3
  grp = grp
  Calls = {c1, c2, c3}
  Groups = {grp}
  Group <- MCGroup
  Estimate <- MCEstimate
  Actual <- MCActual
  MaxConcurrency <- MCConcurrency
  DailyRequests <- MCRequests
  DailyTokens <- MCTokens
  MaxDay = 3
  MaxForgets = 2
SPECIFICATION Spec
INVARIANTS QuotaExact WithinQuota
CHECK_DEADLOCK FALSE
