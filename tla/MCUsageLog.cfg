SPECIFICATION FairSpec
CONSTANTS
  r1 = r1
  r2 = r2
  j1 = j1
  a = a
  b = b
  shared = shared
  own = own
  Writer = writer
  Reset = reset
  Keeper = keeper
  Requests = {r1, r2}
  Jobs = {j1}
  Readers = {a, b}
  Casts <- MCCasts
  Flushers <- MCFlushers
  Size <- MCSize
  Asset <- MCAsset
  QueueCapacity = 1
  BatchCapacity = 2
  Budget = 1
  Attempts = 2
  MaxFaults = 1
  MaxResets = 1
  MaxKeeps = 1
  MaxRepeats = 1
CHECK_DEADLOCK FALSE
INVARIANTS BudgetExact ClearedStaysCleared NoSilentLoss AttachmentsKept ServedFresh
PROPERTIES Settles
