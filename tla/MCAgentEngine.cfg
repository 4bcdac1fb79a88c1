CONSTANTS
  ann = ann
  bob = bob
  Clients = {ann}
  MaxCalls = 2
  MaxBatch = 2
  MaxStops = 1
  MaxFailures = 1
SPECIFICATION FairSpec
INVARIANTS OneOutcomeUnlessStale WaitingOwnsUnexecuted PairedUnlessInterrupted NotStuckRunning NoTurnAfterShutdown
PROPERTY TurnEnds
CHECK_DEADLOCK FALSE
