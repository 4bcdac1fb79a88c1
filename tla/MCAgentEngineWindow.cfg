CONSTANTS
  ann = ann
  bob = bob
  Clients = {ann, bob}
  MaxCalls = 1
  MaxBatch = 2
  MaxStops = 0
  MaxFailures = 0
SPECIFICATION Spec
INVARIANTS OneOutcome
CHECK_DEADLOCK FALSE
