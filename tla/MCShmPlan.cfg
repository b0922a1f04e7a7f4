SPECIFICATION PlanFairSpec
CONSTANTS
  N = 2
  MAXR = 3
  Hosts = {"a", "b"}
  HaloMode = 2
  Plans <- MCTold
  Calls <- MCCalls
  MaxCalls = 4
  Lead = 1
INVARIANTS ActiveMeansAllMapped TransportUniform CaptureCurrent WaitsComplete
PROPERTIES InitReturns
CHECK_DEADLOCK FALSE
