SPECIFICATION PlanSpec
CONSTANTS
  N = 3
  MAXR = 3
  Hosts = {"a"}
  HaloMode = 1
  Plans <- MCTriplePlans
  Calls <- MCRebuildCalls
  MaxCalls = 3
  Lead = 3
INVARIANTS TransportUniform
CHECK_DEADLOCK FALSE
