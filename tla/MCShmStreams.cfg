SPECIFICATION StreamsSpec
CONSTANTS
  N = 3
  Calls <- MCAnyCalls
  PayloadMax = 2
  Discipline = "free"
  Timeouts = TRUE
  MaxGen = 2
  MaxFallback = 0
INVARIANTS ReturnsLabelled
PROPERTIES NoSilentHang
CHECK_DEADLOCK FALSE
