CONSTANTS
  N = 3
  Calls <- MCCalls
  PayloadMax = 2
  Discipline = "conformant"
  Timeouts = FALSE
  MaxGen = 3
  MaxFallback = 1
SPECIFICATION FairSpec
INVARIANTS ResultLineReuse
PROPERTIES EveryCallReturns Implements
