SPECIFICATION FairSpec
CONSTANTS
  N = 2
  Cap = 2
  Exchanges <- MCExchanges
  MaxExchanges = 3
INVARIANTS ExchangeExact
PROPERTIES ExchangeEnds NoStuckLoop
CHECK_DEADLOCK FALSE
