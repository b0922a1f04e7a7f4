CONSTANTS
  N = 2
  Slots = 2
  Program <- MCProgram
  MaxCycles = 2
  Hold = 1
  CreditW = 16
  EDepth = 1
  HostDst = 0
SPECIFICATION FairSpec
INVARIANTS Accounted Settled WholePackets InStep
PROPERTIES AllCyclesRun
