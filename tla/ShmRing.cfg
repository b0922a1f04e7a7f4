SPECIFICATION FairSpec
CONSTANTS
  Cap = 4
  CtrMod = 8
  Total = 11
INVARIANTS CopiesDisjoint
PROPERTIES ImplementsStream AllDelivered
CHECK_DEADLOCK FALSE
