SPECIFICATION FairSpec
CONSTANTS
  Slice = 11
  Instances = {1, 2}
  Sizes = {64, 128}
  VectorSizes = {128}
  Synchronised = FALSE
  MaxOps = 4
  MaxVectors = 1
CHECK_DEADLOCK FALSE
INVARIANT StagingKept
