SPECIFICATION MCFairSpec
CONSTANTS
  Slice = 11
  Instances = {1, 2}
  Sizes = {64, 128}
  VectorSizes = {128}
  Synchronised = TRUE
  MaxOps = 4
  MaxVectors = 1
  Vectors = {v1, v2, v3}
  VecSizes = {40, 64, 100}
  MaxHeap = 2
INVARIANTS DirectDelivers OneOwner VectorsSound
PROPERTY DirectEnds
CHECK_DEADLOCK FALSE
