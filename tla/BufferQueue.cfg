CONSTANTS
  b0 = b0
  b1 = b1
  Byte = {b0, b1}
  Garbage = Garbage
  InitialCapacity = 2
  ShrinkThreshold = 4
  Capacities = {1, 6, 20}
  MaxWrite = 4
  MaxContent = 5
SPECIFICATION FairSpec
INVARIANTS IndicesInRange
PROPERTIES ImplementsQueue GrowthEnds
