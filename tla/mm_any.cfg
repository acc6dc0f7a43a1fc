SPECIFICATION Spec
INVARIANT TypeOK
PROPERTY EveryCallReturns
CONSTANTS
  MemoryMaps <- OddMaps
  ScalingFactor = 8
  MaxLevel = 3
  BlockPages <- MCBlockPages
  Sizes <- OddSizes
  MaxLive = 4
CHECK_DEADLOCK FALSE
