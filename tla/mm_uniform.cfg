SPECIFICATION SpecUniform
INVARIANT HeapInv
INVARIANT MergesAreSound
INVARIANT EveryPageHasOneOwner
INVARIANT NullOnlyWhenExhausted
INVARIANT HeapRestored
PROPERTY ImplementsHeap
CONSTANTS
  MemoryMaps <- Maps
  ScalingFactor = 8
  MaxLevel = 4
  BlockPages <- MCBlockPages
  Sizes <- MCSizes
  MaxLive = 8
CHECK_DEADLOCK FALSE
