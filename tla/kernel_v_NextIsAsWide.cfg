SPECIFICATION KernelSpec
INVARIANT NextIsAsWide
CONSTANTS
  MemoryMaps <- LargeMap
  ScalingFactor = 8
  MaxLevel = 5
  BlockPages <- MCBlockPages
  Sizes <- KernelSizes
  MaxLive = 8
  Page = 8
  BufferSizes = {16, 64, 128}
  ListSize = 1
  Volumes <- KernelVolumes
CHECK_DEADLOCK FALSE
