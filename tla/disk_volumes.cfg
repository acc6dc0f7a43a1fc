SPECIFICATION Spec
INVARIANT VolumesAreKept
INVARIANT PartitionsAreOfTheirMedium
INVARIANT NoPartitionInPartition
PROPERTY KernelReturns
CONSTANTS
  Word = 65536
  ArrayLimit = 8
  Beyond <- MCBeyond
  NumDevices = 2
  VolumeLimit = 3
  Discs <- MCDiscs
  MaxMedia = 3
  SectorSize = 4
CHECK_DEADLOCK FALSE
