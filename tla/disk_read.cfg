SPECIFICATION Spec
INVARIANT BytesArrive
INVARIANT WritesStayInside
INVARIANT TransfersAligned
INVARIANT TempGivenBack
PROPERTY ReadReturns
CONSTANTS
  BytesPerSector = 4
  DriveSectors = 6
  SectorsPerRead = 2
  MoveThreshold = 2
  Volumes <- MCVolumes
  Addresses <- MCAddresses
  Buffers <- MCBuffers
  Offsets <- MCOffsets
  Sizes <- MCSizes
  TempAddresses <- MCTempAddresses
CHECK_DEADLOCK FALSE
