SPECIFICATION Spec
INVARIANT KernelIsInformed
INVARIANT UsableMapIsRight
INVARIANT ExitIsRight
PROPERTY Ends
CONSTANTS
  KernelMemoryLimit = 5
  Firmwares <- MCFirmwares
  KernelPages = 2
  MinFirmwareMemory = 3
  MmapEntryMemoryLimit = 2
  MaxColor = 65535
CHECK_DEADLOCK FALSE
