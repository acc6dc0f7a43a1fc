SPECIFICATION Spec
INVARIANT MapIsRight
INVARIANT AreasAreOwned
INVARIANT FileStaysOffTables
INVARIANT EverythingIsMapped
CONSTANTS
  KernelMemoryLimit = 4
  PageSize = 2
  Fanout = 4
  Word = 512
  MaxMmapEntries = 5
  MmapEntryMemoryLimit = 4
  LowMemory = 16
  AddressLimit = 128
  IdentityMapThreshold = 32
  KernelStackSize = 4
  SseOverrun = 1
  Reports <- MCReports
  Garbage <- MCGarbage
  Kernels <- MCKernels
  Framebuffers <- MCFramebuffers
CHECK_DEADLOCK FALSE
