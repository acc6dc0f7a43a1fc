SPECIFICATION Spec
INVARIANT FileIsRead
INVARIANT OverrunIsBounded
INVARIANT SearchFinds
PROPERTY CallsReturn
CONSTANTS
  Names <- MCNames
  NullName <- MCNullName
  Path <- MCPath
  RootCluster = 2
  Limit <- MCLimit
  Reserved <- MCReserved
  Top <- MCTop
  SectorReadLimit = 2
  MaxFailures = 1
  Disks <- MCDisks
  Entries <- MCEntries
  RootEntries <- MCRootEntries
CHECK_DEADLOCK FALSE
