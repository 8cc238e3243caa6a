\* Any sequence of operations on a small volume, with a crash and an I/O error.
SPECIFICATION Spec
CONSTANTS
  Clusters = {2, 3, 4, 5, 6, 7}
  Root = 2
  ClusterCells = 4
  FatSectors <- Sectors
  ExactShort <- MCExactShort
  Alias <- PlainAlias
  LfnCount <- MCLfnCount
  Volumes <- MCVolumes
  Paths <- MCPaths
  Requests <- MCRequests
  MaxSize = 9
  MaxOps = 2
  MaxCrashes = 1
  MaxIoErrors = 1
INVARIANTS
  ChainsSeparate
PROPERTIES
  InterruptedOldOrNew
  ImplementsFiles
\* The operations stop at the bound MaxOps.
CHECK_DEADLOCK FALSE
