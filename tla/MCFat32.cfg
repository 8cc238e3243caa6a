\* Any sequence of operations on a small volume, without faults.
SPECIFICATION Spec
CONSTANTS
  Clusters = {2, 3, 4, 5, 6, 7}
  Root = 2
  ClusterCells = 4
  FatSectors <- Sectors
  ExactShort <- MCExactShort
  Alias <- ClashAlias
  LfnCount <- MCLfnCount
  Volumes <- MCVolumes
  Paths <- MCPaths
  Requests <- MCRequests
  MaxSize = 9
  MaxOps = 3
  MaxCrashes = 0
  MaxIoErrors = 0
INVARIANTS
  ChainsSeparate
  DirectoriesSound
PROPERTIES
  SpaceLostOnlyWhenFull
  ImplementsFiles
\* The operations stop at the bound MaxOps.
CHECK_DEADLOCK FALSE
