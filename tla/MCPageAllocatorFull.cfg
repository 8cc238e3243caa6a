\* The self-test of a system whose memory map fills the table.
SPECIFICATION FairSpec
CONSTANTS
  MaxRanges = 3
  PageSize = 2
  MaxPhysPage = 12
  MemoryMaps <- FullMaps
  Regions <- MCRegions
  AllocSizes = {1, 2, 3}
INVARIANT
  SelfTestRestoresPages
CHECK_DEADLOCK FALSE
