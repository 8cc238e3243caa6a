\* The allocator from the memory map to a running system, three slots.
SPECIFICATION FairSpec
CONSTANTS
  MaxRanges = 3
  PageSize = 2
  MaxPhysPage = 12
  MemoryMaps <- MCMaps
  Regions <- MCRegions
  AllocSizes = {1, 2, 3}
INVARIANTS
  TypeOK
  TableSeparated
  PagesExclusive
  PagesConserved
  ReservedKept
  CountsAgree
PROPERTIES
  LostOnlyWhenFull
  BootEnds
  ImplementsStore
\* kmain() stops for good when it panics.
CHECK_DEADLOCK FALSE
