\* The README's account of address spaces, for one program.
SPECIFICATION FairSpec
CONSTANTS
  TableEntries = 4
  Pools <- MCPools
  MaxDrops = 1
  LowLimit = 32
  Sections <- MCSections
  Framebuffers <- MCFramebuffers
  MmioRange <- MCMmio
  PageSize = 2
  FilePages = 2
  ImageBase = 128
  StackBase = 138
  StackPages = 2
  ContextSize = 3
  Programs <- MCPrograms
  Pointers = {0, 131, 135, 138, 141, 511}
  Lengths = {0, 1, 3, 4, 509}
INVARIANT
  SingleAddressSpace
CHECK_DEADLOCK FALSE
