SPECIFICATION SteadySpec
CONSTANTS
  LISTLENGTH = 4
  LINEARLENGTH = 5
  LINEARMAX = 2
  INITCHUNKSIZE = 64
  CHUNKSIZE = 48
  REALLOCCHUNKSIZE = 24
  BIGSIZE = 24
  MAX_HEAP = 152
  Indices = {i1, i2, i3}
  Sizes = {0, 8, 20, 40}
SYMMETRY Symmetry
VIEW View
INVARIANTS BlocksTileHeap ListsHoldFreeBlocks FreeBlocksListed NothingWasted PayloadsIntact
PROPERTIES IsAllocator GrowsOnlyWhenFull
CHECK_DEADLOCK FALSE
