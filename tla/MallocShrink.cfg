SPECIFICATION Spec
CONSTANTS
  LISTLENGTH = 4
  LINEARLENGTH = 5
  LINEARMAX = 2
  INITCHUNKSIZE = 64
  CHUNKSIZE = 48
  REALLOCCHUNKSIZE = 24
  BIGSIZE = 24
  MAX_HEAP = 152
  Indices = {i1, i2}
  Sizes = {8, 24, 40}
SYMMETRY Symmetry
INVARIANT ListsHoldFreeBlocks
CHECK_DEADLOCK FALSE
