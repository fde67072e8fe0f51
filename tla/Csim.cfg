SPECIFICATION PairSpec
CONSTANTS
  S = 2
  B = 2
  E = 3
  More = 4
  Addresses = {0, 1, 2, 4, 8, 12, 16}
  INT_MAX = 6
INVARIANTS OneLinePerBlock CountersAgree Inclusion
PROPERTIES StoreAfterLoadHits IsLru
CHECK_DEADLOCK FALSE
