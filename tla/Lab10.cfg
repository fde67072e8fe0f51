SPECIFICATION LabSpec
CONSTANTS
  Conns = {c1, c2}
  Fds = {4, 5, 6}
  NoFd = 99
  MAX_BODY = 1
  MAX_LINES = 1
  MAX_ADDRS = 2
  LINE_BYTES = 3
  Gradings <- AllGradings
  ROUNDS = 1
  LAGS = 2
  PART2_1_CUT = 2
  CONCURRENCY = 2
VIEW View
INVARIANTS TypeOK DescriptorsAreHeld LoggedSizeOfWhole FaultlessPasses FaultsFound
PROPERTIES OnlyMainExits ConnectionsEnd TestEnds
CHECK_DEADLOCK FALSE
