SPECIFICATION FairSpec
CONSTANTS
  MAXJOBS = 1
  Keys = {}
  Pids = {p1}
  p1 = p1
PROPERTY WaitfgReturns
CHECK_DEADLOCK FALSE
