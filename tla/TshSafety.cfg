SPECIFICATION FairSpec
CONSTANTS
  MAXJOBS = 1
  Keys = {"INT"}
  Pids = {p1, p2}
  p1 = p1
  p2 = p2
INVARIANTS TypeOK NoLostChild
PROPERTIES LiveChildListed OnlyReapedJobsLeave BackgroundSpared EveryZombieReaped
CHECK_DEADLOCK FALSE
