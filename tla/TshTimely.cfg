SPECIFICATION FairTimelySpec
CONSTANTS
  MAXJOBS = 2
  Keys = {"TSTP"}
  Pids = {p1, p2}
  p1 = p1
  p2 = p2
INVARIANTS OneSlotPerProcess NoGhostJob OneForeground StoppedJobsAreStopped StopsAreListed
PROPERTY WaitfgReturns
CHECK_DEADLOCK FALSE
