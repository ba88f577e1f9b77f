CONSTANTS
  w1 = w1
  w2 = w2
  c1 = c1
  c2 = c2
  Static = {}
  Domain = {w1, w2}
  Conn = {c1, c2}
  Faults = {"refused", "unhandled", "unanswered"}
  PriorityMod = 4
  MAX_FAILED_WORKERS_TRIALS = 3
  MaxRequests = 3
  MaxLost = 1
  Free = Free
  Lookup = Lookup
SPECIFICATION FairSpec
INVARIANTS ListedHaveHistory JobsSeeHistory AppliedOnce
PROPERTY RequestsMove
\* With its requests spent and its threads stuck or done the system stops.
CHECK_DEADLOCK FALSE
