CONSTANTS
  w1 = w1
  w2 = w2
  c1 = c1
  c2 = c2
  Static = {w1, w2}
  Domain = {}
  Conn = {c1}
  Faults = {"unanswered"}
  PriorityMod = 8
  MAX_FAILED_WORKERS_TRIALS = 3
  MaxRequests = 1
  MaxLost = 0
  Free = Free
  Lookup = Lookup
SPECIFICATION FairSpec
PROPERTY RequestsEnd
CHECK_DEADLOCK FALSE
