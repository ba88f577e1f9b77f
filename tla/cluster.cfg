CONSTANTS
  w1 = w1
  w2 = w2
  Worker = {w1}
  Late = {w2}
  NumBoxes = 3
  CloudSize = 2
  DoPA = TRUE
  LateAny = FALSE
  MAX_TRIES = 2
  MaxBatches = 3
  MaxFaults = 2
SPECIFICATION FairSpec
INVARIANTS JobsOnLeadersDesign ResultsFitBatch NoViolationForgotten
PROPERTY RouterEnds
\* The leader ends, or the cluster fails it.
CHECK_DEADLOCK FALSE
