CONSTANTS
  MaxRequests = 3
  MaxSaves = 1
SPECIFICATION FairSpec
INVARIANTS NoCutImage NoRequestLost SetsOfRequest
PROPERTIES  IndicatorStops
\* After exit() the system has stopped.
CHECK_DEADLOCK FALSE
