CONSTANTS
  MaxPasses = 2
  MaxDecreasing = 1
  MaxFailed = 1
  MaxBuffers = 1
  MaxSlack = 0
  MaxEnds = 1
  MaxTries = 3
  MaxMoves = 4
  MaxCommands = 1
  NoLog = NoLog
SPECIFICATION Spec
PROPERTY HoldWithinMax
\* After the last command.
CHECK_DEADLOCK FALSE
