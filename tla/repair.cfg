CONSTANTS
  MaxPasses = 2
  MaxDecreasing = 1
  MaxFailed = 1
  MaxBuffers = 1
  MaxSlack = 1
  MaxEnds = 2
  MaxTries = 1
  MaxMoves = 3
  MaxCommands = 2
  NoLog = NoLog
SPECIFICATION Spec
INVARIANTS CountsKept ParasiticsInOrder KeptIsAccepted WorstSlackKept HoldCountTrue JournalClosed
\* After the last command; or the program has crashed.
CHECK_DEADLOCK FALSE
