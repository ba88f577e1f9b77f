CONSTANTS
  InstId = {1, 2}
  PinId = {1, 2, 3, 4}
  NetId = {1, 2}
  InstName = {"a", "b"}
  NetName = {"n", "m"}
  Master = {and2, or2, inv}
  and2 = and2
  or2 = or2
  inv = inv
  MTerms <- MCMTerms
  Orient = {"R0"}
  Shift <- MCShift
  Loc = {1}
  Mark = {"SIGNAL", "CLOCK"}
  NoObj = NoObj
  R0 = "R0"
  Signal = "SIGNAL"
  InitBlocks <- MCInitBlocks
  Avoid = {"fixed", "shifted", "dont_touch", "marked", "unmarked", "late"}
  MaxLog = 6
  MaxEdits = 2
  NoLog = NoLog
SPECIFICATION RemoteSpec
INVARIANT RedoOnTrack
PROPERTIES CommitReproduces ImplementsCheckpoint
