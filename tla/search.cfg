CONSTANTS
  Kind = {"insts", "fills"}
  Callback <- MCCallback
  MaxChanges <- MCMaxChanges
  MaxCommands = 2
  NoKind = NoKind
  Torn = Torn
SPECIFICATION FairSpec
INVARIANTS IndexFresh RebuildAlone RepaintComing
PROPERTY PictureCatchesUp
\* With its changes used up the GUI waits.
CHECK_DEADLOCK FALSE
