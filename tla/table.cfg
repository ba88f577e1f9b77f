CONSTANTS
  PageSize = 2
  MaxPages = 3
SPECIFICATION WalkSpec
INVARIANTS FreeListOK BoundsOK VisitsAll
PROPERTIES ImplementsIdPool EachOnce
