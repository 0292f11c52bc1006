CONSTANTS
  BlockWords = 19
  ImageWords = 25
  TextWords = 5
  Name = {"dot", "dotdot", "a", "b", "c", "d", "s"}
  NoName = NoName
  Inode = {3, 4, 5, 6, 7, 20}
  DirIno = 2
  Images <- MCImages
  Removable = {"a", "b", "c", "d", "s"}
  MallocLimit = 8
  SizeHalf = 20
SPECIFICATION Spec
INVARIANTS TypeOK ListIsChain ListIsFaithful ShiftMovesDown SurvivorsKept DotStays
PROPERTIES NeighbourIntact
CHECK_DEADLOCK FALSE
