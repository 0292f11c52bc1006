CONSTANTS
  BlockWords = 33
  ImageWords = 41
  TextWords = 5
  Name = {"dot", "dotdot", "a", "b", "c", "end"}
  NoName = NoName
  Inode = {4, 5, 6, 7, 20}
  DirIno = 2
  Images <- MCImages
  Removable = {"dot", "a", "b", "c"}
  MallocLimit = 8
  SizeHalf = 40
SPECIFICATION FairSpec
INVARIANTS NoDangling
PROPERTIES ImplementsDirectory CommandsEnd
