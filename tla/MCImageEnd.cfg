CONSTANTS
  SizeT = 1048576
  U32 = 262144
  IoBuf = 4096
  File = {"a", "b"}
  NoFile = NoFile
  Inode = {12, 13}
  DirIno = 2
  Starts <- FullStart
SPECIFICATION Spec
INVARIANTS OnlyPastEnd
CHECK_DEADLOCK FALSE
