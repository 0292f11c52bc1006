CONSTANTS
  SizeT = 1048576
  BlockSize = 1024
  NDirect = 3
  U32 = 32768
  Base = 7
  CloneSize = 20480
  MallocLimit = 65536
  Stray = {0, 5, 8}
  NoFile = NoFile
  File <- MCFiles
SPECIFICATION Spec
INVARIANTS TypeOK ReadsWhole PlainIsShown NeverMisread
CHECK_DEADLOCK FALSE
