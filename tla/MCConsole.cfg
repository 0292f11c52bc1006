CONSTANTS
  Char <- MCChar
  Blank = " "
  NewLine <- MCNewLine
  Line <- MCLine
  Commands <- MCCommands
  Image = {"small", "full", "over", "two"}
  Nothing = "nothing"
  INT_MAX = 2147483647
  BufSize = 12
  MaxArgs = 3
  Geometry <- MCGeometry
  Ino <- MCIno
  Stored <- MCStored
  Entries <- MCEntries
  Stale <- MCStale
  Root = 2
  Unit = 4
  U31 = 16
  U64 = 4096
SPECIFICATION ConsoleSpec
INVARIANTS TypeOK LineIsWhole ArgsAreWords HintIsNearest StaysWithinRead OnlyKnownCrashes LastLetterWins
PROPERTIES ImplementsPrompt LineAnswered
CHECK_DEADLOCK FALSE
