CONSTANTS
  File = {"f", "g"}
  Image = {"flat", "chain", "deep"}
  Dir = {2, 12, 13, 14}
  Root = 2
  Name = {"..", "a", "b", "c"}
  Up = ".."
  NoDir = 0
  Sub <- MCSub
  Level <- MCLevel
  Ragged = {"chain"}
  Nothing = Nothing
  Starts <- MCStarts
  MaxPath = 2
  MaxOpen = 2
  MaxEdits = 1
SPECIFICATION Spec
INVARIANTS LastSaveStands
CHECK_DEADLOCK FALSE
