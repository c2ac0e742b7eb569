SPECIFICATION Spec
CONSTANTS
  MaxDepth = 2
  MaxVersions = 3
  MaxText = 1
  RtfPaths = {letter_rtf, memo_rtf}
  TxtPaths = {}
  letter_rtf = letter_rtf
  memo_rtf = memo_rtf
  Untitled = Untitled
  NoFile = NoFile
  Truncated = Truncated
  Faults = {"cannotOpen"}
  Commands = {"float", "open", "new"}
INVARIANTS TypeOK CleanMeansSaved
PROPERTIES ExitKeepsWork KeepsContract
CHECK_DEADLOCK FALSE
