SPECIFICATION Spec
CONSTANTS
  MaxDepth = 2
  MaxVersions = 3
  MaxText = 2
  RtfPaths = {letter_rtf}
  TxtPaths = {}
  letter_rtf = letter_rtf
  Untitled = Untitled
  NoFile = NoFile
  Truncated = Truncated
  Faults = {}
  Commands = {"type"}
PROPERTY UndoCleansTruthfully
CHECK_DEADLOCK FALSE
