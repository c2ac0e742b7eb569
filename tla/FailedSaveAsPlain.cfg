SPECIFICATION Spec
CONSTANTS
  MaxDepth = 2
  MaxVersions = 3
  MaxText = 1
  RtfPaths = {letter_rtf}
  TxtPaths = {notes_txt}
  letter_rtf = letter_rtf
  notes_txt = notes_txt
  Untitled = Untitled
  NoFile = NoFile
  Truncated = Truncated
  Faults = {"cannotOpen"}
  Commands = {"style"}
INVARIANT CleanMeansSaved
CHECK_DEADLOCK FALSE
