SPECIFICATION Spec
CONSTANTS
  MaxDepth = 2
  MaxVersions = 4
  MaxText = 1
  RtfPaths = {letter_rtf}
  TxtPaths = {notes_txt}
  letter_rtf = letter_rtf
  notes_txt = notes_txt
  Untitled = Untitled
  NoFile = NoFile
  Truncated = Truncated
  Faults = {}
  Commands = {"style"}
INVARIANTS CleanMeansSaved PlainViewMatches
CHECK_DEADLOCK FALSE
