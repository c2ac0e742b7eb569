SPECIFICATION Spec
CONSTANTS
  MaxDepth = 1
  MaxVersions = 1
  MaxText = 1
  RtfPaths = {letter_rtf}
  TxtPaths = {notes_txt}
  letter_rtf = letter_rtf
  notes_txt = notes_txt
  Untitled = Untitled
  NoFile = NoFile
  Truncated = Truncated
  Faults = {"cannotOpen", "writeError", "closeError"}
  Commands = {"type", "style", "float", "drag", "columns", "open", "new"}
INVARIANTS ExitIntentHeld
PROPERTIES OverwriteConfirmed
CHECK_DEADLOCK FALSE
