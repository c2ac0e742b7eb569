SPECIFICATION Spec
CONSTANTS
  Plain = "plain"
  Chars = {"x"}
  Formats = {"plain", "bold"}
  Alignments = {"left"}
  Levels = {0}
  Kinds = {FALSE}
  Pastes <- WordPastes
  MaxRows = 3
  MaxChars = 3
  MaxFormats = 5
  MaxFloats = 1
PROPERTY ImplementsStyledText
CHECK_DEADLOCK FALSE
