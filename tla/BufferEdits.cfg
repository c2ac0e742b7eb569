SPECIFICATION Spec
CONSTANTS
  Plain = "plain"
  Chars = {"x"}
  Formats = {"plain", "bold"}
  Alignments = {"left"}
  Levels = {0, 1}
  Kinds = {FALSE}
  Pastes <- WordPastes
  MaxRows = 3
  MaxChars = 2
  MaxFormats = 3
  MaxFloats = 1
INVARIANTS LayersParallel FormatsCoverText AnchorsInRange
PROPERTY AlignedEditsImplementStyledText
CHECK_DEADLOCK FALSE
