SPECIFICATION BuildSpec
CONSTANTS
  Inherit = "inherit"
  Plain <- PlainFormat
  DocumentFormat <- Defaults
  Chars = {"x", "tab"}
  ControlChars = {"tab"}
  Formats <- SomeFormats
  Alignments = {"left", "center"}
  Levels = {0, 1, 2}
  Kinds = {TRUE, FALSE}
  Pastes = {}
  MaxRows = 4
  MaxChars = 2
  MaxFormats = 2
  MaxFloats = 2
  MaxMarks = 4
INVARIANTS RoundTripKeeps NumbersCountSiblings NumbersIncrease
CHECK_DEADLOCK FALSE
