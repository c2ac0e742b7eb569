SPECIFICATION Spec
CONSTANTS
  Plain = "plain"
  Typed = {"a"}
  Lead = "lead"
  Continuation = "cont"
  TabText <- OneByte
  Texts <- CodepointAndLines
  Queries <- OneAndTwo
  ListKinds = {TRUE}
  MaxListLevel = 2
  EditorRows = 2
  MaxRows = 2
  MaxBytes = 3
INVARIANTS TypeOK CutThenPasteRestores FindReachesEveryMatch
PROPERTIES PlacesStayInText EditsUseSelectionUp CodepointsStayWhole
CHECK_DEADLOCK FALSE
