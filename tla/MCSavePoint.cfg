SPECIFICATION Spec
CONSTANTS
  MaxDepth = 3
  MaxVersions = 5
  Content = {"blank", "draft", "final"}
INVARIANTS TypeOK VersionsUnique HistoryBounded SavedVersionIsDisk
PROPERTIES LostSavePointStaysLost ImplementsTimeline
CHECK_DEADLOCK TRUE
