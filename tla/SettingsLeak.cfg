SPECIFICATION Spec
CONSTANTS
  d1 = d1
  d2 = d2
  b0 = b0
  b1 = b1
  m0 = m0
  m1 = m1
  none = none
  absent = absent
  Paths <- MCPaths
  Untitled = none
  Bands <- MCBands
  NoBands = b0
  Margins <- MCMargins
  DefaultMargins = m0
  Absent = absent
  Sidecars <- MCSidecars
  GraceDays = 1
PROPERTIES
  BandsNeverLeak
