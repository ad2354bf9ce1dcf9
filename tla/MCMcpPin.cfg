SPECIFICATION Spec
CONSTANTS
  NULL = NULL
  p1 = p1
  p2 = p2
  Process = {p1, p2}
  Server = {"srv", "srv/"}
  Tool <- MCTool
  ToolsLists <- MCToolsLists
  Foreign = Foreign
  Absent = Absent
  Torn = Torn
  MaxCrashes = 1
INVARIANTS
  TypeOK
  AdmittedWasPinned
  OneListUnlessOverlap
PROPERTIES
  SettledPinIsFinal
  FirstUsePins
  ImplementsTofuPin
CHECK_DEADLOCK FALSE
