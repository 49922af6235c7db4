SPECIFICATION RoutesSpec
CONSTANTS
  Fold <- MCFold
  Editor = {e1, e2}
  DataPlane = {d1}
  Table <- MCTable
  Request <- MCRequest
  DefaultGroup = "default"
  NoTable = NoTable
  Absent = Absent
  Empty = Empty
  Torn = Torn
  ChanCap = 1
  FailuresPossible = TRUE
  Backends = {"file", "postgres"}
  MaxEdits = 2
  MaxCrashes = 1
  MaxBreaks = 1
INVARIANT CurrentOnConnect
CHECK_DEADLOCK FALSE
