SPECIFICATION SessionSpec
CONSTANTS
  Caller = {a1, a2}
  Document = {doc}
  Room = 1
  MaxCalls = 2
  MaxAsks = 0
CHECK_DEADLOCK FALSE
PROPERTIES ServerIsKilled
