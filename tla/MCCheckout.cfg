SPECIFICATION MCSpec
CONSTANTS
  None = None
  Run = {r1}
  ThisRun = r1
  Path = {p, q}
  Content = {absent, base, agent, user}
  Absent = absent
  BaseContent = base
  AgentContent = agent
  UserContent = user
  Commit = {c0}
  MaxEdits = 2
  MaxFaults = 1
  Leader = leader
  Descendants = {d1, d2}
  Caller = {a1, a2}
  Document = {doc}
  Room = 1
  MaxCalls = 3
  MaxAsks = 1
CHECK_DEADLOCK FALSE
INVARIANTS CheckoutTypeOK PassedIsOver StoppedGroupIsGone
PROPERTIES  RefusedAcceptKeepsCleanPaths ReviewKeepsContract  CheckEnds DocumentsInStep CallsReturn
