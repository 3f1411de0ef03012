SPECIFICATION Spec
CONSTANTS
  None = None
  Run = {r1}
  ThisRun = r1
  Path = {p, q}
  Content = {absent, base, agent, user}
  Absent = absent
  BaseContent = base
  AgentContent = agent
  UserContent = user
  Commit = {c0}
  MaxEdits = 1
  MaxFaults = 1
CHECK_DEADLOCK FALSE
PROPERTY RefusedAcceptKeepsCheckout
