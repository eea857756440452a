SPECIFICATION Spec
CHECK_DEADLOCK FALSE
CONSTANTS
  p1 = p1
  p2 = p2
  k1 = k1
  k2 = k2
  k3 = k3
  i1 = i1
  i2 = i2
  c1 = c1
  c2 = c2
  Null = Null
  Boot = Boot
  Project = {p1, p2}
  Default = p1
  Known = {p2}
  Operational = {p1}
  Change = {k1, k2, k3}
  Locked = {k3}
  Report = {i1, i2}
  Call = {c1, c2}
  MaxCalls = 4
  MaxFailures = 1
  MaxRestarts = 1
CONSTRAINT OneTrouble
ACTION_CONSTRAINT FirstAlone
INVARIANTS
  AnsweredIsDurable
  SessionAgrees
PROPERTY
  Ends
