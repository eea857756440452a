SPECIFICATION IncidentSpec
CHECK_DEADLOCK FALSE
CONSTANTS
  i1 = i1
  i2 = i2
  k1 = k1
  k2 = k2
  e1 = e1
  r1 = r1
  c1 = c1
  c2 = c2
  Incident = {i1, i2}
  Owner = {r1}
  NoOwner = nobody
  HasPlan = FALSE
  IncidentKey = {k1, k2}
  OtherKey = {e1}
  IncidentOf <- MCIncidentOf
  OpOf <- MCOpOf
  Call = {c1, c2}
  NoRegister = none
  MaxFailures = 1
  MaxAsked = 1
  MaxPages = 2
CONSTRAINT OneTrouble
SYMMETRY CallSymmetry
INVARIANTS
  NoEntryLost
  OnlineWasStored
PROPERTIES
  ImplementsLedger
