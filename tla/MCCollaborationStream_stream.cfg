SPECIFICATION StreamSpec
CHECK_DEADLOCK FALSE
CONSTANTS
  p1 = p1
  p2 = p2
  s1 = s1
  Put <- MCPut
  Save <- MCSave
  PageSize = 1
  Types <- MCTypes
  Stride = 2
  MaxPurges = 1
  MaxFaults = 1
CONSTRAINT InOrder
INVARIANTS
  NoSilentGap
  ResetMeansGap
PROPERTIES
  NoLoadGoesBack
  CatchesUp
