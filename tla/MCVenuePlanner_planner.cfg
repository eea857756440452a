SPECIFICATION Spec
CONSTANTS
  stage = stage
  table = table
  north = north
  south = south
  none = none
  absent = absent
  briefA = briefA
  briefB = briefB
  Object = {stage, table}
  Place = {north, south}
  Absent = absent
  None = none
  Brief = {briefA, briefB}
  Start <- MCStart
  Seeds <- MCSeeds
  Change <- SomeChanges
  Lockable <- MCLockable
  MaxVersion = 2
  MaxLedger = 4
  MaxBranches = 2
  MaxChanges = 2
  MaxEdits = 2
CONSTRAINT LongOrWide
INVARIANTS TypeOK LedgerReplays HistoryAscends ActiveIsCurrent
PROPERTY LocksHold
