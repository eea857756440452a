CONSTANTS
  t1 = t1
  t2 = t2
  d1 = d1
  Task = {t1, t2}
  Deps <- Chain
  Device = {d1, d2}
  BatchLimit = 2
  MaxCommands <- TwoOfD1
  MaxBlocked <- One
  MaxSyncs <- TwoOfD1
  MaxReloads <- OneOfD1
SPECIFICATION Spec
CONSTRAINT AloneOrTogether
INVARIANT LedgerReplays AppliedIsDurable NothingLost
CHECK_DEADLOCK FALSE
