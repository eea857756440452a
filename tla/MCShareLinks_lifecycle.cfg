SPECIFICATION Spec
CHECK_DEADLOCK FALSE
CONSTANTS
  l1 = l1
  l2 = l2
  r1 = r1
  r2 = r2
  sweep = sweep
  Link <- MCOneLink
  Request <- MCRequest
  Sweep = sweep
  MaxWrites = 1
  MaxFaults = 1
CONSTRAINTS InOrder OneTrouble
INVARIANTS
  LedgeredOnce
  StateIsLedgered
  RevokedIsClosed
PROPERTIES
  Settles
