SPECIFICATION Spec
CHECK_DEADLOCK FALSE
CONSTANTS
  Run = {1, 2, 3}
  Input = {"import-i", "export-x", "webhook-a", "webhook-b"}
  Capability <- MCCapability
  EventOf <- MCEventOf
  Output = {o1, o2}
  NoOutput = none
  Requests = 1
  Window = 2
  MaxAttempts = 2
  InitialDelay = 1
  MaximumDelay = 2
  Multiplier = 2
  RetryAfter = {3}
  MaxTime = 0
  MaxErrors = 2
CONSTRAINTS InTurn TwoTroubles
INVARIANTS
  OneOutput
  EventsAgree
  RateHeldAlone
PROPERTIES
  Ends
