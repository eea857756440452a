CONSTANTS
  Request = {q1, q2, q3}
  NoRequest = NoRequest
  Lifecycle = Lifecycle
  MaxLifecycle = 3
SPECIFICATION Spec
INVARIANT NoLostUpdate StateIsWinners SavedIsAnnounced
PROPERTY ImplementsRegister
CHECK_DEADLOCK FALSE
