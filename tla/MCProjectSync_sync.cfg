SPECIFICATION FairSpec
CHECK_DEADLOCK FALSE
CONSTANTS
  b1 = b1
  b2 = b2
  t1 = t1
  t2 = t2
  Browser = {b1, b2}
  Tab = {t1, t2}
  BrowserOf <- Apart
  Edit = {e1, e2}
  LateAnswers = TRUE
  MaxEvents = 1
  MaxElsewhere = 1
  MaxFailures = 1
  MaxPages = 2
  MaxChoices = 1
CONSTRAINTS
  TwoTroubles
  InOrder
INVARIANTS
  BaseWasStored
  LocalWorkIsKept
  SyncedWasStored
PROPERTIES
  EditSettles
