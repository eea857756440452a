SPECIFICATION Spec
CHECK_DEADLOCK FALSE
CONSTANTS
  b1 = b1
  b2 = b2
  t1 = t1
  t2 = t2
  Browser = {b1, b2}
  Tab = {t1, t2}
  BrowserOf <- Apart
  Edit = {e1, e2, e3, e4, e5}
  LateAnswers = FALSE
  MaxEvents = 0
  MaxElsewhere = 0
  MaxFailures = 0
  MaxPages = 1
  MaxChoices = 0
SYMMETRY Alike
PROPERTIES
  StoredEditsStay
