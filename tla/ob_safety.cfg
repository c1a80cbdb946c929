CONSTANTS
  w1 = w1 w2 = w2 o1 = o1 o2 = o2 m1 = m1 m2 = m2
  None = None
  Workers <- TwoWorkers
  Operators <- OneOperator
  Messages <- TwoMessages
  MaxAttempts = 2
  MaxRetries = 1
  MaxCrashes = 1
  MaxModes = 1
  MaxResets = 1
SPECIFICATION Spec
SYMMETRY Symmetry
INVARIANTS
  OneSender
  BookedOnce
  AttemptsBounded
PROPERTIES
  Contract
CHECK_DEADLOCK FALSE
