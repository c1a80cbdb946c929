CONSTANTS
  w1 = w1 w2 = w2 o1 = o1 o2 = o2 m1 = m1 m2 = m2
  None = None
  Workers <- OneWorker
  Operators <- NoOperator
  Messages <- TwoMessages
  MaxAttempts = 2
  MaxRetries = 0
  MaxCrashes = 1
  MaxModes = 1
  MaxResets = 1
SPECIFICATION FairSpec
PROPERTIES
  EveryResultSettles
CHECK_DEADLOCK FALSE
