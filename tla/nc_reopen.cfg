CONSTANTS
  c1 = c1 h1 = h1 x1 = x1 x2 = x2 d1 = d1
  None = None
  Handlers <- OneController
  Controllers <- OneController
  Replays <- OneReplay
  Defects = {d1}
  NumObs = 2
  DefectOf <- Repaired
  JudgedAs <- RepairedAs
  ReworkEnds = {2}
  Requests <- AnyRequest
  MaxNcrs = 2
  MaxVersions = 2
  MaxDecisions = 2
SPECIFICATION Spec
INVARIANTS
  CountedOnce
CHECK_DEADLOCK FALSE
