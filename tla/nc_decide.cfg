CONSTANTS
  c1 = c1 h1 = h1 x1 = x1 x2 = x2 d1 = d1
  None = None
  Handlers <- ControllerAndReviewer
  Controllers <- OneController
  Replays <- OneReplay
  Defects = {d1}
  NumObs = 2
  DefectOf <- Repaired
  JudgedAs <- SurelyAs
  ReworkEnds = {2}
  Requests <- AnyRequest
  MaxNcrs = 1
  MaxVersions = 1
  MaxDecisions = 3
SPECIFICATION Spec
PROPERTIES
  VerifiedBeforeExport
CHECK_DEADLOCK FALSE
