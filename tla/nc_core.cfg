CONSTANTS
  c1 = c1 h1 = h1 x1 = x1 x2 = x2 d1 = d1
  None = None
  Handlers <- ControllerAndReviewer
  Controllers <- OneController
  Replays <- TwoReplays
  Defects = {d1}
  NumObs = 3
  DefectOf <- Repeated
  JudgedAs <- RepeatedAs
  ReworkEnds = {2}
  Requests <- OrderAndRelease
  MaxNcrs = 2
  MaxVersions = 3
  MaxDecisions = 1
SPECIFICATION Spec
SYMMETRY Symmetry
INVARIANTS
  TypeOK
  OneOpenPerDefect
  VersionIsLatest
  AnalysisIsCurrent
CHECK_DEADLOCK FALSE
