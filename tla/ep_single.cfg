CONSTANTS
  p1 = p1 p2 = p2 t1 = t1 t2 = t2
  e1 = e1 e2 = e2 inv = inv
  s1 = s1 s2 = s2 i1 = i1
  v1 = v1 v2 = v2 n1 = n1 n2 = n2
  None = None
  Procs <- OneProc
  Threads <- OneThread
  HomeOf <- Home
  Events <- TwinEvents
  SourceOf <- TwinSource
  ItemOf <- TwinItem
  NumberOf <- TwinNumber
  Covers <- TwinCovers
  Requests <- TwinRequests
  Items = {i1}
  Sources = {s1}
  HmacSources = {}
  MaxSeq = 2
  MaxCrashes = 1
SPECIFICATION Spec
INVARIANTS
  UnprojectedIsFlagged
  ProjectedIsTruthful
PROPERTIES
  StoredWhileAllowed
  ViewMonotone
  HighWaterHolds
