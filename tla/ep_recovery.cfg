CONSTANTS
  p1 = p1 p2 = p2 t1 = t1 t2 = t2
  e1 = e1 e2 = e2 inv = inv
  s1 = s1 s2 = s2 i1 = i1
  v1 = v1 v2 = v2 n1 = n1 n2 = n2
  None = None
  Procs <- OneProc
  Threads <- NoThread
  HomeOf <- NoHome
  Events <- VoidEvents
  SourceOf <- VoidSource
  ItemOf <- VoidItem
  NumberOf <- VoidNumber
  Covers <- VoidCovers
  Requests <- VoidRequests
  Items = {i1}
  Sources = {s1, s2}
  HmacSources = {s2}
  MaxSeq = 3
  MaxCrashes = 2
SPECIFICATION FairSpec
INVARIANTS
  InvalidationReflected
PROPERTIES
  StoredIsSettled
