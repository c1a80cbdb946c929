CONSTANTS
  s1 = s1 s2 = s2 p1 = p1 p2 = p2
  None = None
  Streams = {s1, s2}
  Threads <- TwoThreads
  MaxEvents = 2
SPECIFICATION Spec
SYMMETRY Symmetry
INVARIANTS
  TypeOK
  NoFalseAlarm
  CheckpointOnChain
PROPERTIES
  AlarmIsRaised
  VerdictIsStored
