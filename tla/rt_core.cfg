CONSTANTS
  r1 = r1 r2 = r2 i1 = i1 i2 = i2 p1 = p1 p2 = p2
  None = None
  Codes = {r1, r2}
  Seeded = {r1}
  Items = {i1, i2}
  RouteOf <- ItemRoute
  AskedOf <- ItemAsks
  Threads <- TwoThreads
  MaxRevisions = 3
SPECIFICATION Spec
SYMMETRY Symmetry
INVARIANTS
  TypeOK
  NumbersDense
  OneInOneOut
  DefaultPinIsFrozen
PROPERTIES
  SupersededStays
