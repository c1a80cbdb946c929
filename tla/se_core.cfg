CONSTANTS
  u1 = u1 c1 = c1 p1 = p1 p2 = p2
  None = None
  Users = {u1}
  Clients <- OneClient
  Threads <- TwoThreads
  LockAfter = 2
  MaxStrikes = 3
  MaxSessions = 2
  MaxTokens = 4
SPECIFICATION FairSpec
INVARIANTS
  OneLiveToken
  HolderIsLive
  LoggedOutIsClosed
  LockIsEarned
PROPERTIES
  Contract
  EveryRequestEnds
