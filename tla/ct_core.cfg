CONSTANTS
  u1 = u1 u2 = u2 u3 = u3 p1 = p1 p2 = p2 n1 = n1 i1 = i1 i2 = i2 lot = lot tool = tool shift = shift
  None = None
  Users <- ThreeUsers
  Threads <- TwoThreads
  Ncrs = {n1}
  Containments = {"NONE", "REVIEW_REQUIRED"}
  Items = {i1, i2}
  Factors = {lot, tool, shift}
  MatchesOf <- Matches
  MassThreshold = 2
  MaxProposals = 2
SPECIFICATION Spec
SYMMETRY Symmetry
INVARIANTS
  TypeOK
  EnoughApprovers
  ReviewerAnswered
PROPERTIES
  ApprovalStands
