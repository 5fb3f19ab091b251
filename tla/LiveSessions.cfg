SPECIFICATION FairSpec
CONSTANTS
  s1 = s1
  s2 = s2
  p1 = p1
  Sessions = {s1, s2}
  Projects = {p1}
  ProjectOf <- OneProject
  Tokens = {1, 2, 3}
  MaxRev = 2
  MaxStarts = 1
  MaxChecks = 1
INVARIANT OwnershipHolds
INVARIANT RunIsProtected
INVARIANT LiveMatchesDurable
PROPERTY EvictionIsSafe
CHECK_DEADLOCK FALSE
PROPERTY ReservationsEnd
