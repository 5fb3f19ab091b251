SPECIFICATION FairSpec
CONSTANTS
  s1 = s1
  s2 = s2
  p1 = p1
  p2 = p2
  None = None
  Sessions = {s1, s2}
  Projects = {p1, p2}
  Persisted = {s1}
  Opened = {p1, p2}
  ProjectOf <- TwoProjects
  MaxSeq = 2
  MaxFaults = 1
  MaxUser = 1
  MaxLoads = 2
  MaxReplies = 1
  PageSize = 1
  BufferCap = 1
PROPERTY NeverLeftBehind
INVARIANT ViewIsSound
PROPERTY ResyncCompletes
CHECK_DEADLOCK FALSE
