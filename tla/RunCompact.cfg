SPECIFICATION Spec
CONSTANTS
  i1 = i1
  i2 = i2
  q1 = q1
  q2 = q2
  Interjections = {i1}
  Requests = {q1}
  MaxRuns = 2
  MaxSteps = 1
  MaxCalls = 1
INVARIANT EveryMessageIsAnswered
CHECK_DEADLOCK FALSE
