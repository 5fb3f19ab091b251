SPECIFICATION FairSpec
CONSTANTS
  i1 = i1
  i2 = i2
  q1 = q1
  q2 = q2
  Interjections = {i1, i2}
  Requests = {q1}
  MaxRuns = 1
  MaxSteps = 2
  MaxCalls = 2
INVARIANT PausedIsQuiet
INVARIANT MessagesAreAnswered
PROPERTY TerminalIsFinal
PROPERTY RunsEnd
CHECK_DEADLOCK FALSE
