SPECIFICATION SequenceSpec
CONSTANTS
  Interjections = {}
  Requests = {q1, q2}
  MaxRuns = 2
  MaxSteps = 1
  MaxCalls = 0
  None = None
  ClientRequests = {q1, q2}
  Routes = {ra, rb}
  Outgrown = FALSE
  MaxHistoryRuns = 2
  MaxHistorySteps = 1
  MaxNotes = 1
  MaxFaults = 1
  MaxCrashes = 1
  MaxEdits = 1
SYMMETRY Symmetry
INVARIANT RunsTakeTurns
INVARIANT RequestsRunOnce
INVARIANT EpochIsWhole
INVARIANT MemoryIsDurable
INVARIANT AnswerIsTrue
PROPERTY WakeupsYieldToUser
CHECK_DEADLOCK FALSE
