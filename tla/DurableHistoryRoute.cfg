SPECIFICATION HistorySpec
CONSTANTS
  None = None
  ClientRequests = {q1, q2}
  Routes = {ra, rb}
  Outgrown = TRUE
  MaxHistoryRuns = 2
  MaxHistorySteps = 1
  MaxNotes = 0
  MaxFaults = 0
  MaxCrashes = 0
  MaxEdits = 1
INVARIANT EpochSurvivesFailure
CHECK_DEADLOCK FALSE
