SPECIFICATION FairSpec
CONSTANTS
  Sessions = {s1, s2}
  Terminals = {t1, t2}
  TerminalLimit = 1
  MaxCloses = 1
  Procs = {p1, p2}
  ProcLimit = 2
  ProcFaults = 2
  ProcStops = 1
  Callers = {a}
  Children = {x, y}
  LoneChild = x
  JobStops = {j1}
  JobFaults = 2
INVARIANT StoppedSessionsAreQuiet
INVARIANT RunsLeaveNoProcess
PROPERTY StoppedWorkEnds
CHECK_DEADLOCK FALSE
