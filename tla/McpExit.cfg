SPECIFICATION McpSpec
CONSTANTS
  Prints = {f1, f2}
  Calls = {c1, c2}
  MaxRecords = 2
  MaxProcs = 3
  MaxRequests = 3
  MaxRestarts = 1
INVARIANT ExitCleansUp
CHECK_DEADLOCK FALSE
