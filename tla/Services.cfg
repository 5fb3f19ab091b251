SPECIFICATION ServicesSpec
CONSTANTS
  Providers = {k, l}
  Clients = {u, v}
  Fits = {{}, {"reasoning", "rating"}}
  MaxChanges = 2
  MaxMishaps = 1
  First = k
  Assets = {x, y}
  MaxInputs = 4
  Callers = {u, v}
  Children = {x, y}
  Stops = {j}
  Faults = 1
  Prints = {x, y}
  Calls = {u, v}
  MaxRecords = 3
  MaxProcs = 4
  MaxRequests = 3
  MaxRestarts = 1
SYMMETRY Symmetry
INVARIANT RootIsTrue
INVARIANT CallsShareTheJob
INVARIANT TrustIsRespected
INVARIANT SentAttachmentsExist
INVARIANT ShownAttachmentsAreKept
INVARIANT NoStrayFiles
INVARIANT CredentialsAreThere
INVARIANT ClearedSecretsAreGone
INVARIANT RoutesAreWhole
PROPERTY NoCallIsCut
CHECK_DEADLOCK FALSE
