CONSTANTS
  r1 = r1
  r2 = r2
  Ids <- MCIds
  Requests <- MCRequests
  EnvServers <- MCEnvServers
  MaxRequests = 3
  MaxFailures = 1
  MaxBoots = 2
SYMMETRY Symmetry
SPECIFICATION Spec
INVARIANTS
  TypeOK
  QuietServersAgree
  RunsWhatIsStored
  NothingInherited
CHECK_DEADLOCK FALSE
