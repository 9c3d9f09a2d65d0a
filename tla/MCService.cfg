SPECIFICATION ServiceSpec
CONSTANTS
  h1 = h1
  l1 = l1
  p1 = p1
  p2 = p2
  Boot = Boot
  Signal = Signal
  Sweeper = Sweeper
  Killed = TRUE
  NoConfig = NoConfig
  NoPid = NoPid
  Handlers <- MCHandlers
  Loops <- MCLoops
  Pids <- MCPids
  Modes <- MCModes
  Requests <- MCRequests
  MaxOps = 1
  MaxFaults = 1
  MaxDeaths = 0
  MaxRestarts = 1
INVARIANTS
  DownIsClean
PROPERTIES
  StopsEventually
CHECK_DEADLOCK FALSE
