SPECIFICATION Safe
CONSTANTS
  h1 = h1
  h2 = h2
  l1 = l1
  p1 = p1
  p2 = p2
  p3 = p3
  Boot = Boot
  NoConfig = NoConfig
  NoPid = NoPid
  Handlers <- OneHandler
  Loops <- OneLoop
  Pids <- TwoPids
  Modes <- KillOnly
  Requests <- StartStop
  MaxOps = 2
  MaxFaults = 0
  MaxDeaths = 1
  MaxRestarts = 0
INVARIANTS
  StopStaysStopped
CHECK_DEADLOCK FALSE
