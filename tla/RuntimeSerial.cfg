SPECIFICATION Safe
CONSTANTS
  h1 = h1
  h2 = h2
  l1 = l1
  p1 = p1
  p2 = p2
  p3 = p3
  Boot = Boot
  NoConfig = NoConfig
  NoPid = NoPid
  Handlers <- OneHandler
  Loops <- OneLoop
  Pids <- TwoPids
  Modes <- AllModes
  Requests <- AllRequests
  MaxOps = 3
  MaxFaults = 1
  MaxDeaths = 1
  MaxRestarts = 1
INVARIANTS
  StopsForGood
  NoOrphan
  
  DataPathAgrees
CONSTRAINT WhileSerial
CHECK_DEADLOCK FALSE
