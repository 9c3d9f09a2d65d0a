SPECIFICATION Safe
CONSTANTS
  h1 = h1
  h2 = h2
  l1 = l1
  p1 = p1
  p2 = p2
  p3 = p3
  Boot = Boot
  NoConfig = NoConfig
  NoPid = NoPid
  Handlers <- TwoHandlers
  Loops <- OneLoop
  Pids <- ThreePids
  Modes <- KillOnly
  Requests <- Racing
  MaxOps = 2
  MaxFaults = 1
  MaxDeaths = 1
  MaxRestarts = 1
INVARIANTS
  StopsForGood
PROPERTIES
  KillSwitchHasNoGap
SYMMETRY Symmetry
CONSTRAINT OneMishap
CHECK_DEADLOCK FALSE
