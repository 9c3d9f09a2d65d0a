SPECIFICATION Spec
CONSTANTS
  h1 = h1
  h2 = h2
  l1 = l1
  p1 = p1
  p2 = p2
  p3 = p3
  Boot = Boot
  NoConfig = NoConfig
  NoPid = NoPid
  Handlers <- OneHandler
  Loops <- OneLoop
  Pids <- ThreePids
  Modes <- TproxyOnly
  Requests <- Reviving
  MaxOps = 1
  MaxFaults = 1
  MaxDeaths = 2
  MaxRestarts = 0
PROPERTIES
  SupervisorSpec
  SupervisorRestores
CHECK_DEADLOCK FALSE
