SPECIFICATION PartsSpec
CONSTANTS
  h1 = h1
  h2 = h2
  l1 = l1
  l2 = l2
  l3 = l3
  p1 = p1
  p2 = p2
  Callers <- TwoHandlers
  Loops <- ThreeLoops
  Configs <- TwoConfigs
  NoConfig = NoConfig
  Loop = Loop
  NoPid = NoPid
  MaxStrangers = 1
  MaxFaults = 1
  MaxCrashes = 1
  Handlers <- OneHandler
  Pids <- TwoPids
  Goroutines <- TwoHandlers
  MaxDeletes = 3
INVARIANTS
  OneMonitor
  DesiredIsMonitored
  RunningIsNamed
  AtMostOne
  StrangersSpared
  FewDuplicates
PROPERTIES
  Heals
  BoundSuffices
  Restored
