SPECIFICATION DocumentSpec
CONSTANTS
  n1 = n1
  n2 = n2
  n3 = n3
  d1 = d1
  d2 = d2
  g1 = g1
  g2 = g2
  s1 = s1
  s2 = s2
  c1 = c1
  c2 = c2
  p1 = p1
  Nobody = Nobody
  None = None
  Nodes <- ThreeNodes
  Servers <- TwoServers
  RuleSets <- TwoSets
  Subs <- TwoSubs
  Tags <- SomeTags
  DNSRules = {"dns"}
  RouteRules = {"route"}
  Rank <- InOrder
  Samples <- Slices
  DirectNodes <- OneDirect
  Delays = {1, 2}
  Checks <- TwoChecks
  NodeIds <- TwoIds
  NodeTags <- ThreeTags
  Kinds <- FourKinds
  Ports <- OnePort
  Concurrency = 1
  MaxCrashes = 1
INVARIANTS
  Closed
  BootstrapsDirectly
  SelectionIsServed
  DirectIsLastResort
  RollUpIsRight
  HealthyGroupServes
  OkIsMeasured
  NoStranding
PROPERTIES
  EveryCheckEnds
CHECK_DEADLOCK FALSE
