SPECIFICATION RefreshSpec
CONSTANTS
  h1 = h1
  s1 = s1
  s2 = s2
  g1 = g1
  n1 = n1
  d1 = d1
  dr = dr
  rr = rr
  Manual = Manual
  None = None
  Updater = Updater
  RuleUpdater = RuleUpdater
  Prober = Prober
  Subs <- TwoSubs
  RuleSets <- OneRuleSet
  Names <- OneName
  Servers <- OneServer
  DNSRules <- OneDNSRule
  RouteRules <- OneRouteRule
  Handlers <- OneHandler
  Initial <- Files
  Edits <- Requests
  Provided <- Answers
  Budgets <- Bounds
  Reachable <- Up
INVARIANTS
  DeletesAccepted
  NoOrphanNodes
PROPERTIES
  NoLostUpdate
  NobodyStarves
CHECK_DEADLOCK FALSE
