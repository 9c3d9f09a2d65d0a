SPECIFICATION PartsSpec
CONSTANTS
  s1 = s1
  s2 = s2
  g1 = g1
  g2 = g2
  n1 = n1
  d1 = d1
  dr = dr
  rr = rr
  Manual = Manual
  None = None
  Subs <- TwoSubs
  RuleSets <- TwoSets
  Names <- OneName
  Servers <- OneServer
  DNSRules <- OneDNSRule
  RouteRules <- OneRouteRule
  SectionName <- Underscored
  Initial <- Files
  Requests <- SomeRequests
  MaxEdits = 3
  Written <- Texts
  Keys <- OneKey
  Values <- ShortValues
  MaxWrites = 2
  NoBlock = NoBlock
  Answers <- Lists
  Later <- Changed
  Formats <- AllFormats
INVARIANTS
  RoundTrip
  DialledAsProvided
PROPERTIES
  ImplementsEdits
CHECK_DEADLOCK FALSE
