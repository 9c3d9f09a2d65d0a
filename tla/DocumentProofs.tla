--------------------------- MODULE DocumentProofs ---------------------------
(***************************************************************************)
(* Proofs about what is made of a configuration (internal/render and       *)
(* internal/health): about Render and Health, for every configuration that *)
(* is valid, and about Probe, for every set of nodes, checks and ports.    *)
(*                                                                         *)
(* In Render every property is one of the document alone, so the invariant *)
(* only says which configuration the document is of.  In Health it says    *)
(* that what is reported was rolled up from the results of the nodes, by   *)
(* a loop that is followed round by round.  In Probe it follows one check, *)
(* through the steps of all the others, from the list of what it can test  *)
(* to the outbounds, and from those to the results.                        *)
(***************************************************************************)
EXTENDS Health, Probe, FiniteSetTheorems, TLAPS

(* The loop of a roll-up.                                                  *)
Loop == INSTANCE Iteration WITH Round <- Count

-----------------------------------------------------------------------------
(* Render: the document is the one of the configuration.                   *)

(* f are the files there were when the document was made; those that came  *)
(* after were downloaded.                                                  *)
MadeFrom(f) ==
  /\ doc = Document(cfg, f)
  /\ \A g \in files \ f : cfg.sets[g].url

(* The document is the one of the saved configuration, and was not refused.*)
Made ==
  /\ cfg \in Configs /\ Valid(cfg)
  /\ files \in SUBSET RuleSets
  /\ doc # None => ~Clash(cfg) /\ \E f \in SUBSET files : MadeFrom(f)

(* Every state keeps to that.                                              *)
LEMMA AlwaysMade == Spec => []Made
<1>1. Init => Made
  BY RenderConstants DEF Init, Made
<1>2. Made /\ [Next]_vars => Made'
  <2> SUFFICES ASSUME Made, [Next]_vars PROVE Made'
    OBVIOUS
  <2>1. CASE Generate
    <3>1. cfg' = cfg /\ files' = files
      BY <2>1 DEF Generate
    <3>2. CASE Clash(cfg)
      BY <2>1, <3>1, <3>2 DEF Generate, Made, MadeFrom
    <3>3. CASE ~Clash(cfg)
      <4>1. MadeFrom(files)'
        BY <2>1, <3>1, <3>3 DEF Generate, MadeFrom
      <4> QED
        BY <4>1, <3>1, <3>3 DEF Made
    <3> QED
      BY <3>2, <3>3
  <2>2. ASSUME NEW g \in RuleSets, Download(g) PROVE Made'
    <3>1. cfg' = cfg /\ doc' = doc /\ files' \in SUBSET RuleSets
      BY <2>2 DEF Download, Made
    <3>2. ASSUME NEW f \in SUBSET files, MadeFrom(f)
          PROVE  f \in SUBSET files' /\ MadeFrom(f)'
      BY <2>2, <3>2 DEF Download, MadeFrom
    <3> QED
      BY <3>1, <3>2 DEF Made
  <2>3. CASE UNCHANGED vars
    BY <2>3 DEF vars, Made, MadeFrom
  <2> QED
    BY <2>1, <2>2, <2>3 DEF Next
<1> QED
  BY <1>1, <1>2, PTL DEF Spec

-----------------------------------------------------------------------------
(* The first of a set of ids is one of them.                               *)
LEMMA FirstIsIn ==
  ASSUME NEW S \in SUBSET Ids, S # {}
  PROVE  First(S) \in S
BY IdsAreOrdered DEF First

(* The offered outbounds are those of nodes, or direct.                    *)
LEMMA ProxyOf ==
  ASSUME NEW c \in Configs
  PROVE  /\ Proxy(c).of \subseteq {TagOf(c, n) : n \in ProxyNodes(c)} \cup {"direct"}
         /\ Proxy(c).default \in Proxy(c).of \cup {None}
<1> DEFINE ns == ProxyNodes(c)
           defined == {TagOf(c, n) : n \in ns}
<1>1. ns \in SUBSET Ids
  BY DEF ProxyNodes, ActiveNode, StrategyNodes, GroupNodes, Ids
<1>2. SelectedTag(c, ns) \in defined \cup {"direct"}
  BY <1>1, FirstIsIn DEF SelectedTag
<1>3. CASE ~c.group
  BY <1>3 DEF Proxy, FallbackSelector, Selector
<1>4. CASE c.group /\ c.strategy = "urltest"
  BY <1>4 DEF Proxy, RenderURLTest, FallbackSelector, Selector
<1>5. CASE c.group /\ c.strategy # "urltest"
  <2>1. Proxy(c) = Selector(defined, SelectedTag(c, ns))
    BY <1>5 DEF Proxy
  <2> QED
    BY <2>1, <1>2 DEF Selector
<1> QED
  BY <1>3, <1>4, <1>5 DEF Configs

(* The servers of the document: the enabled ones, and the synthetic one if *)
(* none of them is direct.                                                 *)
LEMMA DNSServers ==
  ASSUME NEW c \in Configs, EnabledServers(c) # {}
  PROVE  /\ \A s \in RenderDNS(c).servers :
              \/ s.tag \in EnabledServers(c) /\ s.detour = c.servers[s.tag].detour
              \/ s.tag = Synthetic /\ s.detour = "" /\ DirectServers(c) = {}
         /\ \A e \in EnabledServers(c) : \E s \in RenderDNS(c).servers : s.tag = e
         /\ DirectServers(c) = {} => \E s \in RenderDNS(c).servers : s.tag = Synthetic
<1> DEFINE entry(e) == [tag |-> e, detour |-> c.servers[e].detour]
           real == {entry(e) : e \in EnabledServers(c)}
           synthetic == {t \in [tag : {Synthetic}, detour : {""}] : DirectServers(c) = {}}
<1>1. RenderDNS(c).servers = real \cup synthetic
  BY DEF RenderDNS
<1>2. \A e : entry(e).tag = e /\ entry(e).detour = c.servers[e].detour
  OBVIOUS
<1>3. \A t \in synthetic : t.tag = Synthetic /\ t.detour = "" /\ DirectServers(c) = {}
  OBVIOUS
<1>4. DirectServers(c) = {} => \E t \in synthetic : t.tag = Synthetic
  <2>1. [tag |-> Synthetic, detour |-> ""] \in [tag : {Synthetic}, detour : {""}]
    OBVIOUS
  <2> QED
    BY <2>1
<1> HIDE DEF entry, synthetic
<1>5. \A s \in real : \E e \in EnabledServers(c) : s = entry(e)
  OBVIOUS
<1>6. \A e \in EnabledServers(c) : entry(e) \in real
  OBVIOUS
<1> HIDE DEF real
<1>7. \A s \in RenderDNS(c).servers :
        \/ s.tag \in EnabledServers(c) /\ s.detour = c.servers[s.tag].detour
        \/ s.tag = Synthetic /\ s.detour = "" /\ DirectServers(c) = {}
  <2> TAKE s \in RenderDNS(c).servers
  <2>1. CASE s \in real
    <3>1. PICK e \in EnabledServers(c) : s = entry(e)
      BY <1>5, <2>1
    <3>2. s.tag = e /\ s.detour = c.servers[e].detour
      BY <3>1, <1>2
    <3> QED
      BY <3>2
  <2>2. CASE s \in synthetic
    BY <1>3, <2>2
  <2> QED
    BY <1>1, <2>1, <2>2
<1>8. \A e \in EnabledServers(c) : \E s \in RenderDNS(c).servers : s.tag = e
  BY <1>1, <1>2, <1>6
<1>9. DirectServers(c) = {} => \E s \in RenderDNS(c).servers : s.tag = Synthetic
  BY <1>1, <1>4
<1> QED
  BY <1>7, <1>8, <1>9

(* The bootstrap resolver is one of the servers of the document, and none  *)
(* that is reached through the proxy.                                      *)
LEMMA Bootstrap ==
  ASSUME NEW c \in Configs, EnabledServers(c) # {}
  PROVE  /\ \E s \in RenderDNS(c).servers : s.tag = BootstrapResolverTag(c)
         /\ \A s \in RenderDNS(c).servers :
              s.tag = BootstrapResolverTag(c) => s.detour \in {"", "direct"}
<1> DEFINE b == BootstrapResolverTag(c)
<1>1. PlainServers(c) \in SUBSET Ids /\ DirectServers(c) \in SUBSET Ids
  BY DEF PlainServers, DirectServers, EnabledServers, Ids
<1>2. CASE DirectServers(c) = {}
  <2>1. b = Synthetic
    BY <1>2 DEF BootstrapResolverTag, PlainServers
  <2>2. b \notin EnabledServers(c)
    BY <2>1, RenderConstants DEF EnabledServers
  <2> QED
    BY <1>2, <2>1, <2>2, DNSServers
<1>3. CASE DirectServers(c) # {}
  <2>1. b \in DirectServers(c)
    BY <1>1, <1>3, FirstIsIn DEF BootstrapResolverTag, PlainServers
  <2>2. b \in EnabledServers(c) /\ c.servers[b].detour # "proxy"
    BY <2>1 DEF DirectServers
  <2>3. c.servers[b].detour \in {"", "direct"}
    BY <2>2 DEF EnabledServers, Configs, ServerBodies
  <2> HIDE DEF b
  <2>4. /\ \E s \in RenderDNS(c).servers : s.tag = b
        /\ \A s \in RenderDNS(c).servers : s.tag = b => s.detour \in {"", "direct"}
    BY <1>3, <2>2, <2>3, DNSServers
  <2> QED
    BY <2>4 DEF b
<1> QED
  BY <1>2, <1>3

-----------------------------------------------------------------------------
(* References.                                                             *)

LEMMA OutboundsAreClosed ==
  ASSUME NEW c \in Configs, NEW f
  PROVE  OutboundsClosed(Document(c, f))
<1> DEFINE d == Document(c, f)
<1>1. {TagOf(c, n) : n \in ProxyNodes(c)} \cup Reserved \subseteq OutboundTags(d)
  <2>1. d.outbounds = Outbounds(c)
    BY DEF Document
  <2>2. \A t \in Builtin : \E o \in Outbounds(c) : o.tag = t
    <3>1. \A t \in Builtin : [tag |-> t, node |-> None] \in Outbounds(c)
      BY DEF Outbounds
    <3> QED
      BY <3>1
  <2>3. \A n \in ProxyNodes(c) : \E o \in Outbounds(c) : o.tag = TagOf(c, n)
    <3>1. \A n \in ProxyNodes(c) : [tag |-> TagOf(c, n), node |-> n] \in Outbounds(c)
      BY DEF Outbounds
    <3> QED
      BY <3>1
  <2>4. \A o \in Outbounds(c) : o.tag \in OutboundTags(d)
    BY <2>1 DEF OutboundTags
  <2>5. "proxy" \in OutboundTags(d)
    BY DEF OutboundTags
  <2> QED
    BY <2>2, <2>3, <2>4, <2>5 DEF Reserved
<1>2. d.proxy.of \subseteq OutboundTags(d) /\ d.proxy.default \in d.proxy.of \cup {None}
  BY <1>1, ProxyOf DEF Document, Reserved, Builtin
<1>3. d.final \in OutboundTags(d)
  BY <1>1 DEF Document, RouteFinal, Configs, Reserved, Builtin
<1>4. \A r \in d.routes : r.outbound \in OutboundTags(d)
  <2>1. \A q \in UsedRoutes(c) : c.routes[q].outbound \in Reserved
    BY DEF UsedRoutes, Configs, RouteBodies
  <2>2. \A r \in RenderRoutes(c) : \E q \in UsedRoutes(c) : r.outbound = c.routes[q].outbound
    BY DEF RenderRoutes
  <2>3. d.routes = RenderRoutes(c)
    BY DEF Document
  <2> QED
    BY <1>1, <2>1, <2>2, <2>3
<1>5. d.captured \subseteq d.inbounds
  BY DEF Document, RenderInbounds
<1> QED
  BY <1>2, <1>3, <1>4, <1>5 DEF OutboundsClosed

LEMMA ServersAreClosed ==
  ASSUME NEW c \in Configs, NEW f
  PROVE  ServersClosed(Document(c, f))
<1> DEFINE d == Document(c, f)
           defined == {s.tag : s \in d.dns.servers}
<1> SUFFICES ASSUME d.dns # None
             PROVE  /\ {d.resolver, d.dns.final} \cup {r.server : r \in d.dns.rules} \subseteq defined
                    /\ \A s \in d.dns.servers : s.detour = "" \/ s.detour \in OutboundTags(d)
  BY DEF ServersClosed
<1>1. d.dns = RenderDNS(c) /\ d.resolver = BootstrapResolverTag(c) /\ d.outbounds = Outbounds(c)
  BY DEF Document
<1>2. EnabledServers(c) # {}
  BY <1>1 DEF RenderDNS
<1>3. /\ \A e \in EnabledServers(c) : e \in defined
      /\ d.dns.final = DefaultResolver(c)
      /\ d.dns.rules = RenderDNSRules(c)
  <2>1. \A e \in EnabledServers(c) : e \in defined
    BY <1>1, <1>2, DNSServers
  <2>2. RenderDNS(c).final = DefaultResolver(c) /\ RenderDNS(c).rules = RenderDNSRules(c)
    BY <1>2 DEF RenderDNS
  <2> QED
    BY <1>1, <2>1, <2>2
<1>4. d.resolver \in defined
  BY <1>1, <1>2, Bootstrap
<1>5. d.dns.final \in defined
  <2>1. First(EnabledServers(c)) \in EnabledServers(c)
    BY <1>2, FirstIsIn DEF EnabledServers, Ids
  <2> QED
    BY <1>3, <2>1 DEF DefaultResolver
<1>6. \A r \in d.dns.rules : r.server \in defined
  <2>1. \A r \in RenderDNSRules(c) : r.server \in EnabledServers(c)
    BY DEF RenderDNSRules
  <2> QED
    BY <1>3, <2>1
<1>7. \A s \in d.dns.servers : s.detour = "" \/ s.detour \in OutboundTags(d)
  <2>1. \A e \in EnabledServers(c) : c.servers[e].detour \in {"", "direct", "proxy"}
    BY DEF EnabledServers, Configs, ServerBodies
  <2>2. \A s \in RenderDNS(c).servers : s.detour \in {"", "direct", "proxy"}
    BY <1>2, <2>1, DNSServers
  <2>3. [tag |-> "direct", node |-> None] \in d.outbounds
    BY <1>1 DEF Outbounds, Builtin
  <2>4. "direct" \in OutboundTags(d)
    BY <2>3 DEF OutboundTags
  <2> QED
    BY <1>1, <2>2, <2>4 DEF OutboundTags
<1> QED
  BY <1>4, <1>5, <1>6, <1>7

(* A rule set that is used has a definition if it can be had.              *)
LEMMA RuleSetDefined ==
  ASSUME NEW c \in Configs, Valid(c), NEW f \in SUBSET RuleSets,
         NEW g \in RuleSets, c.sets[g] # None, c.sets[g].on,
         c.sets[g].remote => c.sets[g].url \/ g \in f
  PROVE  \E t \in RenderRuleSet(c.sets[g], g, f) : t.tag = g
<1> DEFINE b == c.sets[g]
<1>1. b \in SetBodies /\ ValidSet(b)
  BY DEF Configs, Valid
<1>2. [tag |-> g, detour |-> "none"] \in [tag : {g}, detour : {"none"}]
  OBVIOUS
<1>3. [tag |-> g, detour |-> "proxy"] \in [tag : {g}, detour : {"proxy"}]
  OBVIOUS
<1>4. CASE (b.path /\ g \in f) \/ ~b.remote
  BY <1>1, <1>2, <1>4 DEF RenderRuleSet, ValidSet
<1>5. CASE ~((b.path /\ g \in f) \/ ~b.remote)
  BY <1>1, <1>3, <1>5 DEF RenderRuleSet, ValidSet
<1> QED
  BY <1>4, <1>5

(* What the rules of a document match is among the used rule sets.         *)
LEMMA RulesUseRuleSets ==
  ASSUME NEW c \in Configs, NEW f, NEW r,
         \/ r \in Document(c, f).routes
         \/ Document(c, f).dns # None /\ r \in Document(c, f).dns.rules
  PROVE  r.sets \subseteq UsedRuleSets(c)
<1>1. CASE r \in Document(c, f).routes
  <2>1. r \in RenderRoutes(c)
    BY <1>1 DEF Document
  <2>2. PICK q \in UsedRoutes(c) : r.sets = EnabledRuleSets(c, c.routes[q].sets)
    BY <2>1 DEF RenderRoutes
  <2>3. c.routes[q].sets \subseteq RuleSets
    BY DEF UsedRoutes, Configs, RouteBodies
  <2> QED
    BY <2>2, <2>3 DEF UsedRuleSets, EnabledRuleSets
<1>2. CASE Document(c, f).dns # None /\ r \in Document(c, f).dns.rules
  <2>1. Document(c, f).dns = RenderDNS(c)
    BY DEF Document
  <2>2. EnabledServers(c) # {}
    BY <1>2, <2>1 DEF RenderDNS
  <2>3. RenderDNS(c).rules = RenderDNSRules(c)
    BY <2>2 DEF RenderDNS
  <2>4. PICK q \in DNSRules : c.dns[q] # None /\ r.sets = EnabledRuleSets(c, c.dns[q].sets)
    BY <1>2, <2>1, <2>3 DEF RenderDNSRules
  <2>5. c.dns[q].sets \subseteq RuleSets
    BY <2>4 DEF Configs, DNSBodies
  <2> QED
    BY <2>4, <2>5 DEF UsedRuleSets, EnabledRuleSets
<1> QED
  BY <1>1, <1>2

(* Rule sets that are used exist and are enabled.                          *)
LEMMA UsedAreEnabled ==
  ASSUME NEW c \in Configs, NEW g \in UsedRuleSets(c)
  PROVE  g \in RuleSets /\ c.sets[g] # None /\ c.sets[g].on
BY DEF UsedRuleSets, EnabledRuleSets

LEMMA RuleSetsAreClosed ==
  ASSUME Made, doc # None, Obtainable(cfg)
  PROVE  RuleSetsClosed(doc)
<1>1. PICK f \in SUBSET files : MadeFrom(f)
  BY DEF Made
<1>2. f \in SUBSET RuleSets /\ cfg \in Configs /\ Valid(cfg)
  BY DEF Made
<1>3. doc.sets = RenderRuleSets(cfg, f)
  BY <1>1 DEF MadeFrom, Document
<1>4. ASSUME NEW g \in UsedRuleSets(cfg) PROVE g \in {t.tag : t \in doc.sets}
  <2>1. g \in RuleSets /\ cfg.sets[g] # None /\ cfg.sets[g].on
    BY <1>2, UsedAreEnabled
  <2>2. cfg.sets[g].remote => cfg.sets[g].url \/ g \in f
    BY <1>1, <2>1 DEF Obtainable, MadeFrom
  <2>3. PICK t \in RenderRuleSet(cfg.sets[g], g, f) : t.tag = g
    BY <1>2, <2>1, <2>2, RuleSetDefined
  <2>4. t \in doc.sets
    BY <1>3, <2>3 DEF RenderRuleSets
  <2> QED
    BY <2>3, <2>4
<1>5. ASSUME NEW r \in doc.routes \cup (IF doc.dns = None THEN {} ELSE doc.dns.rules)
      PROVE  r.sets \subseteq UsedRuleSets(cfg)
  BY <1>1, <1>2, RulesUseRuleSets DEF MadeFrom
<1> QED
  BY <1>4, <1>5 DEF RuleSetsClosed

-----------------------------------------------------------------------------
(* The generated document never refers to a tag it does not define.        *)
THEOREM DocumentClosed == Spec => []Closed
<1>1. Made => Closed
  <2> SUFFICES ASSUME Made, doc # None
               PROVE  /\ OutboundsClosed(doc) /\ ServersClosed(doc)
                      /\ Obtainable(cfg) => RuleSetsClosed(doc)
    BY DEF Closed
  <2>1. PICK f \in SUBSET files : doc = Document(cfg, f)
    BY DEF Made, MadeFrom
  <2>2. OutboundsClosed(doc) /\ ServersClosed(doc)
    BY <2>1, OutboundsAreClosed, ServersAreClosed DEF Made
  <2> QED
    BY <2>2, RuleSetsAreClosed
<1> QED
  BY <1>1, AlwaysMade, PTL

(* The bootstrap resolver never goes through the proxy.                    *)
THEOREM NoResolverLoop == Spec => []BootstrapsDirectly
<1>1. Made => BootstrapsDirectly
  <2> SUFFICES ASSUME Made, doc # None, doc.dns # None, NEW s \in doc.dns.servers,
                      s.tag = doc.resolver
               PROVE  s.detour \in {"", "direct"}
    BY DEF BootstrapsDirectly
  <2>1. doc.dns = RenderDNS(cfg) /\ doc.resolver = BootstrapResolverTag(cfg)
    BY DEF Made, MadeFrom, Document
  <2>2. EnabledServers(cfg) # {}
    BY <2>1 DEF RenderDNS
  <2> QED
    BY <2>1, <2>2, Bootstrap DEF Made
<1> QED
  BY <1>1, AlwaysMade, PTL

(* The proxy leads to the selected node.                                   *)
THEOREM SelectionServed == Spec => []SelectionIsServed
<1>1. Made => SelectionIsServed
  <2> DEFINE n == cfg.selected
  <2> SUFFICES ASSUME Made, doc # None, cfg.group, cfg.strategy # "urltest", n # None,
                      n \in GroupNodes(cfg), cfg.nodes[n].renders
               PROVE  /\ doc.proxy.default = TagOf(cfg, n)
                      /\ [tag |-> TagOf(cfg, n), node |-> n] \in doc.outbounds
    BY DEF SelectionIsServed
  <2>1. doc.proxy = Proxy(cfg) /\ doc.outbounds = Outbounds(cfg)
    BY DEF Made, MadeFrom, Document
  <2>2. n \in ProxyNodes(cfg)
    BY DEF ProxyNodes, ActiveNode, StrategyNodes, GroupNodes
  <2>3. SelectedTag(cfg, ProxyNodes(cfg)) = TagOf(cfg, n)
    BY <2>2 DEF SelectedTag
  <2>4. Proxy(cfg).default = SelectedTag(cfg, ProxyNodes(cfg))
    BY DEF Proxy, Selector
  <2>5. [tag |-> TagOf(cfg, n), node |-> n] \in Outbounds(cfg)
    BY <2>2 DEF Outbounds
  <2> QED
    BY <2>1, <2>3, <2>4, <2>5
<1> QED
  BY <1>1, AlwaysMade, PTL

(* Under an automatic strategy the proxy falls back to direct only when it *)
(* has no node to offer: a node's tag is never that of a built-in one      *)
(* (renderStrategyNodes, renderSelector, renderURLTest).                   *)
THEOREM DirectOnlyWithoutNodes == Spec => []DirectIsLastResort
<1>1. Made => DirectIsLastResort
  <2> SUFFICES ASSUME Made, doc # None, cfg.group, cfg.strategy # "manual",
                      doc.proxy.default = "direct"
               PROVE  StrategyNodes(cfg) = {}
    <3>1. ASSUME StrategyNodes(cfg) = {},
                 NEW n \in Nodes, On(cfg, n), cfg.nodes[n].renders
          PROVE  cfg.nodes[n].from \notin cfg.members \cup {None} /\ cfg.members # {}
      BY <3>1 DEF StrategyNodes, GroupNodes
    <3> QED BY <3>1 DEF DirectIsLastResort
  <2> DEFINE ns == StrategyNodes(cfg)
             defined == {TagOf(cfg, n) : n \in ns}
  <2>1. doc.proxy = Proxy(cfg) /\ ProxyNodes(cfg) = ns
    BY DEF Made, MadeFrom, Document, ProxyNodes
  <2>2. \A n \in ns : TagOf(cfg, n) \notin Reserved
    BY DEF Made, Clash
  <2>3. ASSUME ns # {}, cfg.strategy = "urltest"
        PROVE  FALSE
    <3>1. defined # {}
      BY <2>3
    <3>2. Proxy(cfg) = RenderURLTest(defined)
      BY <2>1, <2>3 DEF Proxy
    <3>3. doc.proxy.default = None
      BY <2>1, <3>1, <3>2 DEF RenderURLTest
    <3> QED BY <3>3, RenderConstants DEF Reserved, Builtin
  <2>4. ASSUME ns # {}, cfg.strategy # "urltest"
        PROVE  FALSE
    <3>1. Proxy(cfg).default = SelectedTag(cfg, ns)
      BY <2>1, <2>4 DEF Proxy, Selector
    <3>2. First(ns) \in ns
      BY <2>4, FirstIsIn DEF StrategyNodes, GroupNodes, Ids
    <3>3. \E n \in ns : SelectedTag(cfg, ns) = TagOf(cfg, n)
      BY <2>4, <3>2 DEF SelectedTag
    <3> QED BY <2>1, <2>2, <3>1, <3>3 DEF Reserved, Builtin
  <2> QED BY <2>3, <2>4
<1> QED
  BY <1>1, AlwaysMade, PTL

-----------------------------------------------------------------------------
(* Probe: what a check knows of its nodes on the way.                      *)

(* The nodes that one bad node must not strand.                            *)
Good == {n \in NodeIds : nodes[n].kind = "alive" /\ Distinct(n)}

(* The outbounds are those of valid nodes, each under its tag or its id,   *)
(* no two under the same; a node is looked at once.                        *)
OutboundsApart(c) ==
  /\ Tagged(c) \cup todo[c] \subseteq ValidNodes
  /\ Tagged(c) \cap todo[c] = {}
  /\ \A n \in Tagged(c) : tags[c][n] \in {nodes[n].tag, n}
  /\ \A m, n \in Tagged(c) : tags[c][m] = tags[c][n] => m = n

(* Nothing has an outbound before the configuration is built, and nothing  *)
(* is tested before the instance has answered.                             *)
InTurn(c) ==
  /\ step[c] \in {"idle", "prepare", "precheck"} => Tagged(c) = {}
  /\ \A n \in NodeIds : job[c][n] # "none" => n \in Tagged(c) /\ step[c] \in {"test", "done"}

(* What is reported ok went through its own outbound.                      *)
Measured(c) ==
  \A n \in NodeIds : results[c][n] = "ok" => via[c][n] = n /\ nodes[n].kind = "alive"

(* As long as nothing fails for it or around the check, no good node is    *)
(* lost.                                                                   *)
GoodKept(c) ==
  \A n \in Good \ upset[c] :
    /\ instance[c] # "dead"
    /\ step[c] = "build" => n \in Tagged(c) \cup todo[c]
    /\ step[c] = "await" => n \in Tagged(c)
    /\ step[c] = "test" => job[c][n] \in {"queued", "running"} \/ results[c][n] = "ok"
    /\ step[c] = "done" => results[c][n] = "ok"

CheckKept(c) == OutboundsApart(c) /\ InTurn(c) /\ Measured(c) /\ GoodKept(c)

(* Marking keeps the type of the results.                                  *)
LEMMA MarkType ==
  ASSUME ProbeTypeOK, NEW c \in Checks, NEW S, NEW health \in Results, Mark(c, S, health)
  PROVE  results' \in [Checks -> [NodeIds -> Results]]
<1> DEFINE r == [n \in NodeIds |-> IF n \in S THEN health ELSE results[c][n]]
<1>1. results[c] \in [NodeIds -> Results] /\ results \in [Checks -> [NodeIds -> Results]]
  BY DEF ProbeTypeOK
<1>2. r \in [NodeIds -> Results]
  BY <1>1
<1>3. results' = [results EXCEPT ![c] = r]
  BY DEF Mark
<1> HIDE DEF r
<1> QED BY <1>1, <1>2, <1>3

(* The types of Probe.                                                     *)
THEOREM ProbeTypeCorrect == ProbeSpec => []ProbeTypeOK
<1>1. ProbeInit => ProbeTypeOK
  BY ProbeConstants DEF ProbeInit, ProbeTypeOK, Results
<1>2. ProbeTypeOK /\ [ProbeNext]_probeVars => ProbeTypeOK'
  <2> SUFFICES ASSUME ProbeTypeOK, [ProbeNext]_probeVars
               PROVE  ProbeTypeOK'
    OBVIOUS
  <2> USE DEF ProbeTypeOK, Results
  <2>1. ASSUME NEW c \in Checks, Begin(c) PROVE ProbeTypeOK'
    BY <2>1 DEF Begin, Goto
  <2>2. ASSUME NEW c \in Checks, Prepare(c) PROVE ProbeTypeOK'
    <3>1. CASE Mark(c, Enabled, "error") /\ Upset(c, NodeIds) /\ Goto(c, "done") /\ UNCHANGED port
      <4>1. results' \in [Checks -> [NodeIds -> Results]]
        BY <3>1, MarkType
      <4> QED BY <2>2, <3>1, <4>1 DEF Prepare, Goto, Upset
    <3>2. CASE \E p \in Ports : /\ port' = [port EXCEPT ![c] = p]
                                /\ Goto(c, "precheck") /\ UNCHANGED <<results, upset>>
      BY <2>2, <3>2 DEF Prepare, Goto
    <3> QED BY <2>2, <3>1, <3>2 DEF Prepare
  <2>3. ASSUME NEW c \in Checks, Precheck(c) PROVE ProbeTypeOK'
    <3>1. PICK valid \in SUBSET ValidNodes :
            /\ Mark(c, Enabled \ valid, "error")
            /\ Goto(c, IF valid = {} THEN "done" ELSE "build")
            /\ todo' = [todo EXCEPT ![c] = valid]
            /\ Upset(c, ValidNodes \ valid)
      BY <2>3 DEF Precheck
    <3>2. results' \in [Checks -> [NodeIds -> Results]]
      BY <3>1, MarkType
    <3>3. ValidNodes \subseteq NodeIds
      BY DEF ValidNodes, Enabled
    <3>4. UNCHANGED <<nodes, tags, job, port, holder, instance, via, crashes>>
      BY <2>3 DEF Precheck
    <3>5. step' \in [Checks -> {"idle", "prepare", "precheck", "build", "await", "test", "done"}]
      BY <3>1 DEF Goto
    <3>6. todo' \in [Checks -> SUBSET NodeIds] /\ upset' \in [Checks -> SUBSET NodeIds]
      BY <3>1, <3>3 DEF Upset
    <3> QED BY <3>2, <3>4, <3>5, <3>6
  <2>4. ASSUME NEW c \in Checks, NEW n \in NodeIds, BuildNode(c, n) PROVE ProbeTypeOK'
    <3>1. OutboundTag(c, n) \in AllTags \cup {Nobody}
      BY DEF OutboundTag, AllTags
    <3>2. results' \in [Checks -> [NodeIds -> Results]]
      BY <2>4, MarkType DEF BuildNode
    <3> DEFINE row == [tags[c] EXCEPT ![n] = OutboundTag(c, n)]
    <3>3. row \in [NodeIds -> AllTags \cup {Nobody}]
      BY <3>1
    <3>4. tags' = [tags EXCEPT ![c] = row]
      BY <2>4 DEF BuildNode
    <3>5. tags' \in [Checks -> [NodeIds -> AllTags \cup {Nobody}]]
      BY <3>3, <3>4
    <3> QED BY <2>4, <3>2, <3>5 DEF BuildNode
  <2>5. ASSUME NEW c \in Checks, Launch(c) PROVE ProbeTypeOK'
    <3>1. results' \in [Checks -> [NodeIds -> Results]]
      BY <2>5, MarkType DEF Launch
    <3>2. upset' = upset \/ upset' = [upset EXCEPT ![c] = @ \cup NodeIds]
      BY <2>5 DEF Launch, Upset
    <3>3. upset' \in [Checks -> SUBSET NodeIds]
      <4>1. upset[c] \cup NodeIds \in SUBSET NodeIds
        OBVIOUS
      <4>2. [upset EXCEPT ![c] = @ \cup NodeIds] \in [Checks -> SUBSET NodeIds]
        BY <4>1
      <4> QED BY <3>2, <4>2
    <3>4. /\ step' \in [Checks -> {"idle", "prepare", "precheck", "build", "await", "test", "done"}]
          /\ instance' \in [Checks -> {"none", "starting", "up", "dead"}]
      BY <2>5 DEF Launch, Goto
    <3>5. UNCHANGED <<nodes, todo, tags, job, port, holder, via, crashes>>
      BY <2>5 DEF Launch
    <3> QED BY <3>1, <3>3, <3>4, <3>5
  <2>6. ASSUME NEW c \in Checks, Ready(c) PROVE ProbeTypeOK'
    BY <2>6 DEF Ready, Goto
  <2>7. ASSUME NEW c \in Checks, NotReady(c) PROVE ProbeTypeOK'
    <3>1. results' \in [Checks -> [NodeIds -> Results]]
      BY <2>7, MarkType DEF NotReady
    <3>2. upset' \in [Checks -> SUBSET NodeIds]
      BY <2>7 DEF NotReady, Upset
    <3> QED BY <2>7, <3>1, <3>2 DEF NotReady, Goto, End
  <2>8. ASSUME NEW c \in Checks, NEW n \in NodeIds, Acquire(c, n) PROVE ProbeTypeOK'
    BY <2>8 DEF Acquire
  <2>9. ASSUME NEW c \in Checks, NEW n \in NodeIds, Measure(c, n) PROVE ProbeTypeOK'
    <3>1. Behind(c, n) \in NodeIds \cup {Nobody}
      BY DEF Behind
    <3>2. /\ job' \in [Checks -> [NodeIds -> {"none", "queued", "running", "over"}]]
          /\ UNCHANGED <<nodes, step, todo, tags, port, holder, instance, crashes>>
      BY <2>9 DEF Measure
    <3>3. CASE /\ results' = [results EXCEPT ![c][n] = "ok"]
               /\ via' = [via EXCEPT ![c][n] = Behind(c, n)] /\ upset' = upset
      BY <3>1, <3>2, <3>3
    <3>4. CASE /\ results' = [results EXCEPT ![c][n] = "down"]
               /\ Upset(c, {m \in {n} : nodes[m].kind = "alive"})
               /\ via' = via
      BY <3>2, <3>4 DEF Upset
    <3> QED BY <2>9, <3>3, <3>4 DEF Measure
  <2>10. ASSUME NEW c \in Checks, Collect(c) PROVE ProbeTypeOK'
    BY <2>10 DEF Collect, End, Goto
  <2>11. ASSUME NEW c \in Checks, Bind(c) PROVE ProbeTypeOK'
    <3>1. CASE /\ holder' = [holder EXCEPT ![port[c]] = c]
               /\ instance' = [instance EXCEPT ![c] = "up"] /\ upset' = upset
      BY <2>11, <3>1 DEF Bind
    <3>2. CASE /\ instance' = [instance EXCEPT ![c] = "dead"] /\ holder' = holder
               /\ Upset(c, IF Acceptable(c) THEN NodeIds ELSE {})
      <4>1. upset' \in [Checks -> SUBSET NodeIds]
        BY <3>2 DEF Upset
      <4>2. UNCHANGED <<nodes, step, todo, tags, job, results, port, via, crashes>>
        BY <2>11 DEF Bind
      <4> QED BY <3>2, <4>1, <4>2
    <3> QED BY <2>11, <3>1, <3>2 DEF Bind
  <2>12. ASSUME NEW c \in Checks, Die(c) PROVE ProbeTypeOK'
    BY <2>12 DEF Die, Upset
  <2>13. CASE Crash
    BY <2>13, ProbeConstants DEF Crash
  <2>14. CASE UNCHANGED probeVars
    BY <2>14 DEF probeVars
  <2> QED
    BY <2>1, <2>2, <2>3, <2>4, <2>5, <2>6, <2>7, <2>8, <2>9, <2>10, <2>11, <2>12, <2>13, <2>14
       DEF ProbeNext, Work
<1> QED BY <1>1, <1>2, PTL DEF ProbeSpec

(* A check looks at nothing but its own entries and the configured nodes.  *)
SameCheck(c) ==
  /\ nodes' = nodes /\ step'[c] = step[c] /\ todo'[c] = todo[c] /\ tags'[c] = tags[c]
  /\ job'[c] = job[c] /\ results'[c] = results[c] /\ via'[c] = via[c]
  /\ upset'[c] = upset[c] /\ instance'[c] = instance[c]

LEMMA SameCheckKept ==
  ASSUME NEW c \in Checks, CheckKept(c), SameCheck(c)
  PROVE  CheckKept(c)'
<1>1. Tagged(c)' = Tagged(c) /\ ValidNodes' = ValidNodes /\ Good' = Good
  BY DEF SameCheck, Tagged, ValidNodes, Enabled, Good, Distinct, Free
<1>2. OutboundsApart(c)'
  BY <1>1 DEF CheckKept, SameCheck, OutboundsApart
<1>3. InTurn(c)'
  BY <1>1 DEF CheckKept, SameCheck, InTurn
<1>4. Measured(c)'
  BY DEF CheckKept, SameCheck, Measured
<1>5. GoodKept(c)'
  BY <1>1 DEF CheckKept, SameCheck, GoodKept
<1> QED BY <1>2, <1>3, <1>4, <1>5 DEF CheckKept

LEMMA OtherChecksSame ==
  ASSUME ProbeTypeOK, NEW c \in Checks, NEW d \in Checks \ {c},
         Begin(c) \/ Work(c) \/ Bind(c) \/ Die(c)
  PROVE  SameCheck(d)
<1> USE DEF SameCheck, ProbeTypeOK
<1>1. CASE Begin(c)
  BY <1>1 DEF Begin, Goto
<1>2. CASE Prepare(c)
  BY <1>2 DEF Prepare, Goto, Mark, Upset
<1>3. CASE Precheck(c)
  BY <1>3 DEF Precheck, Goto, Mark, Upset
<1>4. CASE Launch(c)
  BY <1>4 DEF Launch, Goto, Mark, Upset
<1>5. CASE Ready(c)
  BY <1>5 DEF Ready, Goto
<1>6. CASE NotReady(c)
  BY <1>6 DEF NotReady, Goto, Mark, End, Upset
<1>7. CASE Collect(c)
  BY <1>7 DEF Collect, End, Goto
<1>8. ASSUME NEW n \in NodeIds, BuildNode(c, n) PROVE SameCheck(d)
  BY <1>8 DEF BuildNode, Mark
<1>9. ASSUME NEW n \in NodeIds, Acquire(c, n) PROVE SameCheck(d)
  BY <1>9 DEF Acquire
<1>10. ASSUME NEW n \in NodeIds, Measure(c, n) PROVE SameCheck(d)
  BY <1>10 DEF Measure, Upset
<1>11. CASE Bind(c)
  BY <1>11 DEF Bind, Upset
<1>12. CASE Die(c)
  BY <1>12 DEF Die, Upset
<1> QED
  BY <1>1, <1>2, <1>3, <1>4, <1>5, <1>6, <1>7, <1>8, <1>9, <1>10, <1>11, <1>12 DEF Work

(* A good node is enabled and valid.                                       *)
LEMMA GoodIsValid ==
  /\ Good \subseteq ValidNodes /\ ValidNodes \subseteq Enabled
  /\ Enabled \subseteq NodeIds
BY DEF Good, ValidNodes, Enabled

LEMMA TaggedIsNode == ASSUME NEW c PROVE Tagged(c) \subseteq NodeIds
BY DEF Tagged

(* While the tags, the list of what is to be looked at and the nodes stay, *)
(* the outbounds do.                                                       *)
LEMMA OutboundsStay ==
  ASSUME NEW c \in Checks, OutboundsApart(c),
         nodes' = nodes /\ todo'[c] = todo[c] /\ tags'[c] = tags[c]
  PROVE  /\ OutboundsApart(c)'
         /\ Tagged(c)' = Tagged(c) /\ ValidNodes' = ValidNodes /\ Good' = Good
         /\ Enabled' = Enabled
<1>1. Tagged(c)' = Tagged(c) /\ ValidNodes' = ValidNodes /\ Good' = Good /\ Enabled' = Enabled
  BY DEF Tagged, ValidNodes, Enabled, Good, Distinct, Free
<1> QED BY <1>1 DEF OutboundsApart

(* Marking nodes with anything but "ok" reports nothing that was not       *)
(* measured.                                                               *)
LEMMA MarkIsMeasured ==
  ASSUME ProbeTypeOK, NEW c \in Checks, Measured(c),
         NEW S, NEW health \in {"error", "none", "disabled"},
         Mark(c, S, health), nodes' = nodes, via' = via
  PROVE  Measured(c)'
BY DEF ProbeTypeOK, Mark, Measured

(* Before the instance is there: no node is ok yet, and the good ones are  *)
(* on the list of what is to be built.                                     *)
LEMMA BeginKept ==
  ASSUME ProbeTypeOK, NEW c \in Checks, CheckKept(c), Begin(c)
  PROVE  CheckKept(c)'
<1> USE DEF CheckKept
<1>1. /\ step[c] = "idle" /\ step'[c] = IF Enabled = {} THEN "done" ELSE "prepare"
      /\ UNCHANGED <<nodes, todo, tags, job, via, upset, instance>>
      /\ results'[c] = [n \in NodeIds |-> IF n \in Enabled THEN "none" ELSE "disabled"]
  BY DEF Begin, Goto, ProbeTypeOK
<1>2. /\ OutboundsApart(c)' /\ Tagged(c)' = Tagged(c) /\ Good' = Good
  BY <1>1, OutboundsStay
<1>3. InTurn(c)'
  BY <1>1, <1>2 DEF InTurn
<1>4. Measured(c)'
  BY <1>1 DEF Measured
<1>5. GoodKept(c)'
  BY <1>1, <1>2, GoodIsValid DEF GoodKept
<1> QED BY <1>2, <1>3, <1>4, <1>5

LEMMA PrepareKept ==
  ASSUME ProbeTypeOK, NEW c \in Checks, CheckKept(c), Prepare(c)
  PROVE  CheckKept(c)'
<1> USE DEF CheckKept
<1>1. step[c] = "prepare" /\ UNCHANGED <<nodes, todo, tags, job, via, instance>>
  BY DEF Prepare
<1>2. \/ step'[c] = "precheck" /\ results' = results /\ upset' = upset
      \/ step'[c] = "done" /\ Mark(c, Enabled, "error") /\ NodeIds \subseteq upset'[c]
  BY DEF Prepare, Goto, Upset, ProbeTypeOK
<1>3. /\ OutboundsApart(c)' /\ Tagged(c)' = Tagged(c) /\ Good' = Good
  BY <1>1, OutboundsStay
<1>4. InTurn(c)'
  BY <1>1, <1>2, <1>3 DEF InTurn
<1>5. Measured(c)'
  BY <1>1, <1>2, MarkIsMeasured DEF Measured
<1>6. GoodKept(c)'
  BY <1>1, <1>2, <1>3, GoodIsValid DEF GoodKept
<1> QED BY <1>3, <1>4, <1>5, <1>6

LEMMA PrecheckKept ==
  ASSUME ProbeTypeOK, NEW c \in Checks, CheckKept(c), Precheck(c)
  PROVE  CheckKept(c)'
<1> USE DEF CheckKept
<1>0. PICK valid \in SUBSET ValidNodes :
        /\ Mark(c, Enabled \ valid, "error")
        /\ Goto(c, IF valid = {} THEN "done" ELSE "build")
        /\ todo' = [todo EXCEPT ![c] = valid]
        /\ Upset(c, ValidNodes \ valid)
  BY DEF Precheck
<1>1. /\ step[c] = "precheck" /\ step'[c] = IF valid = {} THEN "done" ELSE "build"
      /\ todo'[c] = valid /\ Mark(c, Enabled \ valid, "error")
      /\ upset'[c] = upset[c] \cup (ValidNodes \ valid)
      /\ UNCHANGED <<nodes, tags, job, via, instance>>
  BY <1>0 DEF Precheck, Goto, Upset, ProbeTypeOK
<1>2. Tagged(c) = {}
  BY <1>1 DEF InTurn
<1>3. Tagged(c)' = {} /\ ValidNodes' = ValidNodes /\ Good' = Good
  BY <1>1, <1>2 DEF Tagged, ValidNodes, Enabled, Good, Distinct, Free
<1>4. OutboundsApart(c)'
  BY <1>1, <1>3 DEF OutboundsApart
<1>5. InTurn(c)'
  BY <1>1, <1>2, <1>3 DEF InTurn
<1>6. Measured(c)'
  BY <1>1, MarkIsMeasured
<1>7. GoodKept(c)'
  BY <1>1, <1>3, GoodIsValid DEF GoodKept
<1> QED BY <1>4, <1>5, <1>6, <1>7

(* A good node gets an outbound: under its tag or its id, whichever tells  *)
(* it from the others.                                                     *)
LEMMA GoodGetsOutbound ==
  ASSUME ProbeTypeOK, NEW c \in Checks, OutboundsApart(c), NEW n \in Good, n \in todo[c]
  PROVE  OutboundTag(c, n) # Nobody
<1>1. n \in NodeIds /\ Distinct(n)
  BY DEF Good
<1>2. n \notin Tagged(c) /\ nodes[n].tag \in AllTags /\ n \in AllTags
  BY <1>1 DEF OutboundsApart, ProbeTypeOK, AllTags
<1>3. nodes[n].tag # Nobody /\ n # Nobody
  BY <1>2, ProbeConstants
<1>4. \A m \in Tagged(c) : m \in NodeIds \ {n} /\ tags[c][m] \in {nodes[m].tag, m}
  BY <1>2 DEF OutboundsApart, Tagged
<1>5. CASE Free(nodes[n].tag, n)
  <2>1. nodes[n].tag \notin Seen(c)
    BY <1>4, <1>5 DEF Free, Seen
  <2> QED BY <1>3, <2>1 DEF OutboundTag
<1>6. CASE n \notin BuiltinTags /\ \A m \in NodeIds \ {n} : nodes[m].tag # n
  <2>1. n \notin Seen(c)
    BY <1>4, <1>6 DEF Seen
  <2> QED BY <1>3, <2>1 DEF OutboundTag
<1> QED BY <1>1, <1>5, <1>6 DEF Distinct

(* A new outbound has a tag that no other one has.                         *)
LEMMA BuildNodeKept ==
  ASSUME ProbeTypeOK, NEW c \in Checks, NEW n \in NodeIds, CheckKept(c), BuildNode(c, n)
  PROVE  CheckKept(c)'
<1> USE DEF CheckKept
<1> DEFINE t == OutboundTag(c, n)
<1>1. /\ step[c] = "build" /\ n \in todo[c] /\ todo'[c] = todo[c] \ {n}
      /\ tags'[c][n] = t /\ \A m \in NodeIds \ {n} : tags'[c][m] = tags[c][m]
      /\ IF t = Nobody THEN Mark(c, {n}, "error") ELSE results' = results
      /\ UNCHANGED <<nodes, step, job, via, upset, instance>>
  BY DEF BuildNode, ProbeTypeOK
<1>2. n \notin Tagged(c) /\ n \in ValidNodes
  BY <1>1 DEF OutboundsApart
<1>3. t # Nobody => t \notin Seen(c) /\ t \in {nodes[n].tag, n}
  BY DEF OutboundTag
<1> HIDE DEF t
<1>4. /\ Tagged(c)' = Tagged(c) \cup {m \in {n} : t # Nobody}
      /\ ValidNodes' = ValidNodes /\ Good' = Good
  BY <1>1, <1>2 DEF Tagged, ValidNodes, Enabled, Good, Distinct, Free
<1>5. \A m \in Tagged(c) : tags'[c][m] = tags[c][m] /\ tags[c][m] \in Seen(c) /\ m # n
  BY <1>1, <1>2 DEF Tagged, Seen
<1>6. OutboundsApart(c)'
  <2>1. (Tagged(c) \cup todo[c] \subseteq ValidNodes)' /\ (Tagged(c) \cap todo[c] = {})'
    BY <1>1, <1>2, <1>4 DEF OutboundsApart
  <2>2. (\A m \in Tagged(c) : tags[c][m] \in {nodes[m].tag, m})'
    BY <1>1, <1>3, <1>4, <1>5 DEF OutboundsApart
  <2>3. (\A m, l \in Tagged(c) : tags[c][m] = tags[c][l] => m = l)'
    BY <1>1, <1>3, <1>4, <1>5 DEF OutboundsApart
  <2> QED BY <2>1, <2>2, <2>3 DEF OutboundsApart
<1>7. InTurn(c)'
  BY <1>1, <1>4 DEF InTurn
<1>8. Measured(c)'
  BY <1>1, MarkIsMeasured DEF Measured
<1>9. GoodKept(c)'
  <2>1. n \in Good => t # Nobody
    BY <1>1, GoodGetsOutbound DEF t
  <2> QED BY <1>1, <1>4, <2>1 DEF GoodKept
<1> QED BY <1>6, <1>7, <1>8, <1>9

LEMMA LaunchKept ==
  ASSUME ProbeTypeOK, NEW c \in Checks, CheckKept(c), Launch(c)
  PROVE  CheckKept(c)'
<1> USE DEF CheckKept
<1>1. /\ step[c] = "build" /\ todo[c] = {}
      /\ UNCHANGED <<nodes, todo, tags, job, via>>
  BY DEF Launch
<1>2. \/ /\ Tagged(c) = {} /\ step'[c] = "done" /\ UNCHANGED <<results, instance, upset>>
      \/ /\ step'[c] = "await" /\ instance'[c] = "starting" /\ UNCHANGED <<results, upset>>
      \/ /\ step'[c] = "done" /\ Mark(c, Tagged(c), "error") /\ NodeIds \subseteq upset'[c]
         /\ instance' = instance
  BY DEF Launch, Goto, Upset, ProbeTypeOK
<1>3. /\ OutboundsApart(c)' /\ Tagged(c)' = Tagged(c) /\ Good' = Good
  BY <1>1, OutboundsStay
<1>4. InTurn(c)'
  BY <1>1, <1>2, <1>3 DEF InTurn
<1>5. Measured(c)'
  BY <1>1, <1>2, MarkIsMeasured DEF Measured
<1>6. GoodKept(c)'
  BY <1>1, <1>2, <1>3, GoodIsValid DEF GoodKept
<1> QED BY <1>3, <1>4, <1>5, <1>6

LEMMA ReadyKept ==
  ASSUME ProbeTypeOK, NEW c \in Checks, CheckKept(c), Ready(c)
  PROVE  CheckKept(c)'
<1> USE DEF CheckKept
<1>1. /\ step[c] = "await" /\ step'[c] = "test"
      /\ job'[c] = [n \in NodeIds |-> IF n \in Tagged(c) THEN "queued" ELSE "none"]
      /\ UNCHANGED <<nodes, todo, tags, results, via, upset, instance>>
  BY DEF Ready, Goto, ProbeTypeOK
<1>2. /\ OutboundsApart(c)' /\ Tagged(c)' = Tagged(c) /\ Good' = Good
  BY <1>1, OutboundsStay
<1>3. InTurn(c)'
  BY <1>1, <1>2 DEF InTurn
<1>4. Measured(c)'
  BY <1>1 DEF Measured
<1>5. GoodKept(c)'
  BY <1>1, <1>2, TaggedIsNode DEF GoodKept
<1> QED BY <1>2, <1>3, <1>4, <1>5

LEMMA NotReadyKept ==
  ASSUME ProbeTypeOK, NEW c \in Checks, CheckKept(c), NotReady(c)
  PROVE  CheckKept(c)'
<1> USE DEF CheckKept
<1>1. /\ step[c] = "await" /\ step'[c] = "done" /\ instance'[c] = "none"
      /\ Mark(c, Tagged(c), "error")
      /\ UNCHANGED <<nodes, todo, tags, job, via>>
  BY DEF NotReady, End, Goto, ProbeTypeOK
<1>2. upset'[c] = upset[c] \cup IF instance[c] # "dead" THEN NodeIds ELSE {}
  BY DEF NotReady, Upset, ProbeTypeOK
<1>3. /\ OutboundsApart(c)' /\ Tagged(c)' = Tagged(c) /\ Good' = Good
  BY <1>1, OutboundsStay
<1>4. InTurn(c)'
  BY <1>1, <1>3 DEF InTurn
<1>5. Measured(c)'
  BY <1>1, MarkIsMeasured
<1>6. Good \subseteq upset'[c]
  BY <1>2 DEF Good, GoodKept
<1>7. GoodKept(c)'
  BY <1>3, <1>6 DEF GoodKept
<1> QED BY <1>3, <1>4, <1>5, <1>7

(* A test goes through the outbound of its own node: only the instance of  *)
(* the check accepts its secret, and there the tag has one node.           *)
LEMMA BehindIsOwn ==
  ASSUME NEW c \in Checks, CheckKept(c), NEW n \in Tagged(c), Answers(c)
  PROVE  Behind(c, n) = n
<1> DEFINE behind == {m \in NodeIds : tags[c][m] = tags[c][n]}
<1>1. \A m \in behind : m \in Tagged(c)
  BY DEF Tagged
<1>2. behind = {n}
  BY <1>1, TaggedIsNode DEF CheckKept, OutboundsApart
<1>3. Behind(c, n) = IF behind = {} THEN Nobody ELSE CHOOSE m \in behind : TRUE
  BY DEF Behind, Answers
<1> QED BY <1>2, <1>3

LEMMA AcquireKept ==
  ASSUME ProbeTypeOK, NEW c \in Checks, NEW n \in NodeIds, CheckKept(c), Acquire(c, n)
  PROVE  CheckKept(c)'
<1> USE DEF CheckKept
<1>1. /\ step[c] = "test" /\ job[c][n] = "queued" /\ job'[c][n] = "running"
      /\ \A m \in NodeIds \ {n} : job'[c][m] = job[c][m]
      /\ UNCHANGED <<nodes, step, todo, tags, results, via, upset, instance>>
  BY DEF Acquire, ProbeTypeOK
<1>2. /\ OutboundsApart(c)' /\ Tagged(c)' = Tagged(c) /\ Good' = Good
  BY <1>1, OutboundsStay
<1>3. InTurn(c)'
  BY <1>1, <1>2 DEF InTurn
<1>4. Measured(c)'
  BY <1>1 DEF Measured
<1>5. GoodKept(c)'
  BY <1>1, <1>2, GoodIsValid DEF GoodKept
<1> QED BY <1>2, <1>3, <1>4, <1>5

LEMMA MeasureKept ==
  ASSUME ProbeTypeOK, NEW c \in Checks, NEW n \in NodeIds, CheckKept(c), Measure(c, n)
  PROVE  CheckKept(c)'
<1> USE DEF CheckKept
<1>1. /\ step[c] = "test" /\ job[c][n] = "running" /\ job'[c][n] = "over"
      /\ \A m \in NodeIds \ {n} : job'[c][m] = job[c][m] /\ results'[c][m] = results[c][m]
                                  /\ via'[c][m] = via[c][m]
      /\ UNCHANGED <<nodes, step, todo, tags, instance>>
  BY DEF Measure, ProbeTypeOK
<1>2. /\ OutboundsApart(c)' /\ Tagged(c)' = Tagged(c) /\ Good' = Good
  BY <1>1, OutboundsStay
<1>3. n \in Tagged(c)
  BY <1>1 DEF InTurn
<1>4. \/ /\ Answers(c) /\ nodes[Behind(c, n)].kind = "alive"
         /\ results'[c][n] = "ok" /\ via'[c][n] = Behind(c, n) /\ upset' = upset
      \/ /\ results'[c][n] = "down" /\ upset'[c] = upset[c] \cup {m \in {n} : nodes[m].kind = "alive"}
  <2>1. CASE /\ Answers(c) /\ nodes[Behind(c, n)].kind = "alive"
             /\ results' = [results EXCEPT ![c][n] = "ok"]
             /\ via' = [via EXCEPT ![c][n] = Behind(c, n)] /\ upset' = upset
    BY <2>1 DEF ProbeTypeOK
  <2>2. CASE /\ results' = [results EXCEPT ![c][n] = "down"]
             /\ Upset(c, {m \in {n} : nodes[m].kind = "alive"})
    BY <2>2 DEF ProbeTypeOK, Upset
  <2> QED BY <2>1, <2>2 DEF Measure
<1>5. InTurn(c)'
  BY <1>1, <1>2, <1>3 DEF InTurn
<1>6. Measured(c)'
  <2>1. results'[c][n] = "ok" => via'[c][n] = n /\ nodes[n].kind = "alive"
    BY <1>3, <1>4, BehindIsOwn
  <2> QED BY <1>1, <2>1 DEF Measured
<1>7. GoodKept(c)'
  <2>1. n \in Good \ upset'[c] => results'[c][n] = "ok"
    BY <1>4 DEF Good
  <2>2. upset[c] \subseteq upset'[c]
    BY <1>4
  <2> QED BY <1>1, <1>2, <2>1, <2>2, GoodIsValid DEF GoodKept
<1> QED BY <1>2, <1>5, <1>6, <1>7

LEMMA CollectKept ==
  ASSUME ProbeTypeOK, NEW c \in Checks, CheckKept(c), Collect(c)
  PROVE  CheckKept(c)'
<1> USE DEF CheckKept
<1>1. /\ step[c] = "test" /\ step'[c] = "done" /\ instance'[c] = "none"
      /\ \A n \in NodeIds : job[c][n] \in {"none", "over"}
      /\ UNCHANGED <<nodes, todo, tags, job, results, via, upset>>
  BY DEF Collect, End, Goto, ProbeTypeOK
<1>2. /\ OutboundsApart(c)' /\ Tagged(c)' = Tagged(c) /\ Good' = Good
  BY <1>1, OutboundsStay
<1>3. InTurn(c)'
  BY <1>1, <1>2 DEF InTurn
<1>4. Measured(c)'
  BY <1>1 DEF Measured
<1>5. GoodKept(c)'
  BY <1>1, <1>2, GoodIsValid DEF GoodKept
<1> QED BY <1>2, <1>3, <1>4, <1>5

(* sing-box accepts what was built, so it exits only when the port is      *)
(* taken, or later: either way something around the check failed.          *)
LEMMA BindKept ==
  ASSUME ProbeTypeOK, NEW c \in Checks, CheckKept(c), Bind(c) \/ Die(c)
  PROVE  CheckKept(c)'
<1> USE DEF CheckKept
<1>1. UNCHANGED <<nodes, step, todo, tags, job, results, via>>
  BY DEF Bind, Die
<1>2. Acceptable(c)
  BY DEF OutboundsApart, Acceptable, ValidNodes
<1>3. \/ instance'[c] = "up" /\ upset' = upset
      \/ instance'[c] = "dead" /\ NodeIds \subseteq upset'[c]
  <2>1. CASE Die(c)
    BY <2>1 DEF Die, Upset, ProbeTypeOK
  <2>2. CASE instance' = [instance EXCEPT ![c] = "up"] /\ upset' = upset
    BY <2>2 DEF ProbeTypeOK
  <2>3. CASE /\ instance' = [instance EXCEPT ![c] = "dead"]
             /\ Upset(c, IF Acceptable(c) THEN NodeIds ELSE {})
    BY <1>2, <2>3 DEF ProbeTypeOK, Upset
  <2> QED BY <2>1, <2>2, <2>3 DEF Bind
<1>4. /\ OutboundsApart(c)' /\ Tagged(c)' = Tagged(c) /\ Good' = Good
  BY <1>1, OutboundsStay
<1>5. InTurn(c)'
  BY <1>1, <1>4 DEF InTurn
<1>6. Measured(c)'
  BY <1>1 DEF Measured
<1>7. GoodKept(c)'
  <2>1. Good \subseteq NodeIds
    BY DEF Good
  <2> QED BY <1>1, <1>3, <1>4, <2>1 DEF GoodKept
<1> QED BY <1>4, <1>5, <1>6, <1>7

LEMMA CheckKeptFresh ==
  ASSUME NEW c \in Checks, step[c] = "idle", todo[c] = {},
         \A n \in NodeIds : /\ tags[c][n] = Nobody /\ job[c][n] = "none"
                            /\ results[c][n] = "none",
         instance[c] = "none"
  PROVE  CheckKept(c)
<1>1. Tagged(c) = {}
  BY DEF Tagged
<1> QED BY <1>1 DEF CheckKept, OutboundsApart, InTurn, Measured, GoodKept

(* The invariant of every check holds of every behaviour.                  *)
LEMMA ChecksKept == ProbeSpec => [](ProbeTypeOK /\ \A c \in Checks : CheckKept(c))
<1> DEFINE Kept == \A c \in Checks : CheckKept(c)
<1>1. ProbeInit => Kept
  BY CheckKeptFresh DEF ProbeInit
<1>2. ProbeTypeOK /\ Kept /\ [ProbeNext]_probeVars => Kept'
  <2> SUFFICES ASSUME ProbeTypeOK, Kept, [ProbeNext]_probeVars, NEW d \in Checks
               PROVE  CheckKept(d)'
    OBVIOUS
  <2>1. CheckKept(d)
    OBVIOUS
  <2> HIDE DEF Kept
  <2>2. ASSUME NEW c \in Checks, Begin(c) \/ Work(c) \/ Bind(c) \/ Die(c)
        PROVE  CheckKept(d)'
    <3>1. CASE c # d
      BY <2>1, <2>2, <3>1, OtherChecksSame, SameCheckKept
    <3>2. CASE c = d
      BY <2>1, <2>2, <3>2, BeginKept, PrepareKept, PrecheckKept, BuildNodeKept, LaunchKept,
         ReadyKept, NotReadyKept, AcquireKept, MeasureKept, CollectKept, BindKept DEF Work
    <3> QED BY <3>1, <3>2
  <2>3. CASE Crash
    <3>1. (/\ step[d] = "idle" /\ todo[d] = {} /\ instance[d] = "none"
           /\ \A n \in NodeIds : /\ tags[d][n] = Nobody /\ job[d][n] = "none"
                                 /\ results[d][n] = "none")'
      BY <2>3 DEF Crash
    <3> QED BY <3>1 DEF Tagged, CheckKept, OutboundsApart, InTurn, Measured, GoodKept
  <2>4. CASE UNCHANGED probeVars
    <3>1. SameCheck(d)
      BY <2>4 DEF probeVars, SameCheck
    <3> QED BY <2>1, <3>1, SameCheckKept
  <2> QED BY <2>2, <2>3, <2>4 DEF ProbeNext
<1> HIDE DEF Kept
<1>3. ProbeSpec => []Kept
  BY <1>1, <1>2, ProbeTypeCorrect, PTL DEF ProbeSpec
<1> QED BY <1>3, ProbeTypeCorrect, PTL DEF Kept

(* A node is reported ok only when a request went through its own          *)
(* outbound, whatever checks run beside each other on whatever ports       *)
(* (ProbeNodes, BuildProbeConfig).                                         *)
THEOREM OkMeasured == ProbeSpec => []OkIsMeasured
<1>1. (\A c \in Checks : CheckKept(c)) => OkIsMeasured
  BY DEF CheckKept, Measured, OkIsMeasured
<1> QED BY <1>1, ChecksKept, PTL

(* One bad node strands no good one: a good node whose tag or id tells it  *)
(* from the others is reported ok by every check in which nothing failed   *)
(* for it or around the check (precheckNodes, BuildProbeConfig).           *)
THEOREM NobodyStranded == ProbeSpec => []NoStranding
<1>1. (\A c \in Checks : CheckKept(c)) => NoStranding
  BY DEF CheckKept, GoodKept, Good, NoStranding
<1> QED BY <1>1, ChecksKept, PTL

-----------------------------------------------------------------------------
(* Health: what the loop of a roll-up counts.                              *)

(* The nodes of a roll-up are finitely many and can be put in order.       *)
Sorted(q) == \A i, j \in DOMAIN q : i < j => Rank[q[i]] < Rank[q[j]]

LEMMA OrderExists ==
  ASSUME NEW S \in SUBSET Nodes
  PROVE  IsFiniteSet(S) /\ Cardinality(S) \in Nat /\ \E q \in [1 .. Cardinality(S) -> S] : Sorted(q)
<1>1. IsFiniteSet(S)
  BY HealthConstants, FS_Subset
<1>2. Cardinality(S) \in Nat
  BY <1>1, FS_CardinalityType
<1> DEFINE Orders(n) == \A U \in SUBSET Nodes :
                          Cardinality(U) = n => \E q \in [1 .. n -> U] : Sorted(q)
           T == {n \in Nat : Orders(n)}
<1>3. 0 \in T
  <2>1. \A U : [i \in 1 .. 0 |-> i] \in [1 .. 0 -> U] /\ Sorted([i \in 1 .. 0 |-> i])
    BY DEF Sorted
  <2> QED BY <2>1
<1>4. ASSUME NEW n \in Nat, n \in T
      PROVE  n + 1 \in T
  <2> SUFFICES ASSUME NEW U \in SUBSET Nodes, Cardinality(U) = n + 1
               PROVE  \E q \in [1 .. n + 1 -> U] : Sorted(q)
    OBVIOUS
  <2>1. IsFiniteSet(U)
    BY HealthConstants, FS_Subset
  <2>2. U # {}
    <3>1. Cardinality({}) = 0
      BY FS_EmptySet
    <3> QED BY <3>1
  <2>3. PICK x \in U : \A y \in U : Rank[x] <= Rank[y]
    <3>1. U \in SUBSET Ids
      BY DEF Ids
    <3> QED BY <2>2, <3>1, IdsAreOrdered
  <2> DEFINE V == U \ {x}
  <2>4. Cardinality(V) = n
    <3>1. Cardinality(V) = (n + 1) - 1
      BY <2>1, FS_RemoveElement
    <3> QED BY <3>1
  <2>5. PICK q \in [1 .. n -> V] : Sorted(q)
    BY <1>4, <2>4
  <2>6. \A y \in V : Rank[x] < Rank[y]
    <3> SUFFICES ASSUME NEW y \in V PROVE Rank[x] < Rank[y]
      OBVIOUS
    <3>1. Rank[x] \in Int /\ Rank[y] \in Int /\ Rank[x] <= Rank[y]
      BY <2>3, IdsAreOrdered DEF Ids
    <3>2. Rank[x] # Rank[y]
      BY HealthConstants
    <3> QED BY <3>1, <3>2
  <2> HIDE DEF V
  <2> DEFINE p == [i \in 1 .. n + 1 |-> IF i = 1 THEN x ELSE q[i - 1]]
  <2>7. ASSUME NEW i \in 1 .. n + 1, i # 1
        PROVE  i - 1 \in 1 .. n /\ p[i] = q[i - 1] /\ p[i] \in V
    <3>1. i - 1 \in 1 .. n
      BY <2>7
    <3> QED BY <2>5, <2>7, <3>1
  <2>8. p \in [1 .. n + 1 -> U]
    BY <2>7 DEF V
  <2>9. Sorted(p)
    <3> SUFFICES ASSUME NEW i \in 1 .. n + 1, NEW j \in 1 .. n + 1, i < j
                 PROVE  Rank[p[i]] < Rank[p[j]]
      BY DEF Sorted
    <3>1. j # 1
      OBVIOUS
    <3>2. CASE i = 1
      <4>1. p[i] = x
        BY <3>2
      <4> HIDE DEF p
      <4> QED BY <2>6, <2>7, <3>1, <4>1
    <3>3. CASE i # 1
      <4>1. /\ i - 1 \in 1 .. n /\ j - 1 \in 1 .. n /\ i - 1 < j - 1
            /\ p[i] = q[i - 1] /\ p[j] = q[j - 1]
        BY <2>7, <3>1, <3>3
      <4> HIDE DEF p
      <4> QED BY <2>5, <4>1 DEF Sorted
    <3> QED BY <3>2, <3>3
  <2> HIDE DEF p
  <2> QED BY <2>8, <2>9
<1>5. Cardinality(S) \in T
  <2> HIDE DEF T
  <2> QED BY <1>2, <1>3, <1>4, Loop!Induct
<1> QED BY <1>1, <1>2, <1>5

(* Every node has its place in that order.                                 *)
LEMMA EveryoneInOrder ==
  ASSUME NEW S \in SUBSET Nodes
  PROVE  /\ Cardinality(S) \in Nat
         /\ InIdOrder(S) \in [1 .. Cardinality(S) -> S]
         /\ \A n \in S : \E i \in 1 .. Cardinality(S) : InIdOrder(S)[i] = n
<1> DEFINE N == Cardinality(S)  q == InIdOrder(S)
<1>1. IsFiniteSet(S) /\ N \in Nat
  BY OrderExists
<1>2. q \in [1 .. N -> S] /\ Sorted(q)
  <2>1. q = CHOOSE p \in [1 .. N -> S] : Sorted(p)
    BY DEF InIdOrder, Sorted
  <2>2. \E p \in [1 .. N -> S] : Sorted(p)
    BY OrderExists
  <2> HIDE DEF q, N
  <2> QED BY <2>1, <2>2
<1> HIDE DEF q
<1>3. q \in Injection(1 .. N, S)
  <2>1. ASSUME NEW i \in 1 .. N, NEW j \in 1 .. N, q[i] = q[j], i < j
        PROVE  FALSE
    <3>1. Rank[q[i]] < Rank[q[j]]
      BY <1>2, <2>1 DEF Sorted
    <3>2. Rank[q[i]] \in Int
      BY <1>2, IdsAreOrdered DEF Ids
    <3> QED BY <2>1, <3>1, <3>2
  <2>2. \A i, j \in 1 .. N : q[i] = q[j] => i = j
    BY <1>1, <2>1
  <2> QED BY <1>2, <2>2 DEF Injection, IsInjective
<1>4. q \in Surjection(1 .. N, S)
  <2>1. IsFiniteSet(1 .. N) /\ Cardinality(1 .. N) = N
    <3>1. IsFiniteSet(1 .. N) /\ Cardinality(1 .. N) = IF 1 > N THEN 0 ELSE N - 1 + 1
      BY <1>1, FS_Interval
    <3> QED BY <1>1, <3>1
  <2> QED BY <1>1, <1>3, <2>1, FS_Injection
<1> QED BY <1>1, <1>2, <1>4 DEF Surjection, q

(* What a check can report of a node, by itself or through the proxy.      *)
Report == [health : {"ok", "down", "error", "disabled"}, ms : Nat]

Reports(S, r) ==
  \A n \in S : /\ r[n] \in Report
               /\ r[n].health = "ok" /\ r[n].ms = 0 => n \in DirectNodes

(* The counters after k nodes.                                             *)
Counted(os, k, acc) ==
  /\ acc \in [best : Nat, down : Nat, disabled : Nat]
  /\ IF acc.best = 0 THEN \A i \in 1 .. k : os[i].health = "ok" => os[i].ms = 0
     ELSE /\ \E i \in 1 .. k : os[i].health = "ok" /\ os[i].ms = acc.best
          /\ \A i \in 1 .. k : os[i].health = "ok" /\ os[i].ms # 0 => acc.best <= os[i].ms
  /\ acc.down > 0 <=> \E i \in 1 .. k : os[i].health \notin {"ok", "disabled"}
  /\ acc.disabled <= k
  /\ acc.disabled = k <=> \A i \in 1 .. k : os[i].health = "disabled"

LEMMA OneMoreCounted ==
  ASSUME NEW N \in Nat, NEW k \in 1 .. N, NEW acc,
         NEW os \in Seq(Report), Len(os) = N,
         Counted(os, k - 1, acc)
  PROVE  Counted(os, k, Count(acc, os[k]))
<1> DEFINE o == os[k]  new == Count(acc, o)
<1>1. /\ o \in [health : {"ok", "down", "error", "disabled"}, ms : Nat]
      /\ \A i \in 1 .. k - 1 : os[i] \in [health : {"ok", "down", "error", "disabled"}, ms : Nat]
  <2>1. \A i \in 1 .. N : os[i] \in Report
    OBVIOUS
  <2>2. k \in 1 .. N /\ \A i \in 1 .. k - 1 : i \in 1 .. N
    OBVIOUS
  <2> QED BY <2>1, <2>2 DEF Report
<1>2. /\ acc = [best |-> acc.best, down |-> acc.down, disabled |-> acc.disabled]
      /\ acc.best \in Nat /\ acc.down \in Nat /\ acc.disabled \in Nat /\ acc.disabled <= k - 1
  BY DEF Counted
<1>3. \A i : i \in 1 .. k <=> i \in 1 .. k - 1 \/ i = k
  OBVIOUS
<1>4. CASE o.health = "ok"
  <2>1. new = [best |-> IF acc.best = 0 \/ (o.ms > 0 /\ o.ms < acc.best) THEN o.ms ELSE acc.best,
               down |-> acc.down, disabled |-> acc.disabled]
    BY <1>2, <1>4 DEF Count
  <2> HIDE DEF new, o
  <2>2. new.best \in Nat /\ new.down = acc.down /\ new.disabled = acc.disabled
    BY <1>1, <1>2, <2>1
  <2>3. IF new.best = 0 THEN \A i \in 1 .. k : os[i].health = "ok" => os[i].ms = 0
        ELSE /\ \E i \in 1 .. k : os[i].health = "ok" /\ os[i].ms = new.best
             /\ \A i \in 1 .. k : os[i].health = "ok" /\ os[i].ms # 0 => new.best <= os[i].ms
    <3>1. CASE acc.best = 0
      <4>1. new.best = o.ms /\ \A i \in 1 .. k - 1 : os[i].health = "ok" => os[i].ms = 0
        BY <2>1, <3>1 DEF Counted
      <4>2. \A i \in 1 .. k : os[i].health = "ok" /\ os[i].ms # 0 => i = k
        BY <1>3, <4>1
      <4>3. k \in 1 .. k
        OBVIOUS
      <4>4. CASE new.best = 0
        BY <4>1, <4>2, <4>4 DEF o
      <4>5. CASE new.best # 0
        <5>1. \A i \in 1 .. k : os[i].health = "ok" /\ os[i].ms # 0 => new.best <= os[i].ms
          BY <2>2, <4>1, <4>2 DEF o
        <5>2. os[k].health = "ok" /\ os[k].ms = new.best
          BY <1>4, <4>1 DEF o
        <5> QED BY <4>3, <4>5, <5>1, <5>2
      <4> QED BY <4>4, <4>5
    <3>2. CASE acc.best # 0
      <4>1. /\ \E i \in 1 .. k - 1 : os[i].health = "ok" /\ os[i].ms = acc.best
            /\ \A i \in 1 .. k - 1 : os[i].health = "ok" /\ os[i].ms # 0 => acc.best <= os[i].ms
        BY <3>2 DEF Counted
      <4>2. CASE o.ms > 0 /\ o.ms < acc.best
        <5>1. new.best = o.ms /\ new.best # 0
          BY <2>1, <4>2, <1>1
        <5>2. \A i \in 1 .. k - 1 : os[i].health = "ok" /\ os[i].ms # 0 => new.best <= os[i].ms
          BY <1>1, <1>2, <4>1, <4>2, <5>1
        <5> QED BY <1>1, <1>3, <1>4, <5>1, <5>2 DEF o
      <4>3. CASE ~(o.ms > 0 /\ o.ms < acc.best)
        <5>1. new.best = acc.best /\ (o.ms # 0 => acc.best <= o.ms)
          BY <1>1, <1>2, <2>1, <3>2, <4>3
        <5> QED BY <1>3, <3>2, <4>1, <5>1 DEF o
      <4> QED BY <4>2, <4>3
    <3> QED BY <3>1, <3>2
  <2>4. new.down > 0 <=> \E i \in 1 .. k : os[i].health \notin {"ok", "disabled"}
    BY <1>3, <1>4, <2>2 DEF Counted, o
  <2>5. new.disabled <= k /\ new.disabled # k
    BY <1>2, <2>2
  <2>6. ~ \A i \in 1 .. k : os[i].health = "disabled"
    BY <1>3, <1>4 DEF o
  <2>7. new \in [best : Nat, down : Nat, disabled : Nat]
    BY <1>1, <1>2, <2>1
  <2> QED BY <2>3, <2>4, <2>5, <2>6, <2>7 DEF Counted, new, o
<1>5. CASE o.health = "disabled"
  <2>1. new = [best |-> acc.best, down |-> acc.down, disabled |-> acc.disabled + 1]
    BY <1>2, <1>5 DEF Count
  <2> HIDE DEF new, o
  <2>2. new.best = acc.best /\ new.down = acc.down /\ new.disabled = acc.disabled + 1
    BY <2>1
  <2>3. IF new.best = 0 THEN \A i \in 1 .. k : os[i].health = "ok" => os[i].ms = 0
        ELSE /\ \E i \in 1 .. k : os[i].health = "ok" /\ os[i].ms = new.best
             /\ \A i \in 1 .. k : os[i].health = "ok" /\ os[i].ms # 0 => new.best <= os[i].ms
    BY <1>3, <1>5, <2>2 DEF Counted, o
  <2>4. new.down > 0 <=> \E i \in 1 .. k : os[i].health \notin {"ok", "disabled"}
    BY <1>3, <1>5, <2>2 DEF Counted, o
  <2>5. new.disabled <= k /\ (new.disabled = k <=> acc.disabled = k - 1)
    BY <1>2, <2>2
  <2>6. (\A i \in 1 .. k : os[i].health = "disabled")
          <=> \A i \in 1 .. k - 1 : os[i].health = "disabled"
    BY <1>3, <1>5 DEF o
  <2>7. new \in [best : Nat, down : Nat, disabled : Nat]
    BY <1>2, <2>1
  <2> QED BY <2>3, <2>4, <2>5, <2>6, <2>7 DEF Counted, new, o
<1>6. CASE o.health \notin {"ok", "disabled"}
  <2>1. new = [best |-> acc.best, down |-> acc.down + 1, disabled |-> acc.disabled]
    BY <1>2, <1>6 DEF Count
  <2> HIDE DEF new, o
  <2>2. new.best = acc.best /\ new.down = acc.down + 1 /\ new.disabled = acc.disabled
    BY <2>1
  <2>3. IF new.best = 0 THEN \A i \in 1 .. k : os[i].health = "ok" => os[i].ms = 0
        ELSE /\ \E i \in 1 .. k : os[i].health = "ok" /\ os[i].ms = new.best
             /\ \A i \in 1 .. k : os[i].health = "ok" /\ os[i].ms # 0 => new.best <= os[i].ms
    BY <1>3, <1>6, <2>2 DEF Counted, o
  <2>4. new.down > 0 /\ \E i \in 1 .. k : os[i].health \notin {"ok", "disabled"}
    BY <1>2, <1>3, <1>6, <2>2 DEF o
  <2>5. new.disabled <= k /\ new.disabled # k
    BY <1>2, <2>2
  <2>6. ~ \A i \in 1 .. k : os[i].health = "disabled"
    BY <1>3, <1>6 DEF o
  <2>7. new \in [best : Nat, down : Nat, disabled : Nat]
    BY <1>2, <2>1
  <2> QED BY <2>3, <2>4, <2>5, <2>6, <2>7 DEF Counted, new, o
<1> QED BY <1>4, <1>5, <1>6

LEMMA RollUp ==
  ASSUME NEW S \in SUBSET Nodes, NEW r, Reports(S, r)
  PROVE  Speaks(AggregateHealth(S, r), S, r)
<1> DEFINE N == Cardinality(S)  q == InIdOrder(S)
           os == [i \in DOMAIN q |-> r[q[i]]]
           base == [best |-> 0, down |-> 0, disabled |-> 0]
           acc == FoldLeft(Count, base, os)
<1>1. N \in Nat /\ q \in [1 .. N -> S] /\ \A n \in S : \E i \in 1 .. N : q[i] = n
  BY EveryoneInOrder
<1>2. DOMAIN os = 1 .. N /\ os \in Seq(Report) /\ Len(os) = N
  <2>1. os \in [1 .. N -> Report]
    BY <1>1 DEF Reports
  <2> HIDE DEF os
  <2> QED BY <1>1, <2>1
<1>3. acc = Loop!Fold(base, os)
  BY DEF FoldLeft, MapThenFoldSet, Max, Loop!Fold
<1>4. Counted(os, N, acc)
  <2> DEFINE kept == [k \in 0 .. N |-> {a \in [best : Nat, down : Nat, disabled : Nat] : Counted(os, k, a)}]
  <2>1. base \in kept[0]
    <3>1. Counted(os, 0, base) /\ base \in [best : Nat, down : Nat, disabled : Nat]
      BY DEF Counted
    <3> QED BY <1>1, <3>1
  <2>2. ASSUME NEW k \in 1 .. N, NEW a \in kept[k - 1]
        PROVE  Count(a, os[k]) \in kept[k]
    <3> HIDE DEF os
    <3>1. k - 1 \in 0 .. N /\ k \in 0 .. N
      BY <1>1
    <3>2. Counted(os, k - 1, a)
      BY <3>1
    <3>3. Counted(os, k, Count(a, os[k]))
      BY <1>1, <1>2, <3>2, OneMoreCounted
    <3>4. Count(a, os[k]) \in [best : Nat, down : Nat, disabled : Nat]
      BY <3>3 DEF Counted
    <3> QED BY <3>1, <3>3, <3>4
  <2> HIDE DEF kept, os, base, acc
  <2>3. Loop!Fold(base, os) \in kept[N]
    BY <1>2, <2>1, <2>2, Loop!FoldKeeps
  <2> QED BY <1>1, <1>3, <2>3 DEF kept
<1>5. \A i \in 1 .. N : os[i] = r[q[i]] /\ q[i] \in S
  BY <1>1
<1>6. AggregateHealth(S, r) =
        IF S = {} THEN Outcome("empty", 0)
        ELSE IF acc.best > 0 \/ HasDirectOK(S, r)
             THEN Outcome(IF acc.down > 0 THEN "degraded" ELSE "ok", acc.best)
             ELSE Outcome(IF acc.disabled = Len(os) THEN "disabled" ELSE "down", 0)
  <2>1. acc.best \in Nat
    BY <1>4 DEF Counted
  <2>2. AggregateHealth(S, r) =
          CASE S = {} -> Outcome("empty", 0)
            [] S # {} /\ (acc.best > 0 \/ HasDirectOK(S, r)) ->
                 Outcome(IF acc.down > 0 THEN "degraded" ELSE "ok", acc.best)
            [] S # {} /\ acc.best = 0 /\ ~HasDirectOK(S, r) ->
                 Outcome(IF acc.disabled = Len(os) THEN "disabled" ELSE "down", 0)
    BY DEF AggregateHealth
  <2> HIDE DEF acc, os
  <2> QED BY <2>1, <2>2
<1> DEFINE good == {n \in S : r[n].health = "ok"}
           idle == {n \in S : r[n].health = "disabled"}
           delays == {r[n].ms : n \in good} \ {0}
           o == AggregateHealth(S, r)
<1> HIDE DEF acc, os, q, N
<1>7. /\ acc.best \in Nat
      /\ acc.best = 0 => delays = {}
      /\ acc.best # 0 => acc.best \in delays /\ \A d \in delays : acc.best <= d
  <2>1. acc.best \in Nat
    BY <1>4 DEF Counted
  <2>2. ASSUME acc.best = 0 PROVE delays = {}
    BY <1>1, <1>4, <1>5, <2>2 DEF Counted
  <2>3. ASSUME acc.best # 0 PROVE acc.best \in delays /\ \A d \in delays : acc.best <= d
    <3>1. PICK i \in 1 .. N : os[i].health = "ok" /\ os[i].ms = acc.best
      BY <1>4, <2>3 DEF Counted
    <3>2. acc.best \in delays
      BY <1>5, <2>3, <3>1
    <3>3. ASSUME NEW n \in good, r[n].ms # 0 PROVE acc.best <= r[n].ms
      <4>1. PICK j \in 1 .. N : q[j] = n
        BY <1>1
      <4>2. os[j].health = "ok" /\ os[j].ms # 0 /\ os[j].ms = r[n].ms
        BY <1>5, <3>3, <4>1
      <4> QED BY <1>4, <2>3, <4>2 DEF Counted
    <3> QED BY <3>2, <3>3
  <2> QED BY <2>1, <2>2, <2>3
<1>8. acc.down > 0 <=> good \cup idle # S
  BY <1>1, <1>4, <1>5 DEF Counted
<1>9. acc.disabled = N <=> idle = S
  BY <1>1, <1>4, <1>5 DEF Counted
<1>10. acc.best > 0 \/ HasDirectOK(S, r) <=> good # {}
  BY <1>7 DEF HasDirectOK, Reports, Report
<1>11. acc.best # 0 => good # {}
  BY <1>7
<1> HIDE DEF delays, good, idle
<1>12. S # {} /\ idle = S => good = {}
  BY DEF good, idle
<1>13. Speaks(o, S, r) <=>
         /\ o.health = CASE S = {} -> "empty"
                         [] S # {} /\ idle = S -> "disabled"
                         [] good = {} /\ idle # S -> "down"
                         [] good # {} /\ good \cup idle = S -> "ok"
                         [] good # {} /\ good \cup idle # S -> "degraded"
         /\ IF delays = {} THEN o.ms = 0 ELSE o.ms \in delays /\ \A d \in delays : o.ms <= d
  BY DEF Speaks, good, idle, delays
<1>14. CASE S = {}
  <2>1. o = Outcome("empty", 0) /\ delays = {}
    BY <1>6, <1>14 DEF delays, good
  <2> QED BY <1>13, <1>14, <2>1 DEF Outcome, good, idle
<1>15. CASE S # {} /\ good # {}
  <2>1. o = Outcome(IF acc.down > 0 THEN "degraded" ELSE "ok", acc.best)
    BY <1>6, <1>10, <1>15
  <2>2. idle # S
    BY <1>12, <1>15
  <2> QED BY <1>7, <1>8, <1>13, <1>15, <2>1, <2>2 DEF Outcome
<1>16. CASE S # {} /\ good = {}
  <2>1. o = Outcome(IF acc.disabled = Len(os) THEN "disabled" ELSE "down", 0)
    BY <1>6, <1>10, <1>16
  <2>2. delays = {}
    BY <1>16 DEF delays
  <2> QED BY <1>2, <1>9, <1>13, <1>16, <2>1, <2>2 DEF Outcome
<1> QED BY <1>14, <1>15, <1>16


(* What a check reports of the nodes of the configuration.                 *)
LEMMA ChecksReport ==
  ASSUME cfg \in Configs, NEW r \in NodeResults(CheckNode) \cup NodeResults(ProbeNode)
  PROVE  Reports(Configured, r)
<1> SUFFICES ASSUME NEW n \in Configured
             PROVE  /\ r[n] \in Report
                    /\ r[n].health = "ok" /\ r[n].ms = 0 => n \in DirectNodes
  BY DEF Reports
<1>1. n \in Nodes /\ cfg.nodes[n] # None
  BY DEF Configured
<1>2. \A d \in Delays : d \in Nat /\ d # 0
  BY HealthConstants
<1>3. \A h \in {"ok", "down", "error", "disabled"}, d \in Nat :
        Outcome(h, d) \in Report /\ Outcome(h, d).health = h /\ Outcome(h, d).ms = d
  BY DEF Outcome, Report
<1>4. \/ \E h \in {"ok", "down"}, d \in Delays : r[n] = Outcome(h, d)
      \/ \E h \in {"down", "error", "disabled"} : r[n] = Outcome(h, 0)
      \/ n \in DirectNodes /\ r[n] = Outcome("ok", 0)
  <2>1. CASE r \in NodeResults(CheckNode)
    <3>1. r[n] \in CheckNode(n)
      BY <1>1, <2>1 DEF NodeResults
    <3> QED BY <3>1 DEF CheckNode
  <2>2. CASE r \in NodeResults(ProbeNode)
    <3>1. r[n] \in ProbeNode(n)
      BY <1>1, <2>2 DEF NodeResults
    <3> QED BY <3>1 DEF ProbeNode
  <2> QED BY <2>1, <2>2
<1> QED BY <1>2, <1>3, <1>4

(* The result is the roll-up of what a check reported of the nodes of the  *)
(* configuration that the document is made from.                           *)
RolledUp ==
  result # None => \E r : Reports(Configured, r) /\ result = Aggregate(r)

LEMMA AlwaysRolledUp == HealthSpec => [](Made /\ RolledUp)
<1>1. HealthSpec => Spec
  <2>1. HealthInit => Init
    BY DEF HealthInit
  <2>2. [HealthNext]_<<vars, result>> => [Next]_vars
    BY DEF HealthNext, Check
  <2> QED BY <2>1, <2>2, PTL DEF HealthSpec, Spec
<1>2. HealthInit => RolledUp
  BY DEF HealthInit, RolledUp
<1>3. Made /\ RolledUp /\ [HealthNext]_<<vars, result>> => RolledUp'
  <2> SUFFICES ASSUME Made, RolledUp, [HealthNext]_<<vars, result>> PROVE RolledUp'
    OBVIOUS
  <2>1. cfg' = cfg
    BY DEF HealthNext, Next, Generate, Download, Check, vars
  <2>2. \A r : /\ Reports(Configured, r)' <=> Reports(Configured, r)
               /\ Aggregate(r)' = Aggregate(r)
    BY <2>1 DEF Reports, Configured, Aggregate, SubscriptionNodes, GroupMembers
  <2>3. CASE Check
    <3>1. \E r \in NodeResults(CheckNode) \cup NodeResults(ProbeNode) : result' = Aggregate(r)
      BY <2>3 DEF Check
    <3> QED BY <2>2, <3>1, ChecksReport DEF Made, RolledUp
  <2>4. CASE result' = result
    BY <2>2, <2>4 DEF RolledUp
  <2> QED BY <2>3, <2>4 DEF HealthNext
<1> QED BY <1>1, <1>2, <1>3, AlwaysMade, PTL DEF HealthSpec

(* The reported health of every subscription and of the group is the one   *)
(* its nodes have (aggregateHealth, checkSubscriptions, checkGroups).      *)
LEMMA RolledUpRight == RolledUp => RollUpIsRight
<1> SUFFICES ASSUME result # None, NEW r, Reports(Configured, r), result = Aggregate(r)
             PROVE  /\ \A s \in Subs : Speaks(result.subs[s], SubscriptionNodes(s), result.nodes)
                    /\ cfg.group => Speaks(result.group, GroupMembers, result.nodes)
  BY DEF RolledUp, RollUpIsRight
<1>1. \A S \in SUBSET Configured : Speaks(AggregateHealth(S, r), S, r)
  BY RollUp DEF Reports, Configured
<1>2. GroupMembers \subseteq Configured /\ \A s : SubscriptionNodes(s) \subseteq Configured
  BY DEF GroupMembers, SubscriptionNodes
<1>3. /\ result.nodes = r
      /\ \A s \in Subs : result.subs[s] = AggregateHealth(SubscriptionNodes(s), r)
      /\ cfg.group => result.group = AggregateHealth(GroupMembers, r)
  BY DEF Aggregate
<1> QED BY <1>1, <1>2, <1>3

THEOREM RollUpCorrect == HealthSpec => []RollUpIsRight
BY AlwaysRolledUp, RolledUpRight, PTL

(* A group that is reported healthy or degraded offers, in the document of *)
(* the same configuration, a node that was found ok (groupNodes of health, *)
(* renderStrategyNodes of render).                                         *)
THEOREM HealthyServes == HealthSpec => []HealthyGroupServes
<1>1. Made /\ RollUpIsRight => HealthyGroupServes
  <2> SUFFICES ASSUME Made, RollUpIsRight, result # None, doc # None, cfg.group,
                      cfg.strategy # "manual", result.group.health \in {"ok", "degraded"},
                      \A n \in Configured : result.nodes[n] \in ProbeNode(n)
               PROVE  \E n \in Nodes : /\ result.nodes[n].health = "ok"
                                       /\ TagOf(cfg, n) \in doc.proxy.of
    BY DEF HealthyGroupServes
  <2> DEFINE good == {n \in GroupMembers : result.nodes[n].health = "ok"}
             offered == {TagOf(cfg, n) : n \in ProxyNodes(cfg)}
  <2>1. PICK n \in GroupMembers : result.nodes[n].health = "ok"
    <3>1. Speaks(result.group, GroupMembers, result.nodes)
      BY DEF RollUpIsRight
    <3>2. good # {}
      BY <3>1 DEF Speaks
    <3> QED BY <3>2
  <2>2. n \in Nodes /\ cfg.nodes[n] # None /\ cfg.nodes[n].on /\ result.nodes[n] \in ProbeNode(n)
    BY DEF GroupMembers, Configured
  <2>3. cfg.nodes[n].renders
    BY <2>1, <2>2 DEF ProbeNode, Outcome
  <2>4. n \in ProxyNodes(cfg)
    BY <2>2, <2>3 DEF GroupMembers, ProxyNodes, StrategyNodes, GroupNodes, On
  <2>5. doc.proxy = Proxy(cfg)
    BY DEF Made, MadeFrom, Document
  <2>6. TagOf(cfg, n) \in offered
    BY <2>4
  <2>7. Proxy(cfg).of = offered \/ Proxy(cfg).of = offered \cup {"direct"}
    <3> HIDE DEF offered
    <3>1. CASE cfg.strategy = "urltest"
      BY <2>6, <3>1 DEF Proxy, RenderURLTest, offered
    <3>2. CASE cfg.strategy # "urltest"
      BY <3>2 DEF Proxy, Selector, offered
    <3> QED BY <3>1, <3>2
  <2> QED BY <2>1, <2>2, <2>5, <2>6, <2>7
<1> QED BY <1>1, AlwaysRolledUp, RollUpCorrect, PTL
=============================================================================
