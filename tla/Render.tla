------------------------------- MODULE Render -------------------------------
(***************************************************************************)
(* The sing-box document made from the configuration (render/render.go):   *)
(* which inbounds, outbounds, DNS servers, rules and rule sets it defines  *)
(* and which of them it refers to by tag.  What an entry says besides its  *)
(* tag (addresses, credentials, TLS, transports) is left out.  The rules   *)
(* of a configuration are the enabled ones of the active group, and the    *)
(* strategy load-balance is rendered as urltest.                           *)
(*                                                                         *)
(* A behaviour is one saved configuration, whose rule sets are downloaded  *)
(* and whose document is generated at any time: nothing else is kept from  *)
(* one call of Render to the next.                                         *)
(***************************************************************************)
EXTENDS Integers

CONSTANTS
  Nodes, Servers, RuleSets, DNSRules, RouteRules, Subs,  \* ids
  Tags,      \* tags of nodes, which the user can edit
  Rank,      \* the order of the ids of nodes and servers
  None,
  Samples    \* sets of configurations that can be saved

Builtin == {"direct", "block"}
Reserved == Builtin \cup {"proxy"}
Synthetic == "domain-bootstrap"

Ids == Nodes \cup Servers

(* renders: sing-box has the transport of the node; plain: udp or tcp.     *)
NodeBodies == [on : BOOLEAN, tag : Tags, from : Subs \cup {None}, renders : BOOLEAN]
ServerBodies == [on : BOOLEAN, plain : BOOLEAN, detour : {"", "direct", "proxy"}]
SetBodies == [on : BOOLEAN, remote : BOOLEAN, url : BOOLEAN, path : BOOLEAN]
DNSBodies == [server : Servers, sources : BOOLEAN, sets : SUBSET RuleSets]
RouteBodies == [outbound : Reserved, sources : BOOLEAN, sets : SUBSET RuleSets]

(* A section is None where the configuration does not have it.             *)
Configs == [mode : {"direct", "rule", "global"},
            group : BOOLEAN, strategy : {"manual", "selector", "urltest"},
            selected : Nodes \cup {None}, members : SUBSET Subs,
            routeFinal : Reserved, dnsFinal : Servers \cup {None},
            nodes : [Nodes -> NodeBodies \cup {None}],
            servers : [Servers -> ServerBodies \cup {None}],
            sets : [RuleSets -> SetBodies \cup {None}],
            dns : [DNSRules -> DNSBodies \cup {None}],
            routes : [RouteRules -> RouteBodies \cup {None}],
            tproxy : BOOLEAN, hijack : BOOLEAN, tun : BOOLEAN]

(* What Validate asks of these sections.                                   *)
ValidSet(b) == b.on => IF b.remote THEN b.url \/ b.path ELSE b.path

ValidRule(c, b) ==
  /\ b.sources \/ b.sets # {}
  /\ \A g \in b.sets : c.sets[g] # None

Valid(c) ==
  /\ c.selected # None => c.nodes[c.selected] # None
  /\ c.dnsFinal # None => c.servers[c.dnsFinal] # None
  /\ \A g \in RuleSets : c.sets[g] # None => ValidSet(c.sets[g])
  /\ \A r \in DNSRules : c.dns[r] # None => ValidRule(c, c.dns[r])
                                              /\ c.servers[c.dns[r].server] # None
  /\ \A r \in RouteRules : c.routes[r] # None => ValidRule(c, c.routes[r])
  /\ ~(c.tproxy /\ c.tun)

ASSUME RenderConstants ==
  /\ None \notin Ids \cup RuleSets \cup Subs \cup Reserved
  /\ None \notin NodeBodies \cup ServerBodies \cup SetBodies \cup DNSBodies \cup RouteBodies
  /\ Synthetic \notin Servers
  /\ \A S \in Samples : S \subseteq Configs /\ \A c \in S : Valid(c)

(* Every set of ids has a first one.                                       *)
ASSUME IdsAreOrdered ==
  /\ Rank \in [Ids -> Int]
  /\ \A S \in SUBSET Ids : S # {} => \E x \in S : \A y \in S : Rank[x] <= Rank[y]

First(S) == CHOOSE x \in S : \A y \in S : Rank[x] <= Rank[y]

-----------------------------------------------------------------------------
(* Inbounds.                                                               *)

DNSHijackEnabled(c) == c.tproxy /\ c.hijack

RenderInbounds(c) ==
  {"mixed-in"} \cup {t \in {"tproxy-in"} : c.tproxy}
    \cup {t \in {"dns-in"} : DNSHijackEnabled(c)} \cup {t \in {"tun-in"} : c.tun}

-----------------------------------------------------------------------------
(* Outbounds: the nodes, and the outbound "proxy" that offers them.        *)

TagOf(c, n) == c.nodes[n].tag
On(c, n) == c.nodes[n] # None /\ c.nodes[n].on

(* The enabled nodes, of a group with subscriptions only theirs and the    *)
(* manual ones.                                                            *)
GroupNodes(c) ==
  {n \in Nodes : /\ On(c, n)
                 /\ c.nodes[n].from # None /\ c.members # {} => c.nodes[n].from \in c.members}

(* Defect: one node sing-box cannot dial takes the others with it.         *)
AllOrNone(c) ==
  {n \in GroupNodes(c) : \A m \in GroupNodes(c) : c.nodes[m].renders}

(* renderStrategyNodes leaves out what sing-box cannot dial.               *)
StrategyNodes(c) == {n \in GroupNodes(c) : c.nodes[n].renders}

(* Generate refuses to render a tag twice.                                 *)
Clash(c) ==
  /\ c.group /\ c.strategy # "manual"
  /\ \E n \in StrategyNodes(c) :
       \/ TagOf(c, n) \in Reserved
       \/ \E m \in StrategyNodes(c) : n # m /\ TagOf(c, n) = TagOf(c, m)

Selector(tags, default) == [type |-> "selector", of |-> tags \cup {"direct"}, default |-> default]
FallbackSelector == Selector({}, "direct")

(* Defect: the selection is forgotten.                                     *)
FirstTag(c, ns) == IF ns # {} THEN TagOf(c, First(ns)) ELSE "direct"

(* The tag of the selected node where it is offered, else the first one.   *)
SelectedTag(c, ns) ==
  IF c.selected # None /\ \E n \in ns : TagOf(c, n) = TagOf(c, c.selected)
  THEN TagOf(c, c.selected)
  ELSE IF ns # {} THEN TagOf(c, First(ns)) ELSE "direct"

RenderURLTest(tags) ==
  IF tags = {} THEN FallbackSelector ELSE [type |-> "urltest", of |-> tags, default |-> None]

(* The selected node of the strategy manual, if there is one to render.    *)
ActiveNode(c) == {n \in Nodes : n = c.selected /\ On(c, n) /\ c.nodes[n].renders}

ProxyNodes(c) ==
  IF ~c.group THEN {} ELSE IF c.strategy = "manual" THEN ActiveNode(c) ELSE StrategyNodes(c)

Proxy(c) ==
  LET ns == ProxyNodes(c)
      tags == {TagOf(c, n) : n \in ns}
  IN CASE ~c.group -> FallbackSelector
       [] c.group /\ c.strategy = "urltest" -> RenderURLTest(tags)
       [] OTHER -> Selector(tags, SelectedTag(c, ns))

(* The outbounds but "proxy", and the node each is for.                    *)
Outbounds(c) ==
  [tag : Builtin, node : {None}] \cup {[tag |-> TagOf(c, n), node |-> n] : n \in ProxyNodes(c)}

-----------------------------------------------------------------------------
(* DNS.                                                                    *)

EnabledServers(c) == {s \in Servers : c.servers[s] # None /\ c.servers[s].on}
DirectServers(c) == {s \in EnabledServers(c) : c.servers[s].detour # "proxy"}
PlainServers(c) == {s \in DirectServers(c) : c.servers[s].plain}

(* Defect: the first plain server is taken, direct or not.                 *)
FirstPlain(c) ==
  LET plain == {s \in EnabledServers(c) : c.servers[s].plain}
  IN IF plain # {} THEN First(plain)
     ELSE IF DirectServers(c) # {} THEN First(DirectServers(c)) ELSE Synthetic

(* The server that resolves the names of the servers of outbounds.         *)
BootstrapResolverTag(c) ==
  IF PlainServers(c) # {} THEN First(PlainServers(c))
  ELSE IF DirectServers(c) # {} THEN First(DirectServers(c))
  ELSE Synthetic

DefaultResolver(c) ==
  IF c.dnsFinal \in EnabledServers(c) THEN c.dnsFinal ELSE First(EnabledServers(c))

EnabledRuleSets(c, gs) == {g \in gs : c.sets[g] # None /\ c.sets[g].on}

(* A rule is left out when all it matches is disabled.                     *)
Matches(c, b) == b.sources \/ EnabledRuleSets(c, b.sets) # {}

RenderDNSRules(c) ==
  {[server |-> b.server, sources |-> b.sources, sets |-> EnabledRuleSets(c, b.sets)] :
     b \in {c.dns[r] : r \in {q \in DNSRules :
              c.dns[q] # None /\ c.dns[q].server \in EnabledServers(c) /\ Matches(c, c.dns[q])}}}

(* There is no dns section without an enabled server.                      *)
RenderDNS(c) ==
  IF EnabledServers(c) = {} THEN None
  ELSE [servers |-> {[tag |-> s, detour |-> c.servers[s].detour] : s \in EnabledServers(c)}
                      \cup {t \in [tag : {Synthetic}, detour : {""}] : DirectServers(c) = {}},
        rules |-> RenderDNSRules(c),
        final |-> DefaultResolver(c)]

-----------------------------------------------------------------------------
(* Routing.                                                                *)

RouteFinal(c) ==
  IF c.mode = "direct" THEN "direct"
  ELSE IF c.mode = "global" THEN "proxy" ELSE c.routeFinal

UsedRoutes(c) ==
  {r \in RouteRules : c.mode = "rule" /\ c.routes[r] # None /\ Matches(c, c.routes[r])}

RenderRoutes(c) ==
  {[outbound |-> b.outbound, sources |-> b.sources, sets |-> EnabledRuleSets(c, b.sets)] :
     b \in {c.routes[r] : r \in UsedRoutes(c)}}

(* Defect: only the rule sets of the route rules are defined.              *)
UsedByRoutes(c) ==
  {g \in RuleSets : \E r \in UsedRoutes(c) : g \in EnabledRuleSets(c, c.routes[r].sets)}

(* DNS rules are rendered in every mode, so their rule sets are defined.   *)
UsedRuleSets(c) ==
  {g \in RuleSets :
     \/ \E r \in UsedRoutes(c) : g \in EnabledRuleSets(c, c.routes[r].sets)
     \/ \E r \in DNSRules : c.dns[r] # None /\ g \in EnabledRuleSets(c, c.dns[r].sets)}

(* From its file if there is one, else fetched through the proxy; there is *)
(* none to define for a remote set without file and URL.                   *)
RenderRuleSet(b, g, files) ==
  IF (b.path /\ g \in files) \/ ~b.remote
  THEN {t \in [tag : {g}, detour : {"none"}] : b.path}
  ELSE {t \in [tag : {g}, detour : {"proxy"}] : b.url}

RenderRuleSets(c, files) == UNION {RenderRuleSet(c.sets[g], g, files) : g \in UsedRuleSets(c)}

Document(c, files) ==
  [inbounds |-> RenderInbounds(c),
   captured |-> {t \in {"dns-in"} : DNSHijackEnabled(c)},
   outbounds |-> Outbounds(c),
   proxy |-> Proxy(c),
   dns |-> RenderDNS(c),
   routes |-> RenderRoutes(c),
   sets |-> RenderRuleSets(c, files),
   final |-> RouteFinal(c),
   resolver |-> BootstrapResolverTag(c)]

-----------------------------------------------------------------------------
VARIABLES
  cfg,    \* the saved configuration
  files,  \* the rule sets with a file at their path
  doc     \* the generated document, None before the first
vars == <<cfg, files, doc>>

(* Download: to the path of the set; without one, to a place where         *)
(* renderRuleSet does not look.                                            *)
Download(g) ==
  /\ cfg.sets[g] # None
  /\ cfg.sets[g].on /\ cfg.sets[g].remote /\ cfg.sets[g].url
  /\ files' = files \cup {h \in {g} : cfg.sets[g].path}
  /\ UNCHANGED <<cfg, doc>>

(* Generate writes the document, or fails and leaves the last one.         *)
Generate ==
  /\ doc' = IF Clash(cfg) THEN doc ELSE Document(cfg, files)
  /\ UNCHANGED <<cfg, files>>

Init ==
  /\ \E S \in Samples : cfg \in S
  /\ files \in SUBSET RuleSets
  /\ doc = None

Next == Generate \/ \E g \in RuleSets : Download(g)

Spec == Init /\ [][Next]_vars

-----------------------------------------------------------------------------
(* Properties.                                                             *)

OutboundTags(d) == {o.tag : o \in d.outbounds} \cup {"proxy"}

(* Every outbound that is offered, chosen or routed to is defined.         *)
OutboundsClosed(d) ==
  /\ d.proxy.of \subseteq OutboundTags(d)
  /\ d.proxy.default \in d.proxy.of \cup {None}
  /\ d.final \in OutboundTags(d)
  /\ \A r \in d.routes : r.outbound \in OutboundTags(d)
  /\ d.captured \subseteq d.inbounds

(* And every DNS server, with its detour.                                  *)
ServersClosed(d) ==
  d.dns # None =>
    /\ {d.resolver, d.dns.final} \cup {r.server : r \in d.dns.rules}
         \subseteq {s.tag : s \in d.dns.servers}
    /\ \A s \in d.dns.servers : s.detour = "" \/ s.detour \in OutboundTags(d)

(* A rule set that can be had: local, downloaded, or with a URL.           *)
Obtainable(c) ==
  \A g \in RuleSets : c.sets[g] # None /\ c.sets[g].on /\ c.sets[g].remote
                        => c.sets[g].url \/ g \in files

(* And every rule set.                                                     *)
RuleSetsClosed(d) ==
  \A r \in d.routes \cup (IF d.dns = None THEN {} ELSE d.dns.rules) :
    r.sets \subseteq {t.tag : t \in d.sets}

(* sing-box refuses a document that refers to a tag it does not define.    *)
(* Whatever is disabled, deleted, deselected or not downloaded yet, and in *)
(* every mode, the generated one is closed; but for the resolver when no   *)
(* DNS server is enabled, and a remote rule set with neither URL nor file. *)
Closed == doc # None => /\ OutboundsClosed(doc) /\ ServersClosed(doc)
                        /\ Obtainable(cfg) => RuleSetsClosed(doc)

(* The server that resolves the names of proxy servers is never reached    *)
(* through the proxy: a loop sing-box cannot break (hasDirectResolver).    *)
BootstrapsDirectly ==
  doc # None /\ doc.dns # None
    => \A s \in doc.dns.servers : s.tag = doc.resolver => s.detour \in {"", "direct"}

(* A node that is selected, enabled, of the group and that sing-box can    *)
(* dial is what the proxy leads to, under selector and under manual.       *)
SelectionIsServed ==
  LET n == cfg.selected
  IN doc # None /\ cfg.group /\ cfg.strategy # "urltest" /\ n # None
       => (n \in GroupNodes(cfg) /\ cfg.nodes[n].renders
             => /\ doc.proxy.default = TagOf(cfg, n)
                /\ [tag |-> TagOf(cfg, n), node |-> n] \in doc.outbounds)

(* An automatic strategy lets traffic out directly only when no node of    *)
(* the group can be used.                                                  *)
DirectIsLastResort ==
  doc # None /\ cfg.group /\ cfg.strategy # "manual" /\ doc.proxy.default = "direct"
    => \A n \in Nodes : cfg.nodes[n] # None /\ On(cfg, n) /\ cfg.nodes[n].renders
                          => cfg.nodes[n].from \notin cfg.members \cup {None} /\ cfg.members # {}

=============================================================================
