----------------------------- MODULE MCDocument -----------------------------
(***************************************************************************)
(* Instances of Render, Health and Probe: what is made of one saved        *)
(* configuration.  They share no variable but the configuration, and       *)
(* "part" says which of them moves.                                        *)
(*                                                                         *)
(* The configurations are four slices, each with every value of the        *)
(* sections that one part of the document, or the roll-up of the health,   *)
(* is made from: group and nodes; servers and DNS rules; rules and rule    *)
(* sets; nodes of two subscriptions and a direct one.  In Probe two checks *)
(* run beside each other; an id there is a string, as it may be the name   *)
(* of a built-in outbound or the tag of another node.                      *)
(***************************************************************************)
EXTENDS Health, Probe, TLC

CONSTANTS n1, n2, n3, d1, d2, g1, g2, s1, s2, c1, c2, p1

ThreeNodes == {n1, n2, n3}
OneDirect == {n3}
TwoServers == {d1, d2}
TwoSets == {g1, g2}
TwoSubs == {s1, s2}
SomeTags == {"vless", "trojan", "direct", "home"}
InOrder == (n1 :> 1) @@ (n2 :> 2) @@ (n3 :> 3) @@ (d1 :> 4) @@ (d2 :> 5)

Empty == [mode |-> "rule", group |-> TRUE, strategy |-> "selector", selected |-> None,
          members |-> {}, routeFinal |-> "proxy", dnsFinal |-> None,
          nodes |-> [n \in Nodes |-> None], servers |-> [s \in Servers |-> None],
          sets |-> [g \in RuleSets |-> None], dns |-> [r \in DNSRules |-> None],
          routes |-> [r \in RouteRules |-> None],
          tproxy |-> FALSE, hijack |-> FALSE, tun |-> FALSE]

(* The third node is a direct one that only the health slice has.          *)
SomeBodies == {b \in NodeBodies : b.tag # "home"} \cup {None}
TwoNodes == {(n1 :> b) @@ (n2 :> c) @@ (n3 :> None) : b \in SomeBodies, c \in SomeBodies}

GroupSlice ==
  {[Empty EXCEPT !.group = on, !.strategy = strategy, !.selected = n, !.members = subs,
                 !.nodes = bodies] :
     on \in BOOLEAN, strategy \in {"manual", "selector", "urltest"}, n \in {n1, n2, None},
     subs \in {{}, {s1}}, bodies \in TwoNodes}

DNSSlice ==
  {[Empty EXCEPT !.servers = servers, !.dnsFinal = final, !.dns = rules, !.mode = mode] :
     servers \in [Servers -> ServerBodies \cup {None}], final \in Servers \cup {None},
     rules \in [DNSRules -> [server : Servers, sources : {TRUE}, sets : {{}}] \cup {None}],
     mode \in {"direct", "rule"}}

(* Disabled; local; remote, with its path and without; only a path.        *)
SomeSets ==
  {[on |-> FALSE, remote |-> FALSE, url |-> FALSE, path |-> FALSE],
   [on |-> TRUE, remote |-> FALSE, url |-> FALSE, path |-> TRUE],
   [on |-> TRUE, remote |-> TRUE, url |-> TRUE, path |-> TRUE],
   [on |-> TRUE, remote |-> TRUE, url |-> TRUE, path |-> FALSE],
   [on |-> TRUE, remote |-> TRUE, url |-> FALSE, path |-> TRUE]}

SomeServers ==
  [Servers -> {[on |-> TRUE, plain |-> TRUE, detour |-> "proxy"],
               [on |-> FALSE, plain |-> TRUE, detour |-> ""]}]

RuleSlice ==
  {[Empty EXCEPT !.mode = mode, !.sets = sets, !.dns = rules, !.routes = routes,
                 !.servers = servers, !.tproxy = mode = "rule", !.hijack = mode = "rule",
                 !.tun = mode = "global"] :
     mode \in {"direct", "rule", "global"}, sets \in [RuleSets -> SomeSets],
     rules \in [DNSRules -> [server : {d1}, sources : BOOLEAN, sets : SUBSET RuleSets] \cup {None}],
     routes \in [RouteRules -> [outbound : {"block"}, sources : BOOLEAN, sets : SUBSET RuleSets]
                                \cup {None}],
     servers \in SomeServers}

Body(tag) == [on : BOOLEAN, tag : {tag}, from : Subs \cup {None}, renders : BOOLEAN] \cup {None}

HealthSlice ==
  {[Empty EXCEPT !.group = on, !.strategy = strategy, !.members = subs,
                 !.nodes = (n1 :> b1) @@ (n2 :> b2) @@ (n3 :> b3)] :
     on \in BOOLEAN, strategy \in {"manual", "urltest"}, subs \in SUBSET Subs,
     b1 \in Body("vless"), b2 \in Body("trojan"),
     b3 \in {b \in Body("home") : b # None => b.renders /\ b.from = None}}

Slices == {{c \in S : Valid(c)} : S \in {GroupSlice, DNSSlice, RuleSlice, HealthSlice}}

(* A check of the health does not look at the selection, nor at anything   *)
(* but nodes and group; each node goes by one name.                        *)
ForHealth(c) ==
  /\ c.selected = None /\ c.strategy # "selector" /\ ~c.tun /\ ~c.tproxy
  /\ \A s \in Servers : c.servers[s] = None
  /\ \A n \in Nodes :
       c.nodes[n] # None =>
         c.nodes[n].tag = IF n = n1 THEN "vless" ELSE IF n = n2 THEN "trojan" ELSE "home"

-----------------------------------------------------------------------------
(* Probe: two checks of two nodes on one port.                             *)
TwoChecks == {c1, c2}
OnePort == {p1}
TwoIds == {"vless", "direct"}
ThreeTags == {"vless", "direct", "trojan"}
FourKinds == {"disabled", "invalid", "dead", "alive"}

Unprobed == [n \in NodeIds |-> [tag |-> n, kind |-> "alive"]]

-----------------------------------------------------------------------------
VARIABLE part

DocumentInit ==
  /\ HealthInit /\ (\A g \in files : cfg.sets[g] # None)
  /\ \/ part = "document" /\ cfg.nodes[n3] = None /\ nodes = Unprobed
     \/ part = "health" /\ ForHealth(cfg) /\ nodes = Unprobed
     \/ part = "probe" /\ cfg = Empty
  /\ ProbeInit

(* A check replaces the result of the one before, whatever that was, and   *)
(* so one is enough.                                                       *)
DocumentNext ==
  /\ UNCHANGED part
  /\ \/ part = "document" /\ Next /\ UNCHANGED <<result, probeVars>>
     \/ part = "health" /\ result = None /\ HealthNext /\ UNCHANGED probeVars
     \/ part = "probe" /\ ProbeNext /\ UNCHANGED <<vars, result>>

DocumentSpec ==
  /\ DocumentInit
  /\ [][DocumentNext]_<<part, vars, result, probeVars>>
  /\ ProbeFairness
=============================================================================
