---------------------------- MODULE ConfigEdits ----------------------------
(***************************************************************************)
(* The edits of the configuration file (config/edit.go) and what a valid   *)
(* configuration is (config/validate.go), as operators on a record.  The   *)
(* record keeps the sections and the references between them: names, URLs, *)
(* addresses, credentials and the health metadata are left out.  There is  *)
(* one group, the active one.                                              *)
(*                                                                         *)
(*   enabled, paused, mode   the manager section                           *)
(*   subs, on                the subscriptions, and the enabled ones       *)
(*   fresh, failed           those whose last_update is recent, those with *)
(*                           a last_error; rule sets too                   *)
(*   nodes                   <<source, name>>; the id of an imported node  *)
(*                           starts with the id of its subscription        *)
(*   members, selected, final   the group: its subscriptions, its selected *)
(*                           node, its dns_final                           *)
(*   servers, rules, rulesets   DNS servers, DNS and route rules by id,    *)
(*                           remote rule sets                              *)
(*   tproxy, tun             transparent.Active and tun.Enabled            *)
(***************************************************************************)
EXTENDS Integers, FiniteSets

CONSTANTS
  Subs, RuleSets,        \* ids of subscriptions and rule sets
  Names,                 \* what tells the nodes of one source apart
  Manual,                \* the source of the nodes entered by hand
  Servers,               \* ids of DNS servers
  DNSRules, RouteRules,  \* ids of rules
  None

ASSUME EditConstants ==
  /\ Subs \cap RuleSets = {} /\ Manual \notin Subs
  /\ DNSRules \cap RouteRules = {} /\ None \notin Servers

Sources == Subs \cup RuleSets
Nodes == (Subs \cup {Manual}) \X Names
NodesOf(s) == {s} \X Names
Rules == DNSRules \cup RouteRules

ASSUME NodeConstants == None \notin Nodes

(* A rule matches source addresses or rule sets; a DNS rule has a server.  *)
Bodies == [server : Servers \cup {None}, sources : BOOLEAN, sets : SUBSET RuleSets]

ASSUME BodyConstants == None \notin Bodies

Configs == [enabled : BOOLEAN, paused : BOOLEAN, mode : {"direct", "rule", "global"},
            subs : SUBSET Subs, on : SUBSET Subs,
            fresh : SUBSET Sources, failed : SUBSET Sources,
            nodes : SUBSET Nodes, members : SUBSET Subs, selected : Nodes \cup {None},
            servers : SUBSET Servers, final : Servers \cup {None},
            rules : [Rules -> Bodies \cup {None}], rulesets : SUBSET RuleSets,
            tproxy : BOOLEAN, tun : BOOLEAN]

-----------------------------------------------------------------------------
(* Validate.                                                               *)

(* The group refers to what exists.                                        *)
ValidGroup(c) ==
  /\ c.final \in c.servers \cup {None}
  /\ c.selected \in c.nodes \cup {None}
  /\ c.members \subseteq c.subs

(* So does a rule, and it matches something.                               *)
ValidRule(c, r) ==
  c.rules[r] # None =>
    /\ r \in DNSRules => c.rules[r].server \in c.servers
    /\ c.rules[r].sources \/ c.rules[r].sets # {}
    /\ c.rules[r].sets \subseteq c.rulesets

Valid(c) ==
  /\ ValidGroup(c)
  /\ \A r \in Rules : ValidRule(c, r)
  /\ ~(c.tproxy /\ c.tun)

(* Manager.Active.                                                         *)
Active(c) == c.enabled /\ ~c.paused

(* Due, of subscriptions and of rule sets.                                 *)
Due(c) == (c.on \cup c.rulesets) \ c.fresh

-----------------------------------------------------------------------------
(* Subscriptions and nodes.                                                *)

(* The metadata of a subscription that exists is kept.                     *)
UpsertSubscription(c, s, on, attach) ==
  [c EXCEPT !.subs = @ \cup {s},
            !.on = IF on THEN @ \cup {s} ELSE @ \ {s},
            !.members = IF attach THEN @ \cup {s} ELSE @]

(* The subscription itself need not exist.                                 *)
ReplaceSubscriptionNodes(c, s, nodes) ==
  [c EXCEPT !.nodes = (@ \ NodesOf(s)) \cup nodes,
            !.fresh = @ \cup ({s} \cap c.subs),
            !.failed = @ \ {s}]

MarkSubscriptionError(c, s) == [c EXCEPT !.failed = @ \cup ({s} \cap c.subs)]

(* Defect: the nodes of a deleted subscription stay.                       *)
DeleteSubscriptionOnly(c, s) ==
  [c EXCEPT !.subs = @ \ {s}, !.on = @ \ {s}, !.fresh = @ \ {s}, !.failed = @ \ {s},
            !.members = @ \ {s},
            !.selected = IF @ \in NodesOf(s) \cap c.nodes THEN None ELSE @]

DeleteSubscription(c, s) ==
  [c EXCEPT !.subs = @ \ {s}, !.on = @ \ {s}, !.fresh = @ \ {s}, !.failed = @ \ {s},
            !.nodes = @ \ NodesOf(s),
            !.members = @ \ {s},
            !.selected = IF @ \in NodesOf(s) \cap c.nodes THEN None ELSE @]

UpsertManualNode(c, n) == [c EXCEPT !.nodes = @ \cup {n}]

DeleteManualNode(c, n) ==
  [c EXCEPT !.nodes = @ \ {n}, !.selected = IF @ = n THEN None ELSE @]

SelectNode(c, n) == [c EXCEPT !.selected = n]

SetGroupSettings(c, members, selected, final) ==
  [c EXCEPT !.members = members, !.selected = selected, !.final = final]

(* Only sections that exist get a result, and results are left out.        *)
UpdateHealth(c) == c

-----------------------------------------------------------------------------
(* DNS servers, rules, rule sets.                                          *)

UpsertDNSServer(c, d) == [c EXCEPT !.servers = @ \cup {d}]

(* Defect: the group keeps a deleted server as its default.                *)
DeleteDNSServerAndRules(c, d) ==
  [c EXCEPT !.servers = @ \ {d},
            !.rules = [r \in Rules |->
              IF r \in DNSRules /\ @[r] # None /\ @[r].server = d THEN None ELSE @[r]]]

(* Its DNS rules go with it, and the group's default.                      *)
DeleteDNSServer(c, d) ==
  [c EXCEPT !.servers = @ \ {d},
            !.final = IF @ = d THEN None ELSE @,
            !.rules = [r \in Rules |->
              IF r \in DNSRules /\ @[r] # None /\ @[r].server = d THEN None ELSE @[r]]]

(* UpsertDNSRule, UpsertRouteRule, DeleteDNSRule, DeleteRouteRule.         *)
UpsertRule(c, r, body) == [c EXCEPT !.rules[r] = body]
DeleteRule(c, r) == [c EXCEPT !.rules[r] = None]

UpsertRuleSet(c, g) == [c EXCEPT !.rulesets = @ \cup {g}]

MarkRuleSetUpdated(c, g) ==
  [c EXCEPT !.fresh = @ \cup ({g} \cap c.rulesets), !.failed = @ \ {g}]

MarkRuleSetError(c, g) == [c EXCEPT !.failed = @ \cup ({g} \cap c.rulesets)]

(* A rule without the rule set, or no rule if nothing is left to match.    *)
Without(body, g) ==
  LET sets == body.sets \ {g}
  IN IF body.sources \/ sets # {} THEN [body EXCEPT !.sets = sets] ELSE None

DeleteRuleSet(c, g) ==
  [c EXCEPT !.rulesets = @ \ {g}, !.fresh = @ \ {g}, !.failed = @ \ {g},
            !.rules = [r \in Rules |-> IF @[r] = None THEN None ELSE Without(@[r], g)]]

-----------------------------------------------------------------------------
(* The manager section and the traffic settings.                           *)

SetManagerEnabled(c, b) == [c EXCEPT !.enabled = b]
SetManagerPaused(c, b) == [c EXCEPT !.paused = b]
SetManagerRuntimeMode(c, m) == [c EXCEPT !.mode = m]
UpsertTransparent(c, b) == [c EXCEPT !.tproxy = b]
UpsertTUN(c, b) == [c EXCEPT !.tun = b]

-----------------------------------------------------------------------------
(* Edits as records: what is to be done, to which section, with what.      *)

WellFormed(e) ==
  \/ e.op = "UpsertSubscription" /\ e.id \in Subs /\ {e.on, e.attach} \subseteq BOOLEAN
  \/ e.op = "ReplaceSubscriptionNodes" /\ e.id \in Subs /\ e.nodes \subseteq NodesOf(e.id)
  \/ e.op \in {"DeleteSubscription", "MarkSubscriptionError"} /\ e.id \in Subs
  \/ e.op \in {"UpsertManualNode", "DeleteManualNode", "SelectNode"} /\ e.id \in Nodes
  \/ /\ e.op = "SetGroupSettings" /\ e.id \in Nodes \cup {None}
     /\ e.members \subseteq Subs /\ e.final \in Servers \cup {None}
  \/ e.op \in {"UpsertDNSServer", "DeleteDNSServer"} /\ e.id \in Servers
  \/ e.op = "UpsertRule" /\ e.id \in Rules /\ e.body \in Bodies
  \/ e.op = "DeleteRule" /\ e.id \in Rules
  \/ /\ e.op \in {"UpsertRuleSet", "DeleteRuleSet", "MarkRuleSetUpdated", "MarkRuleSetError"}
     /\ e.id \in RuleSets
  \/ /\ e.op \in {"SetManagerEnabled", "SetManagerPaused", "UpsertTransparent", "UpsertTUN"}
     /\ e.id \in BOOLEAN
  \/ e.op = "SetManagerRuntimeMode" /\ e.id \in {"direct", "rule", "global"}
  \/ e.op = "UpdateHealth"

(* The edit finds what it is about; a node that is imported is not         *)
(* edited by hand.                                                         *)
Found(c, e) ==
  /\ e.op = "DeleteSubscription" => e.id \in c.subs
  /\ e.op = "UpsertManualNode" => e.id[1] = Manual
  /\ e.op = "DeleteManualNode" => e.id[1] = Manual /\ e.id \in c.nodes
  /\ e.op = "DeleteDNSServer" => e.id \in c.servers
  /\ e.op = "DeleteRule" => c.rules[e.id] # None
  /\ e.op = "DeleteRuleSet" => e.id \in c.rulesets

Mutate(c, e) ==
  CASE e.op = "UpsertSubscription" -> UpsertSubscription(c, e.id, e.on, e.attach)
    [] e.op = "ReplaceSubscriptionNodes" -> ReplaceSubscriptionNodes(c, e.id, e.nodes)
    [] e.op = "MarkSubscriptionError" -> MarkSubscriptionError(c, e.id)
    [] e.op = "DeleteSubscription" -> DeleteSubscription(c, e.id)
    [] e.op = "UpsertManualNode" -> UpsertManualNode(c, e.id)
    [] e.op = "DeleteManualNode" -> DeleteManualNode(c, e.id)
    [] e.op = "SelectNode" -> SelectNode(c, e.id)
    [] e.op = "SetGroupSettings" -> SetGroupSettings(c, e.members, e.id, e.final)
    [] e.op = "UpdateHealth" -> UpdateHealth(c)
    [] e.op = "UpsertDNSServer" -> UpsertDNSServer(c, e.id)
    [] e.op = "DeleteDNSServer" -> DeleteDNSServer(c, e.id)
    [] e.op = "UpsertRule" -> UpsertRule(c, e.id, e.body)
    [] e.op = "DeleteRule" -> DeleteRule(c, e.id)
    [] e.op = "UpsertRuleSet" -> UpsertRuleSet(c, e.id)
    [] e.op = "MarkRuleSetUpdated" -> MarkRuleSetUpdated(c, e.id)
    [] e.op = "MarkRuleSetError" -> MarkRuleSetError(c, e.id)
    [] e.op = "DeleteRuleSet" -> DeleteRuleSet(c, e.id)
    [] e.op = "SetManagerEnabled" -> SetManagerEnabled(c, e.id)
    [] e.op = "SetManagerPaused" -> SetManagerPaused(c, e.id)
    [] e.op = "SetManagerRuntimeMode" -> SetManagerRuntimeMode(c, e.id)
    [] e.op = "UpsertTransparent" -> UpsertTransparent(c, e.id)
    [] e.op = "UpsertTUN" -> UpsertTUN(c, e.id)

(* editConfig writes what it made if it found and made something valid.    *)
Accepted(c, e) == Found(c, e) /\ Valid(Mutate(c, e))
=============================================================================
