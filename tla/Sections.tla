------------------------------- MODULE Sections -------------------------------
(***************************************************************************)
(* The configuration file as the list of sections it is, how it is read    *)
(* (applySections, config/parser.go) and how the edits of config/edit.go   *)
(* go through it.  ConfigEdits has the same edits on the configuration.    *)
(*                                                                         *)
(* A section has a type, a name and the options that ConfigEdits knows of: *)
(*   manager       enabled, paused, mode                                   *)
(*   group         selected, final, members (the list "subscription")      *)
(*   subscription  on, updated (last_update), error (has a last_error)     *)
(*   node          from (its subscription, None for a manual one)          *)
(*   dns_server                                                            *)
(*   dns_rule, route_rule   server, sources, sets (the list "ruleset")     *)
(*   ruleset       id, updated, error                                      *)
(*   transparent, tun       on                                             *)
(* An option that is missing is None, "" or FALSE.  The name of an         *)
(* imported node starts with that of its subscription.                     *)
(***************************************************************************)
EXTENDS Integers, FiniteSets, SequencesExt

CONSTANTS
  Subs, RuleSets, Names, Manual, Servers, DNSRules, RouteRules, None,
  Requests,
  SectionName,  \* sectionNameFromID, of the ids of rule sets
  Initial,      \* the files there may be
  MaxEdits

VARIABLES
  file,   \* the sections, in order
  asked,  \* the edit that was asked for last
  left    \* the edits that the bound MaxEdits leaves


-----------------------------------------------------------------------------
(* Reading.                                                                *)

Typed(f, typ) == {i \in DOMAIN f : f[i].typ = typ}

(* A rule set without an id has the name of its section as its id.         *)
Id(sec) == IF sec.typ = "ruleset" /\ sec.id # None THEN sec.id ELSE sec.name
Ids(f, typ) == {Id(f[i]) : i \in Typed(f, typ)}

(* The sections are put into maps by their ids: the last one counts.       *)
LastOf(f, typ, id) ==
  f[CHOOSE i \in Typed(f, typ) :
      Id(f[i]) = id /\ \A j \in Typed(f, typ) : Id(f[j]) = id => j <= i]

(* There is one transparent and one tun section, by either of two names.   *)
Enabled(f, typ) ==
  \E i \in Typed(f, typ) : f[i].on /\ \A j \in Typed(f, typ) : j <= i

RuleType(r) == IF r \in DNSRules THEN "dns_rule" ELSE "route_rule"

ReadRule(sec) == [server |-> sec.server, sources |-> sec.sources, sets |-> ToSet(sec.sets)]

ReadNode(sec) == <<IF sec.from = None THEN Manual ELSE sec.from, sec.name[2]>>

(* applySections, of a file with the sections manager and group that the   *)
(* package brings.                                                         *)
Read(f) ==
  LET manager == LastOf(f, "manager", "main")
      group == LastOf(f, "group", "home")
      Sub(s) == LastOf(f, "subscription", s)
      Set(g) == LastOf(f, "ruleset", g)
      subs == Ids(f, "subscription")
      sets == Ids(f, "ruleset")
  IN [enabled |-> manager.enabled, paused |-> manager.paused, mode |-> manager.mode,
      subs |-> subs, on |-> {s \in subs : Sub(s).on},
      fresh |-> {s \in subs : Sub(s).updated = "now"} \cup {g \in sets : Set(g).updated = "now"},
      failed |-> {s \in subs : Sub(s).error} \cup {g \in sets : Set(g).error},
      nodes |-> {ReadNode(LastOf(f, "node", n)) : n \in Ids(f, "node")},
      members |-> ToSet(group.members), selected |-> group.selected, final |-> group.final,
      servers |-> Ids(f, "dns_server"),
      rules |-> [r \in DNSRules \cup RouteRules |->
                   IF r \in Ids(f, RuleType(r)) THEN ReadRule(LastOf(f, RuleType(r), r)) ELSE None],
      rulesets |-> sets,
      tproxy |-> Enabled(f, "transparent"), tun |-> Enabled(f, "tun")]

(* applySections refuses a second manager section and a second group of    *)
(* the same name, nothing else that is there twice.                        *)
Loads(f) ==
  /\ Cardinality(Typed(f, "manager")) = 1
  /\ \A i, j \in Typed(f, "group") : f[i].name = f[j].name => i = j

(* The configuration that the file stands for.                             *)
Abstract == INSTANCE EditedConfig WITH store <- Read(file)

-----------------------------------------------------------------------------
(* The files the edits are made for.                                       *)

NodeSection(n) ==
  [typ |-> "node", name |-> n, from |-> IF n[1] = Manual THEN None ELSE n[1]]

Dates == {"", "old", "now"}

Managers == [typ : {"manager"}, name : {"main"},
             enabled : BOOLEAN, paused : BOOLEAN, mode : {"direct", "rule", "global"}]
Groups == [typ : {"group"}, name : {"home"}, selected : Abstract!Nodes \cup {None},
           final : Servers \cup {None}, members : Seq(Subs)]
SubscriptionSections ==
  [typ : {"subscription"}, name : Subs, on : BOOLEAN, updated : Dates, error : BOOLEAN]
NodeSections == {NodeSection(n) : n \in Abstract!Nodes}
ServerSections == [typ : {"dns_server"}, name : Servers]
RuleSections ==
  {sec \in [typ : {"dns_rule", "route_rule"}, name : DNSRules \cup RouteRules,
            server : Servers \cup {None}, sources : BOOLEAN, sets : Seq(RuleSets)] :
     sec.typ = RuleType(sec.name)}
RuleSetSections ==
  {sec \in [typ : {"ruleset"}, name : RuleSets \cup {SectionName[g] : g \in RuleSets},
            id : RuleSets \cup {None}, updated : Dates, error : BOOLEAN] :
     {sec.name, sec.id} \cap RuleSets = {Id(sec)}}
Switches == [typ : {"transparent", "tun"}, name : {"main", "transparent", "tun"}, on : BOOLEAN]

IsSection(sec) ==
  \/ sec \in Managers \/ sec \in Groups \/ sec \in SubscriptionSections
  \/ sec \in NodeSections \/ sec \in ServerSections
  \/ sec \in RuleSections \/ sec \in RuleSetSections \/ sec \in Switches

(* Two sections that would be read as one.                                 *)
Alike(a, b) == a.typ = b.typ /\ (a.typ \in {"transparent", "tun"} \/ Id(a) = Id(b))

(* The singletons are there, and sections of one type have ids of their    *)
(* own.  The code asks for neither.                                        *)
Tidy(f) ==
  /\ f \in Seq(ToSet(f))
  /\ \A i \in DOMAIN f : IsSection(f[i])
  /\ \A i, j \in DOMAIN f : Alike(f[i], f[j]) => i = j
  /\ \A typ \in {"manager", "group"} : Typed(f, typ) # {}

(* No section name is made of the id of one rule set that is the id of     *)
(* another.                                                                *)
ASSUME SectionConstants ==
  /\ Subs \cap RuleSets = {} /\ Manual \notin Subs /\ DNSRules \cap RouteRules = {}
  /\ None \notin Subs \cup RuleSets \cup Servers \cup Abstract!Nodes \cup Abstract!Bodies
  /\ IsFiniteSet(Subs) /\ IsFiniteSet(RuleSets) /\ IsFiniteSet(Names)
  /\ \A g \in RuleSets : SectionName[g] \in RuleSets => SectionName[g] = g
  /\ \A e \in Requests : Abstract!WellFormed(e) /\ e.op # "UpdateHealth"
  /\ \A f \in Initial : Tidy(f) /\ Abstract!Valid(Read(f))

-----------------------------------------------------------------------------
(* What the edits are made of.                                             *)

(* The first section that passes the test is replaced.                     *)
Upsert(f, Test(_), sec) ==
  LET i == SelectInSeq(f, Test) IN IF i = 0 THEN Append(f, sec) ELSE ReplaceAt(f, i, sec)

(* Sections are changed where they are, or left out.                       *)
Change(f, Test(_), Change1(_)) == [i \in DOMAIN f |-> IF Test(f[i]) THEN Change1(f[i]) ELSE f[i]]
Kept(s, I) == [k \in 1 .. Cardinality(I) |->
                 s[CHOOSE i \in I : Cardinality({j \in I : j <= i}) = k]]
Drop(s, Test(_)) == Kept(s, {i \in DOMAIN s : ~Test(s[i])})

Is(sec, typ, name) == sec.typ = typ /\ sec.name = name

(* By that, or by its id.                                                  *)
IsRuleSetSection(sec, g) == sec.typ = "ruleset" /\ g \in {sec.name, sec.id}

ImportedFrom(sec, s) == sec.typ = "node" /\ sec.from = s

RuleSection(r, body) ==
  [typ |-> RuleType(r), name |-> r,
   server |-> body.server, sources |-> body.sources, sets |-> SetToSeq(body.sets)]

-----------------------------------------------------------------------------
(* Subscriptions and nodes.                                                *)

(* The dates and the error of a subscription that exists are kept.         *)
UpsertSubscription(f, s, on, attach) ==
  LET Test(sec) == Is(sec, "subscription", s)
      i == SelectInSeq(f, Test)
      sec == [typ |-> "subscription", name |-> s, on |-> on,
              updated |-> IF i = 0 THEN "" ELSE f[i].updated,
              error |-> i # 0 /\ f[i].error]
      Attach(group) == [group EXCEPT !.members = IF Contains(@, s) THEN @ ELSE Append(@, s)]
  IN Change(Upsert(f, Test, sec), LAMBDA g : attach /\ Is(g, "group", "home"), Attach)

(* Defect: the nodes of before stay.                                       *)
AddSubscriptionNodes(f, s, nodes) ==
  Change(f, LAMBDA sec : Is(sec, "subscription", s),
            LAMBDA sec : [sec EXCEPT !.updated = "now", !.error = FALSE])
    \o SetToSeq({NodeSection(n) : n \in nodes})

ReplaceSubscriptionNodes(f, s, nodes) ==
  Change(Drop(f, LAMBDA sec : ImportedFrom(sec, s)),
         LAMBDA sec : Is(sec, "subscription", s),
         LAMBDA sec : [sec EXCEPT !.updated = "now", !.error = FALSE])
    \o SetToSeq({NodeSection(n) : n \in nodes})

MarkSubscriptionError(f, s) ==
  Change(f, LAMBDA sec : Is(sec, "subscription", s), LAMBDA sec : [sec EXCEPT !.error = TRUE])

DeleteSubscription(f, s) ==
  LET deleted == {f[i].name : i \in {j \in DOMAIN f : ImportedFrom(f[j], s)}}
      Detach(group) ==
        [group EXCEPT !.members = Drop(@, LAMBDA m : m = s),
                      !.selected = IF @ \in deleted THEN None ELSE @]
  IN Change(Drop(f, LAMBDA sec : Is(sec, "subscription", s) \/ ImportedFrom(sec, s)),
            LAMBDA sec : sec.typ = "group", Detach)

UpsertManualNode(f, n) == Upsert(f, LAMBDA sec : Is(sec, "node", n), NodeSection(n))

DeleteManualNode(f, n) ==
  Change(Drop(f, LAMBDA sec : Is(sec, "node", n)),
         LAMBDA sec : sec.typ = "group" /\ sec.selected = n,
         LAMBDA sec : [sec EXCEPT !.selected = None])

ChangeGroup(f, With(_)) == Change(f, LAMBDA sec : Is(sec, "group", "home"), With)

SelectNode(f, n) == ChangeGroup(f, LAMBDA sec : [sec EXCEPT !.selected = n])

SetGroupSettings(f, members, selected, final) ==
  ChangeGroup(f, LAMBDA sec :
    [sec EXCEPT !.members = SetToSeq(members), !.selected = selected, !.final = final])

-----------------------------------------------------------------------------
(* DNS servers, rules, rule sets.                                          *)

UpsertDNSServer(f, d) ==
  Upsert(f, LAMBDA sec : Is(sec, "dns_server", d), [typ |-> "dns_server", name |-> d])

DeleteDNSServer(f, d) ==
  Change(Drop(f, LAMBDA sec : \/ Is(sec, "dns_server", d)
                              \/ sec.typ = "dns_rule" /\ sec.server = d),
         LAMBDA sec : sec.typ = "group" /\ sec.final = d,
         LAMBDA sec : [sec EXCEPT !.final = None])

UpsertRule(f, r, body) ==
  Upsert(f, LAMBDA sec : Is(sec, RuleType(r), r), RuleSection(r, body))

DeleteRule(f, r) == Drop(f, LAMBDA sec : Is(sec, RuleType(r), r))

(* A rule set that is edited keeps its section, with the id in it.         *)
UpsertRuleSet(f, g) ==
  LET Test(sec) == IsRuleSetSection(sec, g)
      i == SelectInSeq(f, Test)
  IN Upsert(f, Test,
       [typ |-> "ruleset", name |-> IF i = 0 THEN SectionName[g] ELSE f[i].name, id |-> g,
        updated |-> IF i = 0 THEN "" ELSE f[i].updated,
        error |-> i # 0 /\ f[i].error])

MarkRuleSetUpdated(f, g) ==
  Change(f, LAMBDA sec : IsRuleSetSection(sec, g),
            LAMBDA sec : [sec EXCEPT !.updated = "now", !.error = FALSE])

MarkRuleSetError(f, g) ==
  Change(f, LAMBDA sec : IsRuleSetSection(sec, g), LAMBDA sec : [sec EXCEPT !.error = TRUE])

(* Rules lose the rule set, and go when they have nothing left to match.   *)
DeleteRuleSet(f, g) ==
  LET IsRule(sec) == sec.typ \in {"dns_rule", "route_rule"}
      Without(sec) == [sec EXCEPT !.sets = Drop(@, LAMBDA h : h = g)]
      rest == Change(Drop(f, LAMBDA sec : IsRuleSetSection(sec, g)), IsRule, Without)
  IN Drop(rest, LAMBDA sec : IsRule(sec) /\ ~sec.sources /\ sec.sets = << >>)

-----------------------------------------------------------------------------
(* The manager section and the traffic settings.                           *)

ChangeManager(f, With(_)) == Change(f, LAMBDA sec : Is(sec, "manager", "main"), With)

SetManagerEnabled(f, b) == ChangeManager(f, LAMBDA sec : [sec EXCEPT !.enabled = b])
SetManagerPaused(f, b) == ChangeManager(f, LAMBDA sec : [sec EXCEPT !.paused = b])
SetManagerRuntimeMode(f, m) == ChangeManager(f, LAMBDA sec : [sec EXCEPT !.mode = m])

UpsertTransparent(f, b) ==
  Append(Drop(f, LAMBDA sec : sec.typ = "transparent"),
         [typ |-> "transparent", name |-> "transparent", on |-> b])

(* The section keeps its name.                                             *)
UpsertTUN(f, b) ==
  LET Test(sec) == sec.typ = "tun"
      i == SelectInSeq(f, Test)
  IN Upsert(f, Test, [typ |-> "tun", name |-> IF i = 0 THEN "tun" ELSE f[i].name, on |-> b])

-----------------------------------------------------------------------------
(* The edits look for what they are about, and return an error without it. *)
Finds(f, e) ==
  LET Some(typ) == \E i \in DOMAIN f : Is(f[i], typ, e.id)
  IN /\ e.op = "DeleteSubscription" => Some("subscription")
     /\ e.op = "UpsertManualNode" =>
          e.id[1] = Manual /\ \A i \in DOMAIN f : Is(f[i], "node", e.id) => f[i].from = None
     /\ e.op = "DeleteManualNode" =>
          Some("node") /\ \A i \in DOMAIN f : Is(f[i], "node", e.id) => f[i].from = None
     /\ e.op = "DeleteDNSServer" => Some("dns_server")
     /\ e.op = "DeleteRule" => Some(RuleType(e.id))
     /\ e.op = "DeleteRuleSet" => \E i \in DOMAIN f : IsRuleSetSection(f[i], e.id)

Mutate(f, e) ==
  CASE e.op = "UpsertSubscription" -> UpsertSubscription(f, e.id, e.on, e.attach)
    [] e.op = "ReplaceSubscriptionNodes" -> ReplaceSubscriptionNodes(f, e.id, e.nodes)
    [] e.op = "MarkSubscriptionError" -> MarkSubscriptionError(f, e.id)
    [] e.op = "DeleteSubscription" -> DeleteSubscription(f, e.id)
    [] e.op = "UpsertManualNode" -> UpsertManualNode(f, e.id)
    [] e.op = "DeleteManualNode" -> DeleteManualNode(f, e.id)
    [] e.op = "SelectNode" -> SelectNode(f, e.id)
    [] e.op = "SetGroupSettings" -> SetGroupSettings(f, e.members, e.id, e.final)
    [] e.op = "UpsertDNSServer" -> UpsertDNSServer(f, e.id)
    [] e.op = "DeleteDNSServer" -> DeleteDNSServer(f, e.id)
    [] e.op = "UpsertRule" -> UpsertRule(f, e.id, e.body)
    [] e.op = "DeleteRule" -> DeleteRule(f, e.id)
    [] e.op = "UpsertRuleSet" -> UpsertRuleSet(f, e.id)
    [] e.op = "MarkRuleSetUpdated" -> MarkRuleSetUpdated(f, e.id)
    [] e.op = "MarkRuleSetError" -> MarkRuleSetError(f, e.id)
    [] e.op = "DeleteRuleSet" -> DeleteRuleSet(f, e.id)
    [] e.op = "SetManagerEnabled" -> SetManagerEnabled(f, e.id)
    [] e.op = "SetManagerPaused" -> SetManagerPaused(f, e.id)
    [] e.op = "SetManagerRuntimeMode" -> SetManagerRuntimeMode(f, e.id)
    [] e.op = "UpsertTransparent" -> UpsertTransparent(f, e.id)
    [] e.op = "UpsertTUN" -> UpsertTUN(f, e.id)

(* editConfig: what comes out is read and validated before it is written.  *)
Edit(e) ==
  LET next == Mutate(file, e) IN
  /\ left > 0 /\ left' = left - 1
  /\ asked' = e
  /\ file' = IF Finds(file, e) /\ Loads(next) /\ Abstract!Valid(Read(next))
             THEN next ELSE file

Init == file \in Initial /\ asked = None /\ left = MaxEdits

Next == \E e \in Requests : Edit(e)

Spec == Init /\ [][Next]_<<file, asked, left>>

-----------------------------------------------------------------------------
(* Properties.                                                             *)

(* Wherever the sections stand and whatever they are called, each edit     *)
(* does to the configuration what ConfigEdits says, or is refused when     *)
(* ConfigEdits says so.                                                    *)
ImplementsEdits == Abstract!Spec
=============================================================================
