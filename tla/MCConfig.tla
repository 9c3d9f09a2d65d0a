------------------------------ MODULE MCConfig ------------------------------
(* Instances of ConfigStore and Refresh: two subscriptions, one of them    *)
(* selected from and out of reach, and a small file of everything that     *)
(* refers to something else.                                               *)
EXTENDS Refresh

CONSTANTS h1, s1, s2, g1, n1, d1, dr, rr

Up == {s2} \cup RuleSets
OneHandler == {h1}
TwoSubs == {s1, s2}
OneRuleSet == {g1}
OneName == {n1}
OneServer == {d1}
OneDNSRule == {dr}
OneRouteRule == {rr}
Answers == {{}, {n1}}

Rule(server, sources, sets) == [server |-> server, sources |-> sources, sets |-> sets]

(* What the users keep in the file that the other edits can break.         *)
RuleTables == {
  [r \in Rules |-> IF r = dr THEN Rule(d1, FALSE, {g1}) ELSE Rule(None, TRUE, {g1})],
  [r \in Rules |-> IF r = dr THEN Rule(d1, TRUE, {}) ELSE Rule(None, FALSE, {g1})]}

File(selected, rules) ==
  [enabled |-> TRUE, paused |-> FALSE, mode |-> "rule",
   subs |-> {s1, s2}, on |-> {s1, s2}, fresh |-> {s1, s2, g1}, failed |-> {},
   nodes |-> {<<s1, n1>>, <<Manual, n1>>}, members |-> {s1}, selected |-> selected,
   servers |-> {d1}, final |-> d1, rules |-> rules, rulesets |-> {g1},
   tproxy |-> TRUE, tun |-> FALSE]

NoRules == [r \in Rules |-> None]
Files == {File(<<s1, n1>>, rules) : rules \in RuleTables}
OneFile == {File(<<s1, n1>>, NoRules)}

(* Much from outside, or a long time without anything.                     *)
Budget(events, ticks) == [events |-> events, ticks |-> ticks]
Bounds == {Budget(1, 1), Budget(0, 3)}
StopAndRefresh == {Budget(2, 1)}

(* What the users ask for, besides imports, selections and refreshes.      *)
Requests ==
  {[op |-> "DeleteSubscription", id |-> s1],
   [op |-> "DeleteManualNode", id |-> <<Manual, n1>>],
   [op |-> "DeleteDNSServer", id |-> d1], [op |-> "DeleteRuleSet", id |-> g1],
   [op |-> "DeleteRule", id |-> rr],
   [op |-> "SetManagerPaused", id |-> TRUE], [op |-> "UpsertTUN", id |-> TRUE],
   [op |-> "UpsertTransparent", id |-> FALSE],
   [op |-> "UpsertRule", id |-> dr, body |-> Rule(d1, FALSE, {g1})],
   [op |-> "SetGroupSettings", id |-> <<Manual, n1>>, members |-> {s1, s2}, final |-> d1]}

Stopping == {[op |-> "SetManagerPaused", id |-> TRUE]}
=============================================================================
