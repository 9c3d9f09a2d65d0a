-------------------------------- MODULE Health --------------------------------
(***************************************************************************)
(* What becomes of the results of a health check: CheckNode, PingNode and  *)
(* the roll-up of subscriptions and groups in internal/health/health.go,   *)
(* beside the document the renderer makes of the same configuration.       *)
(*                                                                         *)
(* A check looks at one saved configuration, the cfg of Render.  How each  *)
(* node comes by its result is the business of Probe; here every result    *)
(* that a node of the configuration can have is enumerated.                *)
(***************************************************************************)
EXTENDS Render, SequencesExt

CONSTANTS
  DirectNodes,  \* the nodes of type direct
  Delays        \* measured delays, in ms

(* There are finitely many nodes, and no two with the same id.             *)
ASSUME HealthConstants ==
  /\ DirectNodes \subseteq Nodes /\ Delays \subseteq Nat \ {0}
  /\ IsFiniteSet(Nodes) /\ \A m, n \in Nodes : Rank[m] = Rank[n] => m = n

VARIABLE result  \* of the last check: nodes, subscriptions and groups

Outcome(health, ms) == [health |-> health, ms |-> ms]
Absent == Outcome("", 0)

(* CheckNode and PingNode: a direct node is ok without a look at it, what  *)
(* cannot be dialled is an error, the rest is ok or down.                  *)
CheckNode(n) ==
  IF ~cfg.nodes[n].on THEN {Outcome("disabled", 0)}
  ELSE IF n \in DirectNodes THEN {Outcome("ok", 0)}
  ELSE {Outcome("ok", d) : d \in Delays} \cup {Outcome("down", d) : d \in Delays}
         \cup {Outcome("error", 0)}

(* ProbeNodes: a node is ok only with a delay, measured through what the   *)
(* renderer made of it.                                                    *)
ProbeNode(n) ==
  IF ~cfg.nodes[n].on THEN {Outcome("disabled", 0)}
  ELSE IF ~cfg.nodes[n].renders THEN {Outcome("error", 0)}
  ELSE {Outcome("ok", d) : d \in Delays} \cup {Outcome("down", 0), Outcome("error", 0)}

Configured == {n \in Nodes : cfg.nodes[n] # None}

NodeResults(look(_)) ==
  {r \in [Nodes -> UNION {look(n) : n \in Configured} \cup {Absent}] :
     \A n \in Nodes : r[n] \in IF n \in Configured THEN look(n) ELSE {Absent}}

-----------------------------------------------------------------------------
SubscriptionNodes(s) == {n \in Configured : cfg.nodes[n].from = s}

InIdOrder(S) ==
  CHOOSE q \in [1 .. Cardinality(S) -> S] :
    \A i, j \in DOMAIN q : i < j => Rank[q[i]] < Rank[q[j]]

(* Defect: the first good node decides, the counters are not looked at.    *)
CountOnlyBest(acc, o) ==
  CASE o.health = "ok" -> [acc EXCEPT !.best = o.ms]
    [] o.health = "disabled" -> [acc EXCEPT !.disabled = @ + 1]
    [] OTHER -> [acc EXCEPT !.down = @ + 1]

(* One round of the loop of aggregateHealth.                               *)
Count(acc, o) ==
  CASE o.health = "ok" ->
         IF acc.best = 0 \/ (o.ms > 0 /\ o.ms < acc.best) THEN [acc EXCEPT !.best = o.ms] ELSE acc
    [] o.health = "disabled" -> [acc EXCEPT !.disabled = @ + 1]
    [] OTHER -> [acc EXCEPT !.down = @ + 1]

HasDirectOK(S, r) == \E n \in S : n \in DirectNodes /\ r[n].health = "ok"

AggregateHealth(S, r) ==
  LET outcomes == [i \in DOMAIN InIdOrder(S) |-> r[InIdOrder(S)[i]]]
      acc == FoldLeft(Count, [best |-> 0, down |-> 0, disabled |-> 0], outcomes)
  IN CASE S = {} -> Outcome("empty", 0)
       [] S # {} /\ (acc.best > 0 \/ HasDirectOK(S, r)) ->
            Outcome(IF acc.down > 0 THEN "degraded" ELSE "ok", acc.best)
       [] S # {} /\ acc.best = 0 /\ ~HasDirectOK(S, r) ->
            Outcome(IF acc.disabled = Len(outcomes) THEN "disabled" ELSE "down", 0)

(* Defect: the subscriptions of the group are not looked at.               *)
MembersOfAny == {n \in Configured : cfg.nodes[n].on}

(* groupNodes of health.go; the renderer has a copy of its own.            *)
GroupMembers ==
  {n \in Configured : /\ cfg.nodes[n].on
                      /\ cfg.nodes[n].from = None \/ cfg.members = {} \/ cfg.nodes[n].from \in cfg.members}

(* checkSubscriptions and checkGroups (a subscription is enabled here; one *)
(* that is not, like a group that is not, is reported as disabled).        *)
Aggregate(r) ==
  [nodes |-> r,
   subs |-> [s \in Subs |-> AggregateHealth(SubscriptionNodes(s), r)],
   group |-> IF cfg.group THEN AggregateHealth(GroupMembers, r) ELSE Outcome("disabled", 0)]

(* Check and CheckURL.                                                     *)
Check ==
  /\ \/ \E r \in NodeResults(CheckNode) : result' = Aggregate(r)
     \/ \E r \in NodeResults(ProbeNode) : result' = Aggregate(r)
  /\ UNCHANGED vars

HealthInit == Init /\ result = None

HealthNext ==
  \/ Next /\ UNCHANGED result
  \/ Check

HealthSpec == HealthInit /\ [][HealthNext]_<<vars, result>>

-----------------------------------------------------------------------------
(* What a roll-up promises, whatever the order of the loop: "ok" if all    *)
(* that counts is ok, "degraded" if only some of it is, "down" if none of  *)
(* it is, and the best delay that was measured.                            *)
Speaks(o, S, r) ==
  LET good == {n \in S : r[n].health = "ok"}
      idle == {n \in S : r[n].health = "disabled"}
      delays == {r[n].ms : n \in good} \ {0}
  IN /\ o.health = CASE S = {} -> "empty"
                     [] S # {} /\ idle = S -> "disabled"
                     [] good = {} /\ idle # S -> "down"
                     [] good # {} /\ good \cup idle = S -> "ok"
                     [] good # {} /\ good \cup idle # S -> "degraded"
     /\ IF delays = {} THEN o.ms = 0 ELSE o.ms \in delays /\ \A d \in delays : o.ms <= d

(* The health of every subscription and of the group is the one its nodes  *)
(* have: the counters of aggregateHealth and the special case of direct    *)
(* nodes agree with it for every mixture of results.                       *)
RollUpIsRight ==
  result # None =>
    /\ \A s \in Subs : Speaks(result.subs[s], SubscriptionNodes(s), result.nodes)
    /\ cfg.group => Speaks(result.group, GroupMembers, result.nodes)

(* The health of a group speaks of what it serves: under an automatic      *)
(* strategy a group is reported healthy or degraded, with the results of a *)
(* through-the-proxy check, only if the proxy outbound of the document     *)
(* generated from this configuration offers a node that was found ok.      *)
HealthyGroupServes ==
  /\ result # None /\ doc # None /\ cfg.group /\ cfg.strategy # "manual"
  /\ result.group.health \in {"ok", "degraded"}
  /\ \A n \in Configured : result.nodes[n] \in ProbeNode(n)
  => \E n \in Nodes : result.nodes[n].health = "ok" /\ TagOf(cfg, n) \in doc.proxy.of
=============================================================================
