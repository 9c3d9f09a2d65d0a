------------------------------- MODULE Refresh -------------------------------
(***************************************************************************)
(* The schedulers of ConfigStore in the long run: that subscriptions and   *)
(* rule sets are brought up to date while the manager is active, whatever  *)
(* becomes of the other sources.                                           *)
(***************************************************************************)
EXTENDS ConfigStore

CONSTANT Reachable  \* the sources whose server answers sooner or later

ASSUME ReachableConstant == Reachable \subseteq Sources

(* A goroutine that has work goes on with it, and a timer that is due      *)
(* fires.                                                                  *)
Work(t) == Tracked(t) /\ Step(t)
Tick(t) == Tracked(t) /\ Scheduled(t)

(* Nobody promises that a server answers; a reachable one does not fail    *)
(* every time it is asked.                                                 *)
Answer(t, s) == Tracked(t) /\ Fetched(t) /\ job[t].id = s

Fairness ==
  /\ \A t \in Threads : WF_vars(Work(t))
  /\ \A t \in {Updater, RuleUpdater} :
       /\ WF_vars(Tick(t))
       /\ \A s \in Reachable : SF_vars(Answer(t, s))

RefreshSpec == Spec /\ Fairness

-----------------------------------------------------------------------------
(* No source starves: one that can be had, of a manager that stays active, *)
(* becomes fresh again and again, although others fail on every tick (the  *)
(* loops go on after an error) and users edit the file meanwhile; but for  *)
(* the source of the selected node, whose new nodes validation refuses as  *)
(* long as its provider has dropped that one.                              *)
Scheduling(s) == Active(store) /\ s \in store.on \cup store.rulesets
NobodyStarves ==
  \A s \in Reachable :
    <>[]Scheduling(s) => []<>(s \in store.fresh \/ store.selected \in NodesOf(s))
=============================================================================
