-------------------------------- MODULE Routes --------------------------------
(***************************************************************************)
(* The policy routing under the transparent proxy: applyTProxyRoutes,      *)
(* cleanupTProxyRoutes and deleteTProxyPolicyRules of                      *)
(* internal/runtime/runtime.go, one step for each ip command.              *)
(*                                                                         *)
(* Runtime takes the routes as one Boolean that a single step sets.  Here  *)
(* two goroutines may run their commands in any order, a command may fail, *)
(* the daemon may crash between two of them, and a kernel may accept a     *)
(* second copy of the fwmark rule or answer "File exists".                 *)
(***************************************************************************)
EXTENDS Naturals, Sequences, FiniteSets

CONSTANTS
  Goroutines,     \* goroutines that apply or clean up
  MaxDeletes   \* maxTProxyPolicyRuleDeletes

ASSUME RoutesConstants ==
  /\ IsFiniteSet(Goroutines)
  /\ MaxDeletes \in Nat \ {0}

Families == {"-4", "-6"}

(* Defect: the rules are added without deleting what is there.             *)
ApplyOnTop ==
  << <<"route add", "-4">>, <<"route add", "-6">>, <<"rule add", "-4">>, <<"rule add", "-6">> >>

(* The commands of the two operations, in order.  "rule del" is repeated   *)
(* until there is none left.                                               *)
Apply ==
  << <<"route add", "-4">>, <<"route add", "-6">>,
     <<"rule del", "-4">>, <<"rule add", "-4">>,
     <<"rule del", "-6">>, <<"rule add", "-6">> >>

Cleanup ==
  << <<"rule del", "-4">>, <<"rule del", "-6">>,
     <<"route del", "-4">>, <<"route del", "-6">> >>

Programs == {Apply, Cleanup}

VARIABLES
  route,    \* per family, the local route of table 100 exists
  rules,    \* per family, how many copies of the fwmark rule exist
  job,      \* the operation of each goroutine, <<>> when it has none
  at,       \* the command each goroutine is at
  tries,    \* deletions that the running loop has done
  alone,    \* history: nothing else has run since the operation began
  result    \* how the last operation of each goroutine ended

routeVars == <<route, rules, job, at, tries, alone, result>>

Busy == {t \in Goroutines : job[t] # <<>>}

(* The command goroutine t is at.                                          *)
At(t, cmd, f) == t \in Busy /\ job[t][at[t]] = <<cmd, f>>

-----------------------------------------------------------------------------
Begin(t, p) ==
  /\ t \notin Busy
  /\ job' = [job EXCEPT ![t] = p]
  /\ at' = [at EXCEPT ![t] = 1]
  /\ tries' = [tries EXCEPT ![t] = 0]
  /\ alone' = [u \in Goroutines |-> IF u = t THEN Busy = {} ELSE alone[u] /\ u \notin Busy]
  /\ UNCHANGED <<route, rules, result>>

End(t, outcome) ==
  /\ job' = [job EXCEPT ![t] = <<>>]
  /\ at' = [at EXCEPT ![t] = 0]
  /\ tries' = [tries EXCEPT ![t] = 0]
  /\ result' = [result EXCEPT ![t] = outcome]
  /\ UNCHANGED alone

Proceed(t) ==
  \/ at[t] = Len(job[t]) /\ End(t, "ok")
  \/ /\ at[t] < Len(job[t])
     /\ at' = [at EXCEPT ![t] = @ + 1]
     /\ tries' = [tries EXCEPT ![t] = 0]
     /\ UNCHANGED <<job, alone, result>>

(* ip route add, where "File exists" is no error, and ip route del, where  *)
(* a missing route is none.                                                *)
AddRoute(t, f) ==
  /\ At(t, "route add", f)
  /\ route' = [route EXCEPT ![f] = TRUE]
  /\ Proceed(t)
  /\ UNCHANGED rules

DeleteRoute(t, f) ==
  /\ At(t, "route del", f)
  /\ route' = [route EXCEPT ![f] = FALSE]
  /\ Proceed(t)
  /\ UNCHANGED rules

(* Defect: one deletion, as if the rule could only be there once.          *)
DeleteOneRule(t, f) ==
  /\ At(t, "rule del", f)
  /\ rules' = [rules EXCEPT ![f] = IF @ = 0 THEN 0 ELSE @ - 1]
  /\ Proceed(t)
  /\ UNCHANGED route

(* Defect: the loop gives up one round early.                              *)
DeleteRuleEarly(t, f) ==
  /\ At(t, "rule del", f)
  /\ \/ rules[f] = 0 /\ Proceed(t) /\ UNCHANGED rules
     \/ /\ rules[f] > 0
        /\ rules' = [rules EXCEPT ![f] = @ - 1]
        /\ \/ /\ tries[t] + 2 < MaxDeletes
              /\ tries' = [tries EXCEPT ![t] = @ + 1]
              /\ UNCHANGED <<job, at, alone, result>>
           \/ tries[t] + 2 >= MaxDeletes /\ End(t, "too many")
  /\ UNCHANGED route

(* One round of deleteTProxyPolicyRules: the loop ends when the rule is    *)
(* missing, or with an error after MaxDeletes deletions.                   *)
DeleteRule(t, f) ==
  /\ At(t, "rule del", f)
  /\ \/ rules[f] = 0 /\ Proceed(t) /\ UNCHANGED rules
     \/ /\ rules[f] > 0
        /\ rules' = [rules EXCEPT ![f] = @ - 1]
        /\ \/ /\ tries[t] + 1 < MaxDeletes
              /\ tries' = [tries EXCEPT ![t] = @ + 1]
              /\ UNCHANGED <<job, at, alone, result>>
           \/ tries[t] + 1 = MaxDeletes /\ End(t, "too many")
  /\ UNCHANGED route

(* ip rule add: a kernel that finds the rule there adds another copy or    *)
(* refuses it.                                                             *)
AddRule(t, f) ==
  /\ At(t, "rule add", f)
  /\ \/ rules' = [rules EXCEPT ![f] = @ + 1]
     \/ rules[f] > 0 /\ UNCHANGED rules
  /\ Proceed(t)
  /\ UNCHANGED route

(* A command fails for another reason, and the operation gives up.         *)
Fail(t) ==
  /\ t \in Busy
  /\ End(t, "failed")
  /\ UNCHANGED <<route, rules>>

(* The daemon dies; what is in the kernel stays.                           *)
RouteCrash ==
  /\ Busy # {}
  /\ job' = [t \in Goroutines |-> <<>>]
  /\ at' = [t \in Goroutines |-> 0]
  /\ tries' = [t \in Goroutines |-> 0]
  /\ result' = [t \in Goroutines |-> IF t \in Busy THEN "cut off" ELSE result[t]]
  /\ UNCHANGED <<route, rules, alone>>

-----------------------------------------------------------------------------
RouteInit ==
  /\ route = [f \in Families |-> FALSE]
  /\ rules = [f \in Families |-> 0]
  /\ job = [t \in Goroutines |-> <<>>]
  /\ at = [t \in Goroutines |-> 0]
  /\ tries = [t \in Goroutines |-> 0]
  /\ alone = [t \in Goroutines |-> FALSE]
  /\ result = [t \in Goroutines |-> "ok"]

Command(t, f) == AddRoute(t, f) \/ DeleteRoute(t, f) \/ DeleteRule(t, f) \/ AddRule(t, f)

RouteNext ==
  \/ \E t \in Goroutines, p \in Programs : Begin(t, p)
  \/ \E t \in Goroutines, f \in Families : Command(t, f)
  \/ \E t \in Goroutines : Fail(t)
  \/ RouteCrash

RouteSpec == RouteInit /\ [][RouteNext]_routeVars

-----------------------------------------------------------------------------
RouteTypeOK ==
  /\ route \in [Families -> BOOLEAN]
  /\ rules \in [Families -> Nat]
  /\ job \in [Goroutines -> Programs \cup {<<>>}]
  /\ at \in [Goroutines -> 0..6]
  /\ \A t \in Goroutines : IF t \in Busy THEN at[t] \in 1..Len(job[t]) ELSE at[t] = 0
  /\ tries \in [Goroutines -> 0..(MaxDeletes - 1)]
  /\ alone \in [Goroutines -> BOOLEAN]
  /\ result \in [Goroutines -> {"ok", "failed", "too many", "cut off"}]

(* The goroutines about to add a rule.                                     *)
Adders(f) == {t \in Goroutines : At(t, "rule add", f)}

(* Copies of the rule never pile up: there are at most as many as there    *)
(* are goroutines at it, however often they run, fail, overlap or are cut  *)
(* off, because each one deletes what it finds before it adds its own.     *)
FewDuplicates == \A f \in Families : rules[f] + Cardinality(Adders(f)) <= Cardinality(Goroutines)

(* An operation that nothing overlaps heals what earlier ones left: after  *)
(* an apply there is one rule and one route per family, after a cleanup    *)
(* there is none.                                                          *)
Heals ==
  [][\A t \in Goroutines :
       t \in Busy /\ t \notin Busy' /\ result'[t] = "ok" /\ alone[t] =>
         LET there == job[t] = Apply
         IN /\ rules' = [f \in Families |-> IF there THEN 1 ELSE 0]
            /\ route' = [f \in Families |-> there]]_routeVars

(* The 64 deletions are enough for an operation that nothing overlaps, if  *)
(* fewer goroutines than that can have overlapped before it.               *)
BoundSuffices ==
  [][Cardinality(Goroutines) < MaxDeletes =>
       \A t \in Busy : alone[t] /\ t \notin Busy' => result'[t] # "too many"]_routeVars
=============================================================================
