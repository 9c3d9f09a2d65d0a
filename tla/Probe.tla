-------------------------------- MODULE Probe --------------------------------
(***************************************************************************)
(* The through-the-proxy health check: ProbeNodes of                       *)
(* internal/health/urltest.go and BuildProbeConfig of                      *)
(* internal/render/render.go.                                              *)
(*                                                                         *)
(* A check puts all nodes into one throwaway sing-box with a Clash API on  *)
(* a free local port, and asks it for the delay of each node's outbound,   *)
(* some at a time.  Checks run beside each other: the scheduler, the RPC   *)
(* requests and an impatient user each start their own.  The port is free  *)
(* when it is chosen and need not be when the instance binds it; what      *)
(* keeps two checks apart is the secret of each instance.                  *)
(*                                                                         *)
(* The check of each node by itself (precheckNodes) is one step: its       *)
(* goroutines write to slots of their own.                                 *)
(***************************************************************************)
EXTENDS Naturals, FiniteSets

CONSTANTS
  Checks,       \* calls of ProbeNodes
  NodeIds,      \* the ids of the configured nodes
  NodeTags,     \* the outbound tags a node may be configured with
  Kinds,        \* what can be the matter with a node
  Ports,        \* the local ports the kernel hands out
  Nobody,       \* no check, no node
  Concurrency,  \* tests at a time
  MaxCrashes    \* bound on the deaths of the daemon

BuiltinTags == {"direct", "block"}
AllTags == NodeTags \cup NodeIds \cup BuiltinTags

ASSUME ProbeConstants ==
  /\ Kinds \subseteq {"disabled", "unsupported", "invalid", "dead", "alive"}
  /\ Nobody \notin Checks \cup AllTags
  /\ Concurrency \in Nat \ {0} /\ MaxCrashes \in Nat

VARIABLES
  nodes,     \* the nodes as configured: the rendered tag and the kind
  step,      \* where each check is
  todo,      \* the nodes BuildProbeConfig has still to look at
  tags,      \* per check, the outbound tag of each node, Nobody if it has none
  job,       \* the goroutine that tests a node: none, queued, running or over
  results,   \* per check and node, the health reported
  port,      \* the port each check has chosen
  holder,    \* per port, the check whose instance listens on it
  instance,  \* the throwaway sing-box of each check
  via,       \* history: the node whose outbound a test went through
  upset,     \* history: the nodes for which something around the check failed
  crashes

probeVars ==
  <<nodes, step, todo, tags, job, results, port, holder, instance, via, upset, crashes>>

Enabled == {n \in NodeIds : nodes[n].kind # "disabled"}

(* Defect: what can be rendered is taken to be valid.                      *)
ValidUnchecked == {n \in Enabled : nodes[n].kind # "unsupported"}

(* What BuildProbeConfig renders and sing-box check accepts.               *)
ValidNodes == {n \in Enabled : nodes[n].kind \in {"dead", "alive"}}
Tagged(c) == {n \in NodeIds : tags[c][n] # Nobody}
Running(c) == {n \in NodeIds : job[c][n] = "running"}

(* markAll, markTags and the loops that report one set of nodes.           *)
Mark(c, S, health) ==
  results' = [results EXCEPT ![c] = [n \in NodeIds |-> IF n \in S THEN health ELSE @[n]]]

Goto(c, label) == step' = [step EXCEPT ![c] = label]
Upset(c, S) == upset' = [upset EXCEPT ![c] = @ \cup S]

(* ProbeNodes returns: the deferred cancel and cmd.Wait end the instance.  *)
End(c) ==
  /\ Goto(c, "done")
  /\ instance' = [instance EXCEPT ![c] = "none"]
  /\ holder' = [p \in Ports |-> IF holder[p] = c THEN Nobody ELSE holder[p]]

-----------------------------------------------------------------------------
Begin(c) ==
  /\ step[c] = "idle"
  /\ results' = [results EXCEPT ![c] =
                   [n \in NodeIds |-> IF n \in Enabled THEN "none" ELSE "disabled"]]
  /\ Goto(c, IF Enabled = {} THEN "done" ELSE "prepare")
  /\ UNCHANGED <<nodes, todo, tags, job, port, holder, instance, via, upset, crashes>>

(* freeLocalPort, the secret and the directory, or the failure of one.     *)
Prepare(c) ==
  /\ step[c] = "prepare"
  /\ \/ \E p \in Ports :
          /\ holder[p] = Nobody
          /\ port' = [port EXCEPT ![c] = p]
          /\ Goto(c, "precheck")
          /\ UNCHANGED <<results, upset>>
     \/ Mark(c, Enabled, "error") /\ Upset(c, NodeIds) /\ Goto(c, "done") /\ UNCHANGED port
  /\ UNCHANGED <<nodes, todo, tags, job, holder, instance, via, crashes>>

(* precheckNodes: a node that cannot be rendered, or that sing-box check   *)
(* refuses, is reported by itself.  A valid one is too when its file       *)
(* cannot be written or sing-box check runs into its timeout.              *)
Precheck(c) ==
  /\ step[c] = "precheck"
  /\ \E valid \in SUBSET ValidNodes :
       /\ Mark(c, Enabled \ valid, "error")
       /\ Goto(c, IF valid = {} THEN "done" ELSE "build")
       /\ todo' = [todo EXCEPT ![c] = valid]
       /\ Upset(c, ValidNodes \ valid)
  /\ UNCHANGED <<nodes, tags, job, port, holder, instance, via, crashes>>

Seen(c) == BuiltinTags \cup {tags[c][n] : n \in Tagged(c)}

(* The tag of a node's outbound: its own, or its id if that is taken, or   *)
(* Nobody if both are.                                                     *)
OutboundTag(c, n) ==
  CASE nodes[n].tag \notin Seen(c) -> nodes[n].tag
    [] nodes[n].tag \in Seen(c) /\ n \notin Seen(c) -> n
    [] OTHER -> Nobody

(* One round of the loop of BuildProbeConfig; the nodes come out of a map  *)
(* in any order.                                                           *)
BuildNode(c, n) ==
  /\ step[c] = "build" /\ n \in todo[c]
  /\ todo' = [todo EXCEPT ![c] = @ \ {n}]
  /\ tags' = [tags EXCEPT ![c][n] = OutboundTag(c, n)]
  /\ IF OutboundTag(c, n) = Nobody THEN Mark(c, {n}, "error") ELSE UNCHANGED results
  /\ UNCHANGED <<nodes, step, job, port, holder, instance, via, upset, crashes>>

(* The instance is started, unless nothing is left to test or the file or  *)
(* the process cannot be created.                                          *)
Launch(c) ==
  /\ step[c] = "build" /\ todo[c] = {}
  /\ \/ Tagged(c) = {} /\ Goto(c, "done") /\ UNCHANGED <<results, instance, upset>>
     \/ /\ Tagged(c) # {}
        /\ \/ /\ instance' = [instance EXCEPT ![c] = "starting"]
              /\ Goto(c, "await")
              /\ UNCHANGED <<results, upset>>
           \/ Mark(c, Tagged(c), "error") /\ Upset(c, NodeIds) /\ Goto(c, "done") /\ UNCHANGED instance
  /\ UNCHANGED <<nodes, todo, tags, job, port, holder, via, crashes>>

(* Defect: whoever listens on the port is taken for the instance.          *)
AnswersAnyone(c) == holder[port[c]] # Nobody

(* Another check's instance rejects the secret of this one.                *)
Answers(c) == holder[port[c]] = c

(* waitClashReady, and its deadline.                                       *)
Ready(c) ==
  /\ step[c] = "await" /\ Answers(c)
  /\ Goto(c, "test")
  /\ job' = [job EXCEPT ![c] = [n \in NodeIds |-> IF n \in Tagged(c) THEN "queued" ELSE "none"]]
  /\ UNCHANGED <<nodes, todo, tags, results, port, holder, instance, via, upset, crashes>>

NotReady(c) ==
  /\ step[c] = "await"
  /\ Mark(c, Tagged(c), "error")
  /\ Upset(c, IF instance[c] # "dead" THEN NodeIds ELSE {})
  /\ End(c)
  /\ UNCHANGED <<nodes, todo, tags, job, port, via, crashes>>

(* The goroutine of a node takes one of the slots of the semaphore.        *)
Acquire(c, n) ==
  /\ step[c] = "test" /\ job[c][n] = "queued"
  /\ Cardinality(Running(c)) < Concurrency
  /\ job' = [job EXCEPT ![c][n] = "running"]
  /\ UNCHANGED <<nodes, step, todo, tags, results, port, holder, instance, via, upset, crashes>>

(* The node behind the outbound that the instance on the port knows by the *)
(* tag of n.                                                               *)
Behind(c, n) ==
  LET h == holder[port[c]]
      behind == {m \in NodeIds : tags[h][m] = tags[c][n]}
  IN IF behind = {} THEN Nobody ELSE CHOOSE m \in behind : TRUE

(* Defect: a test that fails returns without giving its slot back.         *)
MeasureLeaking(c, n) ==
  /\ job[c][n] = "running" /\ step[c] = "test"
  /\ LET ok == Answers(c) /\ Behind(c, n) # Nobody /\ nodes[Behind(c, n)].kind = "alive"
     IN /\ results' = [results EXCEPT ![c][n] = IF ok THEN "ok" ELSE "down"]
        /\ via' = [via EXCEPT ![c][n] = IF ok THEN Behind(c, n) ELSE @]
        /\ job' = [job EXCEPT ![c][n] = IF ok THEN "over" ELSE "running"]
  /\ UNCHANGED <<nodes, step, todo, tags, port, holder, instance, upset, crashes>>

(* clashDelay: a positive delay is ok; a refusal, an error, a timeout or a *)
(* delay of zero is down.  A good node may fail all the same.              *)
Measure(c, n) ==
  /\ job[c][n] = "running" /\ step[c] = "test"
  /\ job' = [job EXCEPT ![c][n] = "over"]
  /\ \/ /\ Answers(c) /\ Behind(c, n) # Nobody /\ nodes[Behind(c, n)].kind = "alive"
        /\ results' = [results EXCEPT ![c][n] = "ok"]
        /\ via' = [via EXCEPT ![c][n] = Behind(c, n)]
        /\ UNCHANGED upset
     \/ /\ results' = [results EXCEPT ![c][n] = "down"]
        /\ Upset(c, {m \in {n} : nodes[m].kind = "alive"})
        /\ UNCHANGED via
  /\ UNCHANGED <<nodes, step, todo, tags, port, holder, instance, crashes>>

(* wg.Wait returns.                                                        *)
Collect(c) ==
  /\ step[c] = "test" /\ \A n \in NodeIds : job[c][n] \in {"none", "over"}
  /\ End(c)
  /\ UNCHANGED <<nodes, todo, tags, job, results, port, via, upset, crashes>>

-----------------------------------------------------------------------------
(* The throwaway sing-box refuses a configuration with an invalid outbound *)
(* or two of one tag, binds its port or exits, and may die later.          *)
Acceptable(c) ==
  /\ \A n \in Tagged(c) : nodes[n].kind # "invalid"
  /\ \A m, n \in Tagged(c) : tags[c][m] = tags[c][n] => m = n

Bind(c) ==
  /\ instance[c] = "starting"
  /\ \/ /\ Acceptable(c) /\ holder[port[c]] = Nobody
        /\ holder' = [holder EXCEPT ![port[c]] = c]
        /\ instance' = [instance EXCEPT ![c] = "up"]
        /\ UNCHANGED upset
     \/ /\ ~Acceptable(c) \/ holder[port[c]] # Nobody
        /\ instance' = [instance EXCEPT ![c] = "dead"]
        /\ Upset(c, IF Acceptable(c) THEN NodeIds ELSE {})
        /\ UNCHANGED holder
  /\ UNCHANGED <<nodes, step, todo, tags, job, results, port, via, crashes>>

Die(c) ==
  /\ instance[c] = "up"
  /\ instance' = [instance EXCEPT ![c] = "dead"]
  /\ holder' = [p \in Ports |-> IF holder[p] = c THEN Nobody ELSE holder[p]]
  /\ Upset(c, NodeIds)
  /\ UNCHANGED <<nodes, step, todo, tags, job, results, port, via, crashes>>

(* The daemon is killed, or exits in its signal handler without running    *)
(* the deferred calls: Pdeathsig takes the instances with it.              *)
Crash ==
  /\ crashes < MaxCrashes /\ crashes' = crashes + 1
  /\ step' = [c \in Checks |-> "idle"]
  /\ todo' = [c \in Checks |-> {}]
  /\ tags' = [c \in Checks |-> [n \in NodeIds |-> Nobody]]
  /\ job' = [c \in Checks |-> [n \in NodeIds |-> "none"]]
  /\ results' = [c \in Checks |-> [n \in NodeIds |-> "none"]]
  /\ via' = [c \in Checks |-> [n \in NodeIds |-> Nobody]]
  /\ upset' = [c \in Checks |-> {}]
  /\ instance' = [c \in Checks |-> "none"]
  /\ holder' = [p \in Ports |-> Nobody]
  /\ UNCHANGED <<nodes, port>>

-----------------------------------------------------------------------------
ProbeInit ==
  /\ nodes \in [NodeIds -> [tag : NodeTags, kind : Kinds]]
  /\ step = [c \in Checks |-> "idle"]
  /\ todo = [c \in Checks |-> {}]
  /\ tags = [c \in Checks |-> [n \in NodeIds |-> Nobody]]
  /\ job = [c \in Checks |-> [n \in NodeIds |-> "none"]]
  /\ results = [c \in Checks |-> [n \in NodeIds |-> "none"]]
  /\ port \in [Checks -> Ports]
  /\ holder = [p \in Ports |-> Nobody]
  /\ instance = [c \in Checks |-> "none"]
  /\ via = [c \in Checks |-> [n \in NodeIds |-> Nobody]]
  /\ upset = [c \in Checks |-> {}]
  /\ crashes = 0

Work(c) ==
  \/ Prepare(c) \/ Precheck(c) \/ Launch(c) \/ Ready(c) \/ NotReady(c) \/ Collect(c)
  \/ \E n \in NodeIds : BuildNode(c, n) \/ Acquire(c, n) \/ Measure(c, n)

ProbeNext ==
  \/ \E c \in Checks : Begin(c) \/ Work(c) \/ Bind(c) \/ Die(c)
  \/ Crash

(* Goroutines are scheduled and deadlines pass.                            *)
ProbeFairness == \A c \in Checks : WF_probeVars(Work(c))

ProbeSpec == ProbeInit /\ [][ProbeNext]_probeVars /\ ProbeFairness

-----------------------------------------------------------------------------
Results == {"none", "disabled", "error", "down", "ok"}

ProbeTypeOK ==
  /\ nodes \in [NodeIds -> [tag : NodeTags, kind : Kinds]]
  /\ step \in [Checks -> {"idle", "prepare", "precheck", "build", "await", "test", "done"}]
  /\ todo \in [Checks -> SUBSET NodeIds]
  /\ tags \in [Checks -> [NodeIds -> AllTags \cup {Nobody}]]
  /\ job \in [Checks -> [NodeIds -> {"none", "queued", "running", "over"}]]
  /\ results \in [Checks -> [NodeIds -> Results]]
  /\ port \in [Checks -> Ports]
  /\ holder \in [Ports -> Checks \cup {Nobody}]
  /\ instance \in [Checks -> {"none", "starting", "up", "dead"}]
  /\ via \in [Checks -> [NodeIds -> NodeIds \cup {Nobody}]]
  /\ upset \in [Checks -> SUBSET NodeIds]
  /\ crashes \in 0..MaxCrashes

(* A node is reported healthy only if a request went through its own       *)
(* outbound: never through that of another node with the same tag, through *)
(* a built-in one, or through the instance of a check on the same port.    *)
OkIsMeasured ==
  \A c \in Checks, n \in NodeIds : results[c][n] = "ok" => via[c][n] = n /\ nodes[n].kind = "alive"

(* The nodes that can be told from all others and the built-in outbounds   *)
(* by their tag, or by their id when the tag is taken.                     *)
Free(t, n) == t \notin BuiltinTags /\ \A m \in NodeIds \ {n} : t \notin {m, nodes[m].tag}
Distinct(n) ==
  \/ Free(nodes[n].tag, n)
  \/ n \notin BuiltinTags /\ \A m \in NodeIds \ {n} : nodes[m].tag # n

(* One bad node does not strand the others: a good node is reported        *)
(* healthy unless something failed for it or around the check, whatever    *)
(* happens to the other nodes and whatever these are; it has to have a     *)
(* tag or an id that tells it from them.                                   *)
NoStranding ==
  \A c \in Checks, n \in NodeIds :
    step[c] = "done" /\ n \notin upset[c] /\ nodes[n].kind = "alive" /\ Distinct(n)
    => results[c][n] = "ok"

(* Every check ends, whether the instance starts, hangs or dies, and with  *)
(* more nodes than slots.                                                  *)
EveryCheckEnds == \A c \in Checks : step[c] = "prepare" ~> step[c] \in {"done", "idle"}
=============================================================================
