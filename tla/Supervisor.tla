----------------------------- MODULE Supervisor -----------------------------
(***************************************************************************)
(* The runtime supervisor of internal/runtime/runtime.go: a flag "desired" *)
(* and a flag "monitorRunning" behind one mutex, and a background          *)
(* goroutine (supervisorLoop) that is spawned on demand and hands its role *)
(* over when it exits.                                                     *)
(*                                                                         *)
(* Each critical section of supervisor.mu is one action.  The go statement *)
(* that follows the unlock is an action of its own (SpawnLoop), because any    *)
(* other goroutine may run between the two.  What a loop does with its     *)
(* snapshot (RunningPID, startOnce, the backoff) is the phase "work" here; *)
(* module Runtime says what happens inside it.                             *)
(***************************************************************************)

CONSTANTS
  Callers,      \* goroutines that start, stop or attach the runtime
  Loops,        \* identities for the goroutines that run supervisorLoop
  Configs,      \* configurations the supervisor can be given
  NoConfig      \* the zero value of supervisor.cfg

ASSUME DistinctGoroutines == Callers \cap Loops = {}

VARIABLES
  desired,         \* supervisor.desired
  monitorRunning,  \* supervisor.monitorRunning
  supCfg,          \* supervisor.cfg
  spawning,        \* goroutines between the unlock and "go supervisorLoop()"
  phase,           \* where each supervisorLoop goroutine is
  snap             \* the configuration each loop took in supervisorSnapshot

supVars == <<desired, monitorRunning, supCfg, spawning, phase, snap>>

Phases == {"none", "asleep", "work", "exiting"}

(* Goroutines currently executing supervisorLoop.                          *)
Live == {l \in Loops : phase[l] # "none"}

SupInit ==
  /\ desired = FALSE
  /\ monitorRunning = FALSE
  /\ supCfg = NoConfig
  /\ spawning = {}
  /\ phase = [l \in Loops |-> "none"]
  /\ snap = [l \in Loops |-> NoConfig]

-----------------------------------------------------------------------------
(* Critical sections and spawns.                                           *)

(* Defect: enableSupervisor without the monitorRunning test.               *)
EnableAlwaysSpawns(t, c) ==
  /\ t \notin spawning
  /\ desired' = TRUE
  /\ supCfg' = c
  /\ monitorRunning' = TRUE
  /\ spawning' = spawning \cup {t}
  /\ UNCHANGED <<phase, snap>>

(* enableSupervisor(cfg): the caller goes on to spawn a loop only when     *)
(* none is registered.                                                     *)
EnableSupervisor(t, c) ==
  /\ t \notin spawning
  /\ desired' = TRUE
  /\ supCfg' = c
  /\ monitorRunning' = TRUE
  /\ spawning' = IF monitorRunning THEN spawning ELSE spawning \cup {t}
  /\ UNCHANGED <<phase, snap>>

(* disableSupervisor().                                                    *)
DisableSupervisor(t) ==
  /\ t \notin spawning
  /\ desired' = FALSE
  /\ UNCHANGED <<monitorRunning, supCfg, spawning, phase, snap>>

(* "go supervisorLoop()", by the caller of enableSupervisor or by the      *)
(* deferred supervisorStopped of a loop that was asked to carry on.        *)
SpawnLoop(g) ==
  /\ g \in spawning
  /\ \E l \in Loops :
       /\ phase[l] = "none"
       /\ phase' = [phase EXCEPT ![l] = "asleep"]
  /\ spawning' = spawning \ {g}
  /\ UNCHANGED <<desired, monitorRunning, supCfg, snap>>

(* The sleep is over: supervisorSnapshot, and the loop either works on the *)
(* snapshot or returns.                                                    *)
Snapshot(l) ==
  /\ phase[l] = "asleep"
  /\ phase' = [phase EXCEPT ![l] = IF desired THEN "work" ELSE "exiting"]
  /\ snap' = [snap EXCEPT ![l] = supCfg]
  /\ UNCHANGED <<desired, monitorRunning, supCfg, spawning>>

(* The loop body is done ("continue", or its end): back to the sleep.      *)
Continue(l) ==
  /\ phase[l] = "work"
  /\ phase' = [phase EXCEPT ![l] = "asleep"]
  /\ UNCHANGED <<desired, monitorRunning, supCfg, spawning, snap>>

(* Defect: supervisorStopped that does not look at desired again.          *)
StoppedBlindly(l) ==
  /\ phase[l] = "exiting"
  /\ phase' = [phase EXCEPT ![l] = "none"]
  /\ monitorRunning' = FALSE
  /\ UNCHANGED <<desired, supCfg, spawning, snap>>

(* supervisorStopped(): desired may have been set again since the snapshot *)
(* that made the loop return; then a successor is spawned and the role is  *)
(* kept.                                                                   *)
SupervisorStopped(l) ==
  /\ phase[l] = "exiting"
  /\ phase' = [phase EXCEPT ![l] = "none"]
  /\ \/ /\ desired
        /\ spawning' = spawning \cup {l}
        /\ UNCHANGED monitorRunning
     \/ /\ ~desired
        /\ monitorRunning' = FALSE
        /\ UNCHANGED spawning
  /\ UNCHANGED <<desired, supCfg, snap>>

(* The daemon process dies and procd starts a new one: every goroutine and *)
(* all of this state is gone.                                              *)
Respawn ==
  /\ desired' = FALSE
  /\ monitorRunning' = FALSE
  /\ supCfg' = NoConfig
  /\ spawning' = {}
  /\ phase' = [l \in Loops |-> "none"]
  /\ snap' = [l \in Loops |-> NoConfig]

LoopStep(l) == Snapshot(l) \/ Continue(l) \/ SupervisorStopped(l)

SupNext ==
  \/ \E t \in Callers : (\E c \in Configs : EnableSupervisor(t, c)) \/ DisableSupervisor(t)
  \/ \E g \in Callers \cup Loops : SpawnLoop(g)
  \/ \E l \in Loops : LoopStep(l)
  \/ Respawn

(* A goroutine that is ready to run is eventually run by the Go scheduler, *)
(* the sleeps are finite and so is the loop body (see Runtime).            *)
SupFairness ==
  /\ \A g \in Callers \cup Loops : WF_supVars(SpawnLoop(g))
  /\ \A l \in Loops : WF_supVars(LoopStep(l))

SupSafe == SupInit /\ [][SupNext]_supVars

SupSpec == SupSafe /\ SupFairness

-----------------------------------------------------------------------------
(* Properties.                                                             *)

SupTypeOK ==
  /\ desired \in BOOLEAN
  /\ monitorRunning \in BOOLEAN
  /\ supCfg \in Configs \cup {NoConfig}
  /\ spawning \subseteq Callers \cup Loops
  /\ phase \in [Loops -> Phases]
  /\ snap \in [Loops -> Configs \cup {NoConfig}]

(* There is at most one monitor: one running supervisorLoop, or one        *)
(* goroutine about to spawn one.  Two of them would start sing-box twice.  *)
OneMonitor ==
  /\ \A g, h \in spawning \cup Live : g = h
  /\ spawning \cap Live = {}

(* The flag tells the truth: monitorRunning is set exactly while a monitor *)
(* exists, so that the test in enableSupervisor is the right one.          *)
FlagIsTruth == monitorRunning <=> spawning \cup Live # {}

(* No wakeup is lost: while the runtime is desired some goroutine is, or   *)
(* is about to be, the monitor, although enableSupervisor may have found   *)
(* monitorRunning set by a loop that had already decided to return.        *)
DesiredIsMonitored == desired => spawning \cup Live # {}

=============================================================================
