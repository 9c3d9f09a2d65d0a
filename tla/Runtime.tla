------------------------------- MODULE Runtime -------------------------------
(***************************************************************************)
(* The runtime controller of the daemon: internal/runtime/runtime.go and   *)
(* the RPC handlers of cmd/singbox-managerd/main.go that call it.          *)
(*                                                                         *)
(* Every RPC is served by a goroutine of its own and nothing serialises    *)
(* them: start, stop, reload and the supervisor loop all work on the same  *)
(* pidfile, nftables include, policy routes, generated configuration and   *)
(* sing-box process.  One action is one externally visible effect of the   *)
(* code (a file written, a firewall reloaded, a signal sent, a critical    *)
(* section of the supervisor), so that the goroutines interleave as they   *)
(* can in the program.                                                     *)
(*                                                                         *)
(* The saved UCI configuration is abstracted to the three things this code *)
(* looks at; the firewall to what the include file holds, what fw4 last    *)
(* loaded from it and whether the policy routes are there.                 *)
(***************************************************************************)
EXTENDS Naturals

CONSTANTS
  Handlers,     \* goroutines serving RPC requests
  Boot,         \* the main goroutine, in startRuntimeSupervisor
  Loops,        \* identities for goroutines running supervisorLoop
  NoConfig,     \* no configuration in hand
  NoPid,        \* no process id in hand, or in the pidfile
  Pids,         \* process ids sing-box can get
  Modes,        \* transparent settings that can be configured
  Requests,     \* RPC methods that can be called
  MaxOps,       \* bound on the number of requests
  MaxFaults,    \* bound on the number of calls that fail
  MaxDeaths,    \* bound on sing-box processes that exit by themselves
  MaxRestarts   \* bound on daemon crashes plus reboots

ASSUME RuntimeConstants ==
  /\ Boot \notin Handlers \cup Loops
  /\ Handlers \cap Loops = {}
  /\ NoPid \notin Pids
  /\ Modes \subseteq {"off", "tproxy", "kill"}
  /\ Requests \subseteq {"start", "stop", "pause", "resume", "restart", "reload",
                         "mutate", "cleanup", "enable", "disable"}
  /\ {MaxOps, MaxFaults, MaxDeaths, MaxRestarts} \subseteq Nat

Threads == Handlers \cup Loops
NoRequest == "no request"

(* What Control gets of the configuration: manager.main.enabled and the    *)
(* transparent settings ("kill" is tproxy with the kill switch).           *)
Configs == [enabled : BOOLEAN, mode : Modes]

VARIABLES
  uci,       \* the saved configuration: a Config and the paused hold
  conf,      \* transparent mode of the generated sing-box configuration
  pidfile,   \* content of sing-box.pid
  proc,      \* the sing-box processes
  serving,   \* the process that holds the listening ports
  include,   \* content of the nftables include
  loaded,    \* the include as fw4 last loaded it
  routes,    \* the fwmark rule and the local route of table 100 exist
  fwErr,     \* the last firewall change returned an error
  pc,        \* where each goroutine is
  cfg,       \* the configuration each goroutine works with
  pid,       \* the sing-box pid each goroutine has in hand
  req,       \* the request each handler serves
  serial,    \* history: runtime operations never overlapped nor were cut off
  exclusive, \* history: neither did those that may start sing-box
  stopped,   \* history: a stop went through and nothing was asked for since
  abandoned, \* history: a boot left the data path it found to itself
  budget,    \* what the bounds leave: ops, faults, deaths, restarts
  desired, monitorRunning, supCfg, spawning, phase, snap  \* see Supervisor

Sup == INSTANCE Supervisor WITH Callers <- Handlers \cup {Boot}

supVars == <<desired, monitorRunning, supCfg, spawning, phase, snap>>
fwVars == <<include, loaded, routes, fwErr>>
procVars == <<proc, serving>>
threadVars == <<pc, cfg, pid, req>>
history == <<serial, exclusive, stopped, abandoned>>
vars == <<uci, conf, pidfile, procVars, fwVars, threadVars, history, budget, supVars>>

(* A sing-box process: "parent" is the daemon, the daemon with a goroutine *)
(* in cmd.Wait, or init once the daemon that started it is gone.           *)
Dead == [state |-> "none", mode |-> "off", termed |-> FALSE, parent |-> "init"]
Up == {p \in Pids : proc[p].state = "up"}

-----------------------------------------------------------------------------
(* Helpers.                                                                *)

(* RunningPID: the pid in the pidfile if that process lives.  A stale      *)
(* pidfile is removed on the way (read, probe and removal are one step     *)
(* here, and steps of their own in Pidfile).                               *)
RunningPID == IF pidfile \in Up THEN pidfile ELSE NoPid
DropStalePidfile == pidfile' = RunningPID

(* What applyFirewall and cleanupFirewall leave in the include.            *)
ApplyTarget(c) == CASE c.mode = "off" -> "none"
                    [] c.mode = "tproxy" -> "proxy"
                    [] c.mode = "kill" -> "proxykill"

(* Defect: every cleanup is a full one, kill switch or not.                *)
CleanupTargetFull(t) == "none"

CleanupTarget(t) ==
  IF cfg[t].mode = "kill" /\ req[t] # "cleanup" THEN "kill" ELSE "none"

Goto(t, label) == pc' = [pc EXCEPT ![t] = label]

(* One call fails, within the bound.                                       *)
Fault == budget.faults > 0 /\ budget' = [budget EXCEPT !.faults = @ - 1]
NoFault == UNCHANGED budget

(* Defect: after an attempt the loop probes again at once, without the     *)
(* sleep and the snapshot that would let it notice a stop.                 *)
FinishLoopSpins(t) ==
  /\ Goto(t, IF t \in Loops THEN "l.probe" ELSE "idle")
  /\ cfg' = IF t \in Loops THEN cfg ELSE [cfg EXCEPT ![t] = NoConfig]
  /\ pid' = [pid EXCEPT ![t] = NoPid]
  /\ req' = [req EXCEPT ![t] = NoRequest]
  /\ UNCHANGED supVars

(* The operation is over, with or without an error: a handler answers, a   *)
(* loop goes back to its sleep.                                            *)
Finish(t) ==
  /\ Goto(t, "idle")
  /\ cfg' = [cfg EXCEPT ![t] = NoConfig]
  /\ pid' = [pid EXCEPT ![t] = NoPid]
  /\ req' = [req EXCEPT ![t] = NoRequest]
  /\ IF t \in Loops THEN Sup!Continue(t) ELSE UNCHANGED supVars

Step(t, label) ==
  /\ Goto(t, label)
  /\ UNCHANGED <<cfg, pid, req, supVars>>

(* startOnce succeeded: start enables the supervisor, the loop only logs.  *)
Started(t) == IF t \in Loops THEN Finish(t) ELSE Step(t, "enable")

(* stopWithCleanup is over, with an error or not: restart goes on only     *)
(* without one, stopRuntime engages the hold in both cases.                *)
Stopped(t, ok) ==
  \/ req[t] = "restart" /\ ok /\ Step(t, "check")
  \/ req[t] = "stop" /\ Step(t, "hold")
  \/ (req[t] \notin {"stop", "restart"} \/ (req[t] = "restart" /\ ~ok)) /\ Finish(t)

-----------------------------------------------------------------------------
(* RPC requests (main.go).  Accept includes the first thing the handler    *)
(* does, an edit of the saved configuration or nothing.                    *)

FirstEdit(r) ==
  CASE r \in {"start", "restart", "resume"} -> uci' = [uci EXCEPT !.paused = FALSE]
    [] r = "pause" -> uci' = [uci EXCEPT !.paused = TRUE]
    [] r = "enable" -> uci' = [uci EXCEPT !.enabled = TRUE]
    [] r = "disable" -> uci' = [uci EXCEPT !.enabled = FALSE]
    [] r = "mutate" -> \E m \in Modes : uci' = [uci EXCEPT !.mode = m]
    [] OTHER -> UNCHANGED uci

(* What the handler goes on with after its edit; enable and disable are    *)
(* over.                                                                   *)
TakeUp(t, r) ==
  \/ r \in {"enable", "disable"} /\ UNCHANGED threadVars
  \/ /\ r \notin {"enable", "disable"}
     /\ Goto(t, CASE r = "mutate" -> "m.probe" [] r = "resume" -> "resume" [] OTHER -> "load")
     /\ req' = [req EXCEPT ![t] = r]
     /\ UNCHANGED <<cfg, pid>>

(* The edit fails: start and restart ignore it, the others return it.      *)
EditFails(t, r) ==
  /\ r \in {"start", "restart", "resume", "pause", "enable", "disable", "mutate"}
  /\ budget.faults > 0
  /\ UNCHANGED uci
  /\ IF r \in {"start", "restart"} THEN TakeUp(t, r) ELSE UNCHANGED threadVars

Accept(t, r) ==
  /\ pc[t] = "idle" /\ t \in Handlers \ spawning
  /\ pc[Boot] = "idle"
  /\ budget.ops > 0
  /\ \/ FirstEdit(r) /\ TakeUp(t, r) /\ budget' = [budget EXCEPT !.ops = @ - 1]
     \/ EditFails(t, r) /\ budget' = [budget EXCEPT !.ops = @ - 1, !.faults = @ - 1]
  /\ UNCHANGED <<conf, pidfile, procVars, fwVars, supVars>>

(* applyMutation: nothing to reload when managedRuntimePID is 0.           *)
MutationProbe(t) ==
  /\ pc[t] = "m.probe"
  /\ DropStalePidfile
  /\ IF RunningPID = NoPid THEN Finish(t) ELSE Step(t, "load")
  /\ NoFault
  /\ UNCHANGED <<uci, conf, procVars, fwVars>>

(* setManagerPaused, lifting the hold: a start where the manager is        *)
(* enabled, and nothing where it is not or the file cannot be read.        *)
Resume(t) ==
  /\ pc[t] = "resume"
  /\ \/ (IF uci.enabled THEN Step(t, "load") ELSE Finish(t)) /\ NoFault
     \/ Finish(t) /\ Fault
  /\ UNCHANGED <<uci, conf, pidfile, procVars, fwVars>>

(* controlRuntime and cleanupRuntime: managerconfig.Load, then             *)
(* runtime.Control with the action of the request.  Where the file cannot  *)
(* be loaded cleanupRuntime goes on with the default configuration, which  *)
(* makes no difference: a teardown looks at none.                          *)
Load(t) ==
  /\ pc[t] = "load"
  /\ cfg' = [cfg EXCEPT ![t] = [enabled |-> uci.enabled, mode |-> uci.mode]]
  /\ Goto(t, CASE req[t] \in {"start", "resume"} -> "check"
               [] req[t] \in {"reload", "mutate"} -> "r.validate"
               [] OTHER -> "disable")
  /\ NoFault
  /\ UNCHANGED <<uci, conf, pidfile, procVars, fwVars, pid, req, supVars>>

(* The configuration cannot be loaded and Control is not called: a stop    *)
(* still engages the hold, any other request is over.                      *)
LoadFails(t) ==
  /\ pc[t] = "load" /\ req[t] # "cleanup"
  /\ IF req[t] = "stop" THEN Step(t, "hold") ELSE Finish(t)
  /\ Fault
  /\ UNCHANGED <<uci, conf, pidfile, procVars, fwVars>>

(* stopRuntime: SetManagerPaused(true) once Control(ActionStop) returned,  *)
(* an error of which is ignored.                                           *)
Hold(t) ==
  /\ pc[t] = "hold"
  /\ Finish(t)
  /\ \/ uci' = [uci EXCEPT !.paused = TRUE] /\ NoFault
     \/ UNCHANGED uci /\ Fault
  /\ UNCHANGED <<conf, pidfile, procVars, fwVars>>

-----------------------------------------------------------------------------
(* startOnce.                                                              *)

Check(t) ==
  /\ pc[t] = "check"
  /\ \/ ~cfg[t].enabled /\ Finish(t) /\ UNCHANGED pidfile
     \/ /\ cfg[t].enabled
        /\ DropStalePidfile
        /\ IF RunningPID = NoPid THEN Step(t, "validate") ELSE Started(t)
  /\ NoFault
  /\ UNCHANGED <<uci, conf, procVars, fwVars>>

(* Validate: the generated configuration is overwritten before sing-box    *)
(* check can reject it.                                                    *)
Validate(t) ==
  /\ \/ pc[t] = "validate" /\ Step(t, "write") /\ NoFault
     \/ pc[t] = "r.validate" /\ Step(t, "r.probe") /\ NoFault
     \/ pc[t] \in {"validate", "r.validate"} /\ Finish(t) /\ Fault
  /\ conf' = cfg[t].mode
  /\ UNCHANGED <<uci, pidfile, procVars, fwVars>>

(* Rendering or writing the generated configuration fails.                 *)
GenerateFails(t) ==
  /\ pc[t] \in {"validate", "r.validate"}
  /\ Finish(t)
  /\ Fault
  /\ UNCHANGED <<uci, conf, pidfile, procVars, fwVars>>

(* What a failing applyFirewall means to its caller: startOnce cleans up,  *)
(* reload returns the error at once.                                       *)
ApplyFailed(t) ==
  \/ pc[t] \in {"write", "load.fw"} /\ Step(t, "c.write")
  \/ pc[t] \in {"r.write", "r.load.fw"} /\ Finish(t)

(* applyFirewall, first part: firewall.Apply renames the new include into  *)
(* place, or removes it when nothing is proxied.                           *)
ApplyWrite(t) ==
  /\ pc[t] \in {"write", "r.write"}
  /\ \/ /\ include' = ApplyTarget(cfg[t])
        /\ Step(t, IF pc[t] = "write" THEN "load.fw" ELSE "r.load.fw")
        /\ NoFault
        /\ UNCHANGED <<loaded, routes, fwErr>>
     \/ ApplyFailed(t) /\ Fault /\ fwErr' = TRUE /\ UNCHANGED <<include, loaded, routes>>
  /\ UNCHANGED <<uci, conf, pidfile, procVars>>

(* applyFirewall, second part: kernel module, policy routes, flush of the  *)
(* sets, fw4 reload.  fw4 loads whatever the include holds by then.        *)
ApplyLoad(t) ==
  /\ pc[t] \in {"load.fw", "r.load.fw"}
  /\ \/ /\ routes' = (routes \/ cfg[t].mode # "off")
        /\ loaded' = include
        /\ fwErr' = FALSE
        /\ Step(t, IF pc[t] = "load.fw" THEN "spawn" ELSE "hup")
        /\ NoFault
     \/ /\ routes' \in {routes, routes \/ cfg[t].mode # "off"}
        /\ UNCHANGED loaded
        /\ fwErr' = TRUE
        /\ ApplyFailed(t)
        /\ Fault
  /\ UNCHANGED <<uci, conf, pidfile, procVars, include>>

(* The pids no process has and nobody holds.                               *)
FreePids == {p \in Pids : /\ proc[p].state = "none" /\ pidfile # p
                          /\ \A t \in Threads : pid[t] # p}

(* cmd.Start: the new sing-box reads the generated configuration and takes *)
(* the ports if they are free.                                             *)
Spawn(t) ==
  /\ pc[t] = "spawn"
  /\ \/ /\ \E p \in FreePids : pid' = [pid EXCEPT ![t] = p]
        /\ proc' = [proc EXCEPT ![pid'[t]] = [Dead EXCEPT !.state = "up", !.mode = conf,
                                                          !.parent = "daemon"]]
        /\ serving' = IF serving = NoPid THEN pid'[t] ELSE serving
        /\ Goto(t, "pidfile")
        /\ NoFault
        /\ UNCHANGED <<cfg, req, supVars>>
     \/ Step(t, "c.write") /\ Fault /\ UNCHANGED procVars
  /\ UNCHANGED <<uci, conf, pidfile, fwVars>>

(* The process p is gone.  A child of the daemon stays a zombie until the  *)
(* goroutine in cmd.Wait collects it; init collects the others at once.    *)
Exit(p) ==
  /\ proc' = IF proc[p].parent = "init" THEN [proc EXCEPT ![p] = Dead]
                                         ELSE [proc EXCEPT ![p].state = "zombie"]
  /\ serving' = IF serving = p THEN NoPid ELSE serving

(* Defect: the pidfile is not written.                                     *)
WritePidfileForgotten(t) ==
  /\ pc[t] = "pidfile"
  /\ proc' = [proc EXCEPT ![pid[t]].parent = "waiter"]
  /\ Step(t, "settle")
  /\ NoFault
  /\ UNCHANGED <<uci, conf, pidfile, serving, fwVars>>

(* The pidfile is written and the goroutine in cmd.Wait is started, or the *)
(* process is killed (its zombie, never waited for, is seen by no code).   *)
WritePidfile(t) ==
  /\ pc[t] = "pidfile"
  /\ \/ /\ pidfile' = pid[t]
        /\ proc' = [proc EXCEPT ![pid[t]].parent = "waiter"]
        /\ Step(t, "settle")
        /\ NoFault
        /\ UNCHANGED serving
     \/ /\ proc' = [proc EXCEPT ![pid[t]] = Dead]
        /\ serving' = IF serving = pid[t] THEN NoPid ELSE serving
        /\ Step(t, "c.write")
        /\ Fault
        /\ UNCHANGED pidfile
  /\ UNCHANGED <<uci, conf, fwVars>>

(* Defect: an immediate exit is reported without cleaning up.              *)
SettleWithoutCleanup(t) ==
  /\ pc[t] = "settle"
  /\ IF proc[pid[t]].state = "none" THEN Finish(t) ELSE Started(t)
  /\ NoFault
  /\ UNCHANGED <<uci, conf, pidfile, procVars, fwVars>>

(* The select of startOnce: cmd.Wait has returned, or 250 ms have passed.  *)
Settle(t) ==
  /\ pc[t] = "settle"
  /\ IF proc[pid[t]].state = "none" THEN Step(t, "c.write") ELSE Started(t)
  /\ NoFault
  /\ UNCHANGED <<uci, conf, pidfile, procVars, fwVars>>

(* start and reload, last step: enableSupervisor.                          *)
Enable(t) ==
  /\ pc[t] = "enable"
  /\ Sup!EnableSupervisor(t, cfg[t])
  /\ Goto(t, "idle")
  /\ cfg' = [cfg EXCEPT ![t] = NoConfig]
  /\ pid' = [pid EXCEPT ![t] = NoPid]
  /\ req' = [req EXCEPT ![t] = NoRequest]
  /\ NoFault
  /\ UNCHANGED <<uci, conf, pidfile, procVars, fwVars>>

-----------------------------------------------------------------------------
(* cleanupFirewall and cleanupFirewallFull, after a failed start ("c.") and *)
(* in a stop ("k.").                                                       *)

CleanedUp(t, ok) == IF pc[t] \in {"c.write", "c.load"} THEN Finish(t) ELSE Stopped(t, ok)

CleanupWrite(t) ==
  /\ pc[t] \in {"c.write", "k.write"}
  /\ \/ /\ include' = CleanupTarget(t)
        /\ Step(t, IF pc[t] = "c.write" THEN "c.load" ELSE "k.load")
        /\ NoFault
        /\ UNCHANGED <<loaded, routes, fwErr>>
     \/ CleanedUp(t, FALSE) /\ Fault /\ fwErr' = TRUE /\ UNCHANGED <<include, loaded, routes>>
  /\ UNCHANGED <<uci, conf, pidfile, procVars>>

(* The policy routes go first, then fw4 is reloaded.                       *)
CleanupLoad(t) ==
  /\ pc[t] \in {"c.load", "k.load"}
  /\ \/ /\ routes' = FALSE
        /\ loaded' = include
        /\ fwErr' = FALSE
        /\ CleanedUp(t, TRUE)
        /\ NoFault
     \/ /\ routes' \in {routes, FALSE}
        /\ UNCHANGED loaded
        /\ fwErr' = TRUE
        /\ CleanedUp(t, FALSE)
        /\ Fault
  /\ UNCHANGED <<uci, conf, pidfile, procVars, include>>

-----------------------------------------------------------------------------
(* stopWithCleanup.                                                        *)

(* Defect: stop leaves the supervisor as it is.                            *)
DisableForgotten(t) ==
  /\ pc[t] = "disable"
  /\ Step(t, "probe")
  /\ NoFault
  /\ UNCHANGED <<uci, conf, pidfile, procVars, fwVars>>

Disable(t) ==
  /\ pc[t] = "disable"
  /\ Sup!DisableSupervisor(t)
  /\ Goto(t, "probe")
  /\ NoFault
  /\ UNCHANGED <<uci, conf, pidfile, procVars, fwVars, cfg, pid, req>>

Probe(t) ==
  /\ pc[t] = "probe"
  /\ DropStalePidfile
  /\ pid' = [pid EXCEPT ![t] = RunningPID]
  /\ Goto(t, IF RunningPID = NoPid THEN "unpid" ELSE "term")
  /\ NoFault
  /\ UNCHANGED <<uci, conf, procVars, fwVars, cfg, req, supVars>>

(* Defect: the pidfile is removed before the process is gone.              *)
TerminateForgets(t) ==
  /\ pc[t] = "term"
  /\ proc' = IF pid[t] \in Up THEN [proc EXCEPT ![pid[t]].termed = TRUE] ELSE proc
  /\ pidfile' = NoPid
  /\ Step(t, "await")
  /\ NoFault
  /\ UNCHANGED <<uci, conf, serving, fwVars>>

(* SIGTERM; a process that is gone by now (ESRCH) is no error.             *)
Terminate(t) ==
  /\ pc[t] = "term"
  /\ proc' = IF pid[t] \in Up THEN [proc EXCEPT ![pid[t]].termed = TRUE] ELSE proc
  /\ Step(t, "await")
  /\ NoFault
  /\ UNCHANGED <<uci, conf, pidfile, serving, fwVars>>

(* Defect: the poll has no deadline.                                       *)
AwaitForEver(t) ==
  /\ pc[t] = "await"
  /\ pid[t] \notin Up
  /\ Step(t, "unpid")
  /\ NoFault
  /\ UNCHANGED <<uci, conf, pidfile, procVars, fwVars>>

(* Defect: at the deadline the process is given up, not killed.            *)
AwaitGivesUp(t) ==
  /\ pc[t] = "await"
  /\ Step(t, "unpid")
  /\ NoFault
  /\ UNCHANGED <<uci, conf, pidfile, procVars, fwVars>>

(* The poll sees the process dead, or five seconds pass and it is killed.  *)
Await(t) ==
  /\ pc[t] = "await"
  /\ IF pid[t] \in Up THEN Exit(pid[t]) ELSE UNCHANGED procVars
  /\ Step(t, "unpid")
  /\ NoFault
  /\ UNCHANGED <<uci, conf, pidfile, fwVars>>

(* os.Remove of the pidfile, whatever it names by now.                     *)
RemovePidfile(t) ==
  /\ pc[t] = "unpid"
  /\ pidfile' = NoPid
  /\ Step(t, "k.write")
  /\ NoFault
  /\ UNCHANGED <<uci, conf, procVars, fwVars>>

-----------------------------------------------------------------------------
(* reload, after its Validate.                                             *)

(* Defect: a reload of a running sing-box leaves the firewall alone.       *)
ReloadWithoutFirewall(t) ==
  /\ pc[t] = "r.probe"
  /\ DropStalePidfile
  /\ pid' = [pid EXCEPT ![t] = RunningPID]
  /\ Goto(t, IF RunningPID = NoPid THEN "check" ELSE "hup")
  /\ NoFault
  /\ UNCHANGED <<uci, conf, procVars, fwVars, cfg, req, supVars>>

ReloadProbe(t) ==
  /\ pc[t] = "r.probe"
  /\ DropStalePidfile
  /\ pid' = [pid EXCEPT ![t] = RunningPID]
  /\ Goto(t, IF RunningPID = NoPid THEN "check" ELSE "r.write")
  /\ NoFault
  /\ UNCHANGED <<uci, conf, procVars, fwVars, cfg, req, supVars>>

(* SIGHUP: a running sing-box reads its configuration again, a zombie      *)
(* takes the signal without effect, and a reaped process is an error.      *)
Hup(t) ==
  /\ pc[t] = "hup"
  /\ IF proc[pid[t]].state = "none" THEN Finish(t) ELSE Step(t, "enable")
  /\ proc' = IF pid[t] \in Up THEN [proc EXCEPT ![pid[t]].mode = conf] ELSE proc
  /\ NoFault
  /\ UNCHANGED <<uci, conf, pidfile, serving, fwVars>>

-----------------------------------------------------------------------------
(* The supervisor loop.                                                    *)

GoLoop(g) ==
  /\ Sup!SpawnLoop(g)
  /\ UNCHANGED <<uci, conf, pidfile, procVars, fwVars, threadVars, budget>>

Wake(l) ==
  /\ Sup!Snapshot(l)
  /\ pc' = [pc EXCEPT ![l] = IF desired THEN "l.probe" ELSE "idle"]
  /\ cfg' = [cfg EXCEPT ![l] = IF desired THEN supCfg ELSE NoConfig]
  /\ UNCHANGED <<uci, conf, pidfile, procVars, fwVars, pid, req, budget>>

LoopProbe(l) ==
  /\ pc[l] = "l.probe"
  /\ DropStalePidfile
  /\ IF RunningPID # NoPid THEN Finish(l) ELSE Step(l, "check")
  /\ UNCHANGED <<uci, conf, procVars, fwVars, budget>>

LoopReturns(l) ==
  /\ Sup!SupervisorStopped(l)
  /\ UNCHANGED <<uci, conf, pidfile, procVars, fwVars, threadVars, budget>>

-----------------------------------------------------------------------------
(* sing-box processes.                                                     *)

(* sing-box exits: because it was told to, because another instance holds  *)
(* the ports, or by itself, within the bound.                              *)
Die(p) ==
  /\ p \in Up
  /\ \/ (proc[p].termed \/ serving # p) /\ UNCHANGED budget
     \/ ~proc[p].termed /\ serving = p
        /\ budget.deaths > 0
        /\ budget' = [budget EXCEPT !.deaths = @ - 1]
  /\ Exit(p)
  /\ UNCHANGED <<uci, conf, pidfile, fwVars, threadVars, supVars>>

(* The goroutine of startOnce in cmd.Wait: removePIDFileIfMatches, then    *)
(* the exit is reported.                                                   *)
Reap(p) ==
  /\ proc[p].state = "zombie" /\ proc[p].parent = "waiter"
  /\ proc' = [proc EXCEPT ![p] = Dead]
  /\ pidfile' = IF pidfile = p THEN NoPid ELSE pidfile
  /\ UNCHANGED <<uci, conf, serving, fwVars, threadVars, budget, supVars>>

-----------------------------------------------------------------------------
(* The daemon process.                                                     *)

(* The operation of t cannot start sing-box.                               *)
Stopping(t) == req[t] \in {"stop", "pause", "cleanup"}

(* Every goroutine is gone, with all that was only in memory.              *)
Vanish(boot) ==
  /\ pc' = [t \in Threads \cup {Boot} |-> IF t = Boot THEN boot ELSE "idle"]
  /\ cfg' = [t \in Threads |-> NoConfig]
  /\ pid' = [t \in Threads |-> NoPid]
  /\ req' = [t \in Threads |-> NoRequest]
  /\ Sup!Respawn
  /\ serial' = (serial /\ \A t \in Threads : pc[t] = "idle")
  /\ exclusive' = (exclusive /\ \A t \in Threads : pc[t] # "idle" => Stopping(t))
  /\ UNCHANGED <<stopped, abandoned>>

(* The sing-box processes become children of init, which collects zombies. *)
Reparent ==
  proc' = [p \in Pids |-> IF p \in Up THEN [proc[p] EXCEPT !.parent = "init"] ELSE Dead]

Cut ==
  /\ budget.restarts > 0
  /\ budget' = [budget EXCEPT !.restarts = @ - 1]
  /\ Vanish("boot")

(* The daemon crashes and procd starts it again: sing-box lives on.        *)
DaemonCrash ==
  /\ Cut
  /\ Reparent
  /\ UNCHANGED <<uci, conf, pidfile, serving, fwVars>>

(* The router loses power and boots: the include is on flash and fw4 loads *)
(* it, everything else was in memory or on tmpfs.                          *)
Reboot ==
  /\ Cut
  /\ proc' = [p \in Pids |-> Dead]
  /\ serving' = NoPid
  /\ pidfile' = NoPid
  /\ routes' = FALSE
  /\ loaded' = include
  /\ UNCHANGED <<uci, conf, include, fwErr>>

(* startRuntimeSupervisor: attach to a living sing-box, stay idle when the *)
(* manager is not Active, and otherwise have the supervisor start it.      *)
(* Where the configuration cannot be loaded the daemon runs without.       *)
BootSupervisor ==
  /\ pc[Boot] = "boot"
  /\ pc' = [pc EXCEPT ![Boot] = "idle"]
  /\ \/ /\ DropStalePidfile
        /\ IF RunningPID # NoPid \/ (uci.enabled /\ ~uci.paused)
           THEN Sup!EnableSupervisor(Boot, [enabled |-> uci.enabled, mode |-> uci.mode])
           ELSE UNCHANGED supVars
        /\ NoFault
     \/ UNCHANGED <<pidfile, supVars>> /\ Fault
  /\ UNCHANGED <<uci, conf, procVars, fwVars, cfg, pid, req>>

-----------------------------------------------------------------------------
(* The specification.                                                      *)

Init ==
  /\ uci \in [enabled : BOOLEAN, paused : BOOLEAN, mode : Modes]
  /\ conf = uci.mode
  /\ pidfile = NoPid
  /\ proc = [p \in Pids |-> Dead]
  /\ serving = NoPid
  /\ include = "none" /\ loaded = "none" /\ routes = FALSE /\ fwErr = FALSE
  /\ pc = [t \in Threads \cup {Boot} |-> IF t = Boot THEN "boot" ELSE "idle"]
  /\ cfg = [t \in Threads |-> NoConfig]
  /\ pid = [t \in Threads |-> NoPid]
  /\ req = [t \in Threads |-> NoRequest]
  /\ serial = TRUE /\ exclusive = TRUE
  /\ stopped = uci.paused /\ abandoned = FALSE
  /\ budget = [ops |-> MaxOps, faults |-> MaxFaults, deaths |-> MaxDeaths,
               restarts |-> MaxRestarts]
  /\ Sup!SupInit

StartStep(t) ==
  Check(t) \/ Validate(t) \/ GenerateFails(t) \/ ApplyWrite(t) \/ ApplyLoad(t)
    \/ Spawn(t) \/ WritePidfile(t) \/ Settle(t) \/ CleanupWrite(t) \/ CleanupLoad(t)

HandlerStep(t) ==
  MutationProbe(t) \/ Resume(t) \/ Load(t) \/ LoadFails(t) \/ Hold(t) \/ StartStep(t)
    \/ Enable(t) \/ Disable(t) \/ Probe(t) \/ Terminate(t) \/ Await(t) \/ RemovePidfile(t) \/ ReloadProbe(t) \/ Hup(t)

LoopStep(l) == Wake(l) \/ LoopProbe(l) \/ LoopReturns(l) \/ StartStep(l)

(* Two operations are never under way at once.                             *)
Alone == \A s, t \in Threads : pc[s] # "idle" /\ pc[t] # "idle" => s = t

Serve(handlers) == \E t \in handlers, r \in Requests : Accept(t, r)

Work ==
  \/ \E t \in Handlers : HandlerStep(t)
  \/ \E l \in Loops : LoopStep(l)
  \/ \E g \in Threads \cup {Boot} : GoLoop(g)
  \/ \E p \in Pids : Die(p) \/ Reap(p)
  \/ BootSupervisor

-----------------------------------------------------------------------------
(* History: what the steps amount to.                                      *)

(* What runs beside another operation cannot start sing-box.               *)
Uncontested ==
  \A s, t \in Threads : pc[s] # "idle" /\ pc[t] # "idle" /\ s # t => Stopping(s)

(* A request for the runtime arrives.  A reload is one: it starts a        *)
(* sing-box that is not running, hold or not.                              *)
AskedFor(t) ==
  /\ req[t] = NoRequest
  /\ req'[t] \in {"start", "restart", "resume", "reload"}

(* A stop or pause that found the configuration is over, and the hold is   *)
(* engaged.                                                                *)
GoesThrough(t) ==
  /\ pc'[t] = "idle" /\ uci'.paused
  /\ \/ pc[t] = "hold" /\ cfg[t] # NoConfig
     \/ pc[t] \in {"k.write", "k.load"} /\ req[t] = "pause"

(* LAN traffic is diverted to a local port.                                *)
Captured == loaded \in {"proxy", "proxykill"} \/ routes

(* The cleanup t is at succeeds.                                           *)
CleansUp(t) == pc[t] \in {"c.load", "k.load"} /\ pc'[t] # pc[t] /\ ~fwErr'

Tracked(A) ==
  /\ A
  /\ serial' = (serial /\ Alone')
  /\ exclusive' = (exclusive /\ Uncontested')
  /\ stopped' = /\ stopped \/ \E t \in Handlers : GoesThrough(t)
                /\ ~\E t \in Handlers : AskedFor(t)
  /\ abandoned' = IF pc[Boot] # pc'[Boot]
                  THEN ~desired' /\ ~stopped /\ (Captured \/ Up # {})
                  ELSE abandoned /\ ~\E t \in Threads : CleansUp(t)

DaemonStep == Tracked(Serve(Handlers) \/ Work)

Next == DaemonStep \/ DaemonCrash \/ Reboot

(* Goroutines are scheduled, sleeps and timeouts elapse, the commands the  *)
(* daemon runs return, the kernel reports a dead child, and a sing-box     *)
(* that cannot bind its ports exits.  Nothing makes a request arrive.      *)
Fairness ==
  /\ \A t \in Handlers : WF_vars(Tracked(HandlerStep(t)))
  /\ \A l \in Loops : WF_vars(Tracked(LoopStep(l)))
  /\ \A g \in Threads \cup {Boot} : WF_vars(Tracked(GoLoop(g)))
  /\ \A p \in Pids : WF_vars(Tracked(Reap(p))) /\ WF_vars(Tracked(serving # p /\ Die(p)))
  /\ WF_vars(Tracked(BootSupervisor))

Safe == Init /\ [][Next]_vars
Spec == Safe /\ Fairness

-----------------------------------------------------------------------------
(* Properties.                                                             *)

Includes == {"none", "proxy", "proxykill", "kill"}
Labels == {"idle", "m.probe", "resume", "load", "hold", "check", "validate", "r.validate", "write",
           "r.write", "load.fw", "r.load.fw", "spawn", "pidfile", "settle", "enable",
           "c.write", "c.load", "k.write", "k.load", "disable", "probe", "term", "await",
           "unpid", "r.probe", "hup", "l.probe"}

TypeOK ==
  /\ uci \in [enabled : BOOLEAN, paused : BOOLEAN, mode : Modes]
  /\ conf \in Modes
  /\ pidfile \in Pids \cup {NoPid} /\ serving \in Pids \cup {NoPid}
  /\ proc \in [Pids -> [state : {"none", "up", "zombie"}, mode : Modes \cup {"off"},
                        termed : BOOLEAN, parent : {"daemon", "waiter", "init"}]]
  /\ include \in Includes /\ loaded \in Includes
  /\ {routes, fwErr, serial, exclusive, stopped, abandoned} \subseteq BOOLEAN
  /\ pc \in [Threads \cup {Boot} -> Labels \cup {"boot"}]
  /\ cfg \in [Threads -> Configs \cup {NoConfig}]
  /\ pid \in [Threads -> Pids \cup {NoPid}]
  /\ req \in [Threads -> Requests \cup {NoRequest}]
  /\ budget \in [ops : 0..MaxOps, faults : 0..MaxFaults, deaths : 0..MaxDeaths,
                 restarts : 0..MaxRestarts]
  /\ Sup!SupTypeOK

(* Nothing is going on: no request, no restart by the loop, no process     *)
(* about to exit or waiting to be reaped.                                  *)
Quiet ==
  /\ pc[Boot] = "idle" /\ \A t \in Threads : pc[t] = "idle"
  /\ \A p \in Pids : proc[p].state # "zombie" /\ (p \in Up => serving = p)

Settled == serial /\ Quiet

(* Stopping stays stopped (main.go, stopRuntime): with the hold engaged    *)
(* nothing runs and nothing is going to be restarted.                      *)
StopStaysStopped == Quiet /\ uci.paused => Up = {} /\ ~desired

(* A stop that went through stays: until the runtime is asked for again    *)
(* the hold is engaged, nothing runs and nothing is going to be restarted, *)
(* by the supervisor or by a boot, whatever fails, dies, crashes or is     *)
(* rebooted, and however many stops, pauses and cleanups overlap, are      *)
(* retried or are cut off half-way, provided that what may start sing-box  *)
(* was alone whenever it ran, and was not cut off.                         *)
StopsForGood == exclusive /\ stopped => uci.paused /\ Up = {} /\ ~desired

(* No orphan: as long as operations come one at a time, the sing-box that  *)
(* runs is the one the pidfile names, so a stop can reach it.              *)
NoOrphan == Settled => Up \subseteq {pidfile}

(* No black hole: while operations come one at a time, when sing-box is    *)
(* down and will not be restarted nothing diverts the LAN to it, unless a  *)
(* firewall change failed and said so, or the daemon started on a data     *)
(* path that nobody had stopped and did not take it over: it could not     *)
(* load the configuration, or was disabled, or held while a reload or a    *)
(* start had run sing-box under the hold.                                  *)
NoBlackHole == Settled /\ Up = {} /\ ~desired /\ ~fwErr /\ ~abandoned => ~Captured

(* The kill switch has no gap: where every configuration has it and no     *)
(* teardown is asked for, traffic that was captured or blocked once is     *)
(* never let through again, whichever operations overlap, fail or are cut  *)
(* short by a reboot.                                                      *)
KillSwitchHasNoGap == [][loaded # "none" => loaded' # "none"]_vars

(* The supervisor inside the runtime behaves as Supervisor says, with its  *)
(* fairness: the body of the loop always comes to an end, so the monitor   *)
(* keeps looking at the runtime.                                           *)
SupervisorSpec == Sup!SupSpec

(* The supervisor restores the runtime: as long as operations come one at  *)
(* a time, a sing-box that is desired and enabled ends up serving under    *)
(* the pid in the pidfile, or is no longer desired and enabled.            *)
Serving == serving # NoPid /\ serving = pidfile
Wanted == desired /\ supCfg.enabled
SupervisorRestores == []serial => (Wanted ~> Serving \/ ~Wanted)

(* The data path and the running sing-box agree: traffic is diverted       *)
(* exactly when the process it is diverted to expects it.                  *)
DataPathAgrees == Settled /\ ~fwErr
                    => \A p \in Up : loaded = ApplyTarget([mode |-> proc[p].mode])
                                     /\ (proc[p].mode # "off" => routes)
=============================================================================
