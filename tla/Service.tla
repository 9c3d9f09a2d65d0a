------------------------------- MODULE Service -------------------------------
(***************************************************************************)
(* Stopping the service: procd signals the daemon, whose signal goroutine  *)
(* tears the runtime down beside whatever the other goroutines are doing   *)
(* and then ends the process (startSignalCleanup); afterwards the init     *)
(* script runs "singbox-managerd cleanup" in a process of its own          *)
(* (service_stopped).  Everything else is Runtime.                         *)
(***************************************************************************)
EXTENDS Runtime

CONSTANTS
  Signal,  \* the goroutine of startSignalCleanup
  Sweeper, \* the cleanup process of service_stopped
  Killed   \* the teardown may outlast term_timeout and end in SIGKILL

ASSUME ServiceConstants ==
  {Signal, Sweeper} \subseteq Handlers /\ Signal # Sweeper /\ Killed \in BOOLEAN

VARIABLE
  service  \* up, signalled, gone (the daemon has ended), sweeping or down

serviceVars == <<vars, service>>

ServiceInit == Init /\ service = "up"

(* runtime.Control(ActionTeardown) is requested by t.                      *)
Teardown(t) ==
  /\ Tracked(/\ Goto(t, "load")
             /\ req' = [req EXCEPT ![t] = "cleanup"]
             /\ UNCHANGED <<uci, conf, pidfile, procVars, fwVars, cfg, pid, budget, supVars>>)

(* SIGTERM reaches the daemon.                                             *)
Terminated ==
  /\ service = "up" /\ pc[Boot] = "idle"
  /\ service' = "signalled"
  /\ Teardown(Signal)

(* os.Exit, when the teardown returned, with an error or not, or SIGKILL.  *)
(* The sing-box processes stay.                                            *)
DaemonExit ==
  /\ service = "signalled"
  /\ Killed \/ pc[Signal] = "idle"
  /\ service' = "gone"
  /\ Vanish("idle")
  /\ Reparent
  /\ UNCHANGED <<uci, conf, pidfile, serving, fwVars, budget>>

(* Defect: the init script trusts the daemon to have cleaned up.           *)
ServiceStoppedTrusting ==
  /\ service = "gone"
  /\ service' = "down"
  /\ UNCHANGED vars

(* service_stopped: the safety net.                                        *)
ServiceStopped ==
  /\ service = "gone"
  /\ service' = "sweeping"
  /\ Teardown(Sweeper)

Swept ==
  /\ service = "sweeping" /\ pc[Sweeper] = "idle"
  /\ service' = "down"
  /\ UNCHANGED vars

(* The service is started again.                                           *)
ServiceStart ==
  /\ service = "down"
  /\ service' = "up"
  /\ Cut
  /\ UNCHANGED <<uci, conf, pidfile, procVars, fwVars>>

(* The daemon serves requests until its process ends.                      *)
Run ==
  /\ Tracked((service \in {"up", "signalled"} /\ Serve(Handlers \ {Signal, Sweeper})) \/ Work)
  /\ UNCHANGED service

ServiceNext ==
  Run \/ Terminated \/ DaemonExit \/ ServiceStopped \/ Swept \/ ServiceStart

(* The daemon ends once its teardown is over, and procd and the init       *)
(* script do their part.                                                   *)
ServiceFairness ==
  /\ \A t \in {Signal, Sweeper} : WF_serviceVars(Tracked(HandlerStep(t)) /\ UNCHANGED service)
  /\ WF_serviceVars(pc[Signal] = "idle" /\ DaemonExit)
  /\ WF_serviceVars(ServiceStopped) /\ WF_serviceVars(Swept)

ServiceSafe == ServiceInit /\ [][ServiceNext]_serviceVars
ServiceSpec == ServiceSafe /\ ServiceFairness

-----------------------------------------------------------------------------
(* Properties.                                                             *)

(* A stopped service leaves no rule, chain or route of its own behind,     *)
(* not even its kill switch, whatever the other goroutines were doing when *)
(* the signal came and however far the teardown of the daemon got, unless  *)
(* the sweep itself failed and said so.                                    *)
DownIsClean == service = "down" /\ ~fwErr => loaded = "none" /\ include = "none" /\ ~routes

(* A service that is told to stop is down in the end, whatever fails on    *)
(* the way.                                                                *)
StopsEventually == service = "signalled" ~> service = "down"
=============================================================================
