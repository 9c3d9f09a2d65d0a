------------------------------- MODULE Pidfile -------------------------------
(***************************************************************************)
(* How the runtime controller keeps track of its sing-box: the file        *)
(* sing-box.pid, RunningPID, the goroutine that waits for the process, and *)
(* the signals of stop and reload (internal/runtime/runtime.go).           *)
(*                                                                         *)
(* Runtime takes RunningPID as one step and never reuses a pid that is     *)
(* still written somewhere.  Here reading the file, probing the process    *)
(* and removing the file are steps of their own, a pid may go to a         *)
(* stranger as soon as it is free, and a process that has exited stays a   *)
(* zombie until it is waited for.  The firewall and the configuration are  *)
(* left out: no step on the pidfile depends on them.                       *)
(***************************************************************************)
EXTENDS Naturals, FiniteSets

CONSTANTS
  Handlers,      \* goroutines serving RPC requests
  Loop,          \* the goroutine in supervisorLoop
  Pids,          \* process ids
  NoPid,         \* no process id in hand; no pidfile
  MaxStrangers,  \* bound on the unrelated processes alive at a time
  MaxFaults,     \* bound on the spawns and writes that fail
  MaxCrashes     \* bound on the crashes of the daemon

ASSUME PidfileConstants ==
  /\ Loop \notin Handlers
  /\ NoPid \notin Pids
  /\ MaxStrangers \in Nat /\ MaxFaults \in Nat /\ MaxCrashes \in Nat

Threads == Handlers \cup {Loop}
Operations == {"start", "stop", "reload"}
Requests == Operations \cup {"status"}
NoRequest == "no request"

VARIABLES
  pidfile,   \* content of sing-box.pid
  proc,      \* what each pid is
  waiters,   \* the goroutines in cmd.Wait, with the step each is at
  pc,        \* where each goroutine is
  pid,       \* the pid each goroutine has in hand
  req,       \* what each goroutine is doing
  wanted,    \* supervisor.desired
  calm,      \* history: see Calm below
  faults, crashes

vars == <<pidfile, proc, waiters, pc, pid, req, wanted, calm, faults, crashes>>

SingBoxes == {p \in Pids : proc[p] = "sing-box"}
Strangers == {p \in Pids : proc[p] = "stranger"}
Free == {p \in Pids : proc[p] = "none"}

(* pidAlive: statusAlive takes a zombie for dead.                          *)
Alive(p) == proc[p] \in {"sing-box", "stranger"}

(* Defect: the liveness probe alone, as before processHasConfig.           *)
OursIfAlive(p) == Alive(p)

(* pidAlive and processHasConfig.                                          *)
Ours(p) == Alive(p) /\ proc[p] = "sing-box"

(* A process that exits is a zombie while the daemon that started it lives *)
(* and has not waited for it.                                              *)
Corpse(p) ==
  IF <<p, "wait">> \in waiters \/ \E t \in Threads : pc[t] = "write" /\ pid[t] = p
  THEN "zombie" ELSE "none"

-----------------------------------------------------------------------------
(* The history variable calm stays TRUE as long as no two operations       *)
(* overlap, no crash cuts an operation off, nobody reuses a pid that a     *)
(* goroutine has in hand, and no pidfile is written between a read of the  *)
(* old one and the removal that follows from it.  The last two need a      *)
(* goroutine to sleep through a whole sing-box check, or through a full    *)
(* turn of the pid counter.                                                *)

InHand(p) ==
  \/ \E t \in Threads : pid[t] = p
  \/ \E s \in {"match", "drop"} : <<p, s>> \in waiters

Removing(t) == pc[t] \in {"probe", "drop"}
RemovalPending ==
  \/ \E t \in Threads : Removing(t)
  \/ \E p \in Pids : <<p, "drop">> \in waiters

Operating(t) == req[t] \in Operations
Overlaps(t) == \E u \in Threads \ {t} : Operating(u)

-----------------------------------------------------------------------------
Goto(t, label, p) ==
  /\ pc' = [pc EXCEPT ![t] = label]
  /\ pid' = [pid EXCEPT ![t] = p]

Finish(t) ==
  /\ Goto(t, "idle", NoPid)
  /\ req' = [req EXCEPT ![t] = NoRequest]

(* RunningPID returns 0.  reload goes into start and supervisorLoop into   *)
(* startOnce, which call it once more.                                     *)
NotRunning(t) ==
  \/ req[t] = "status" /\ Finish(t) /\ UNCHANGED calm
  \/ req[t] = "start" /\ Goto(t, "spawn", NoPid) /\ UNCHANGED <<req, calm>>
  \/ req[t] = "stop" /\ Goto(t, "unlink", NoPid) /\ UNCHANGED <<req, calm>>
  \/ /\ req[t] \in {"reload", "monitor"}
     /\ Goto(t, "open", NoPid)
     /\ req' = [req EXCEPT ![t] = "start"]
     /\ calm' = (calm /\ ~Overlaps(t))

(* RunningPID returns pid[t].  start enables the supervisor.               *)
Running(t) ==
  \/ req[t] \in {"status", "monitor"} /\ Finish(t) /\ UNCHANGED wanted
  \/ req[t] = "start" /\ Finish(t) /\ wanted' = (wanted \/ t # Loop)
  \/ req[t] = "stop" /\ Goto(t, "term", pid[t]) /\ UNCHANGED <<req, wanted>>
  \/ req[t] = "reload" /\ Goto(t, "hup", pid[t]) /\ UNCHANGED <<req, wanted>>

(* A request arrives; stop begins with disableSupervisor.                  *)
Accept(t, r) ==
  /\ t \in Handlers /\ pc[t] = "idle"
  /\ Goto(t, "open", NoPid)
  /\ req' = [req EXCEPT ![t] = r]
  /\ wanted' = (wanted /\ r # "stop")
  /\ calm' = (calm /\ ~(r \in Operations /\ Overlaps(t)))
  /\ UNCHANGED <<pidfile, proc, waiters, faults, crashes>>

(* supervisorLoop wakes up and finds itself wanted.                        *)
Tick ==
  /\ pc[Loop] = "idle" /\ wanted
  /\ Goto(Loop, "open", NoPid)
  /\ req' = [req EXCEPT ![Loop] = "monitor"]
  /\ UNCHANGED <<pidfile, proc, waiters, wanted, calm, faults, crashes>>

-----------------------------------------------------------------------------
(* RunningPID: os.ReadFile, the probe of the process, os.Remove.           *)

Open(t) ==
  /\ pc[t] = "open"
  /\ \/ pidfile = NoPid /\ NotRunning(t)
     \/ pidfile # NoPid /\ Goto(t, "probe", pidfile) /\ UNCHANGED <<req, calm>>
  /\ UNCHANGED <<pidfile, proc, waiters, wanted, faults, crashes>>

Probe(t) ==
  /\ pc[t] = "probe"
  /\ \/ Ours(pid[t]) /\ Running(t)
     \/ ~Ours(pid[t]) /\ Goto(t, "drop", pid[t]) /\ UNCHANGED <<req, wanted>>
  /\ UNCHANGED <<pidfile, proc, waiters, calm, faults, crashes>>

Drop(t) ==
  /\ pc[t] = "drop"
  /\ pidfile' = NoPid
  /\ NotRunning(t)
  /\ UNCHANGED <<proc, waiters, wanted, faults, crashes>>

-----------------------------------------------------------------------------
(* startOnce: cmd.Start, the pidfile, the goroutine that waits, and 250 ms *)
(* in which an immediate exit is an error.                                 *)

Spawn(t) ==
  /\ pc[t] = "spawn"
  /\ \/ \E p \in Free :
          /\ proc' = [proc EXCEPT ![p] = "sing-box"]
          /\ Goto(t, "write", p)
          /\ calm' = (calm /\ ~InHand(p))
          /\ UNCHANGED <<req, faults>>
     \/ faults < MaxFaults /\ faults' = faults + 1 /\ Finish(t) /\ UNCHANGED <<proc, calm>>
  /\ UNCHANGED <<pidfile, waiters, wanted, crashes>>

(* The sing-box whose pid could not be written is killed, and nobody waits *)
(* for it.                                                                 *)
WritePid(t) ==
  /\ pc[t] = "write"
  /\ \/ /\ pidfile' = pid[t]
        /\ waiters' = waiters \cup {<<pid[t], "wait">>}
        /\ Goto(t, "settle", pid[t])
        /\ calm' = (calm /\ ~RemovalPending)
        /\ UNCHANGED <<proc, req, faults>>
     \/ /\ faults < MaxFaults /\ faults' = faults + 1
        /\ proc' = [proc EXCEPT ![pid[t]] = "zombie"]
        /\ Finish(t)
        /\ UNCHANGED <<pidfile, waiters, calm>>
  /\ UNCHANGED <<wanted, crashes>>

Settle(t) ==
  /\ pc[t] = "settle"
  /\ \/ wanted' = (wanted \/ t # Loop)
     \/ pid[t] \notin SingBoxes /\ UNCHANGED wanted
  /\ Finish(t)
  /\ UNCHANGED <<pidfile, proc, waiters, calm, faults, crashes>>

(* cmd.Wait returns, and removePIDFileIfMatches reads and removes.         *)
Reap(p) ==
  /\ <<p, "wait">> \in waiters /\ proc[p] = "zombie"
  /\ proc' = [proc EXCEPT ![p] = "none"]
  /\ waiters' = (waiters \ {<<p, "wait">>}) \cup {<<p, "match">>}
  /\ UNCHANGED <<pidfile, pc, pid, req, wanted, calm, faults, crashes>>

(* Defect: the file is removed whatever pid it holds.                      *)
MatchAny(p) ==
  /\ <<p, "match">> \in waiters
  /\ pidfile' = NoPid
  /\ waiters' = waiters \ {<<p, "match">>}
  /\ UNCHANGED <<proc, pc, pid, req, wanted, calm, faults, crashes>>

Match(p) ==
  /\ <<p, "match">> \in waiters
  /\ waiters' = (waiters \ {<<p, "match">>}) \cup (IF pidfile = p THEN {<<p, "drop">>} ELSE {})
  /\ UNCHANGED <<pidfile, proc, pc, pid, req, wanted, calm, faults, crashes>>

RemoveMatched(p) ==
  /\ <<p, "drop">> \in waiters
  /\ pidfile' = NoPid
  /\ waiters' = waiters \ {<<p, "drop">>}
  /\ UNCHANGED <<proc, pc, pid, req, wanted, calm, faults, crashes>>

-----------------------------------------------------------------------------
(* stop: SIGTERM, the poll, SIGKILL at the deadline, the removal.  reload: *)
(* SIGHUP, and the supervisor is enabled unless the process is gone.       *)

Term(t) ==
  /\ pc[t] = "term"
  /\ Goto(t, "await", pid[t])
  /\ UNCHANGED <<pidfile, proc, waiters, req, wanted, calm, faults, crashes>>

Await(t) ==
  /\ pc[t] = "await"
  /\ \/ ~Alive(pid[t]) /\ Goto(t, "unlink", NoPid)
     \/ Alive(pid[t]) /\ Goto(t, "kill", pid[t])
  /\ UNCHANGED <<pidfile, proc, waiters, req, wanted, calm, faults, crashes>>

(* Defect: the deadline passes and the process is left to itself.          *)
KillNobody(t) ==
  /\ pc[t] = "kill"
  /\ Goto(t, "unlink", NoPid)
  /\ UNCHANGED <<pidfile, proc, waiters, req, wanted, calm, faults, crashes>>

Kill(t) ==
  /\ pc[t] = "kill"
  /\ proc' = IF Alive(pid[t]) THEN [proc EXCEPT ![pid[t]] = Corpse(pid[t])] ELSE proc
  /\ Goto(t, "unlink", NoPid)
  /\ UNCHANGED <<pidfile, waiters, req, wanted, calm, faults, crashes>>

Unlink(t) ==
  /\ pc[t] = "unlink"
  /\ pidfile' = NoPid
  /\ Finish(t)
  /\ UNCHANGED <<proc, waiters, wanted, calm, faults, crashes>>

Hup(t) ==
  /\ pc[t] = "hup"
  /\ wanted' = (wanted \/ proc[pid[t]] # "none")
  /\ Finish(t)
  /\ UNCHANGED <<pidfile, proc, waiters, calm, faults, crashes>>

-----------------------------------------------------------------------------
(* The rest of the system.                                                 *)

Exit(p) ==
  /\ p \in SingBoxes
  /\ proc' = [proc EXCEPT ![p] = Corpse(p)]
  /\ UNCHANGED <<pidfile, waiters, pc, pid, req, wanted, calm, faults, crashes>>

StrangerStarts(p) ==
  /\ p \in Free /\ Cardinality(Strangers) < MaxStrangers
  /\ proc' = [proc EXCEPT ![p] = "stranger"]
  /\ calm' = (calm /\ ~InHand(p))
  /\ UNCHANGED <<pidfile, waiters, pc, pid, req, wanted, faults, crashes>>

StrangerExits(p) ==
  /\ p \in Strangers
  /\ proc' = [proc EXCEPT ![p] = "none"]
  /\ UNCHANGED <<pidfile, waiters, pc, pid, req, wanted, calm, faults, crashes>>

(* The daemon dies and procd starts it again; init inherits its children.  *)
(* What startRuntimeSupervisor does then is in Runtime: the loop is back   *)
(* if it was wanted.                                                       *)
Crash ==
  /\ crashes < MaxCrashes /\ crashes' = crashes + 1
  /\ proc' = [p \in Pids |-> IF proc[p] = "zombie" THEN "none" ELSE proc[p]]
  /\ waiters' = {}
  /\ pc' = [t \in Threads |-> "idle"]
  /\ pid' = [t \in Threads |-> NoPid]
  /\ req' = [t \in Threads |-> NoRequest]
  /\ calm' = (calm /\ \A t \in Threads : ~Operating(t))
  /\ UNCHANGED <<pidfile, wanted, faults>>

-----------------------------------------------------------------------------
Init ==
  /\ pidfile = NoPid
  /\ proc = [p \in Pids |-> "none"]
  /\ waiters = {}
  /\ pc = [t \in Threads |-> "idle"]
  /\ pid = [t \in Threads |-> NoPid]
  /\ req = [t \in Threads |-> NoRequest]
  /\ wanted = FALSE
  /\ calm = TRUE
  /\ faults = 0 /\ crashes = 0

Run(t) ==
  \/ Open(t) \/ Probe(t) \/ Drop(t)
  \/ Spawn(t) \/ WritePid(t) \/ Settle(t)
  \/ Term(t) \/ Await(t) \/ Kill(t) \/ Unlink(t) \/ Hup(t)

Wait(p) == Reap(p) \/ Match(p) \/ RemoveMatched(p)

Next ==
  \/ \E t \in Threads : Run(t) \/ \E r \in Requests : Accept(t, r)
  \/ Tick
  \/ \E p \in Pids : Wait(p) \/ Exit(p) \/ StrangerStarts(p) \/ StrangerExits(p)
  \/ Crash

Safe == Init /\ [][Next]_vars

(* Goroutines run, and some goroutine that waits; nobody has to send a     *)
(* request, to exit or to crash.                                           *)
Fairness ==
  /\ \A t \in Handlers : WF_vars(Run(t))
  /\ WF_vars(Tick \/ Run(Loop))
  /\ WF_vars(\E p \in Pids : Wait(p))

Spec == Safe /\ Fairness

-----------------------------------------------------------------------------
Holding == {"probe", "drop", "write", "settle", "term", "await", "kill", "hup"}

(* Everything has its type, and a goroutine has a pid in hand exactly at   *)
(* the steps of RunningPID, startOnce, stop and reload that use one.       *)
TypeOK ==
  /\ pidfile \in Pids \cup {NoPid}
  /\ proc \in [Pids -> {"none", "sing-box", "zombie", "stranger"}]
  /\ waiters \subseteq Pids \X {"wait", "match", "drop"}
  /\ pc \in [Threads -> Holding \cup {"idle", "open", "spawn", "unlink"}]
  /\ pid \in [Threads -> Pids \cup {NoPid}]
  /\ \A t \in Threads : pid[t] # NoPid <=> pc[t] \in Holding
  /\ req \in [Threads -> Requests \cup {"monitor", NoRequest}]
  /\ \A t \in Threads : req[t] = NoRequest <=> pc[t] = "idle"
  /\ wanted \in BOOLEAN /\ calm \in BOOLEAN
  /\ faults \in 0..MaxFaults /\ crashes \in 0..MaxCrashes

(* While calm, a sing-box that runs is the one the pidfile names, except   *)
(* between cmd.Start and the write of its pid: probes that only read the   *)
(* status, goroutines that wait for an earlier sing-box, deaths, reused    *)
(* pids and crashes of an idle daemon never make the manager lose it.      *)
RunningIsNamed ==
  calm => \A p \in SingBoxes : pidfile = p \/ \E t \in Threads : pc[t] = "write" /\ pid[t] = p

(* While calm, two sing-box processes never run at a time: startOnce       *)
(* trusts RunningPID for it, and stop has to outlive the old one.          *)
AtMostOne == calm => \A p, q \in SingBoxes : p = q

(* While calm, stop and reload signal sing-box or a process that is gone,  *)
(* never a stranger that has got the pid of a dead sing-box.               *)
StrangersSpared ==
  calm => \A t \in Threads : pc[t] \in {"term", "await", "kill", "hup"} => pid[t] \notin Strangers

(* A wanted sing-box runs again, or the want ends: no stranger on its pid  *)
(* makes the monitor believe for ever that sing-box is there (the comment  *)
(* of RunningPID, runtime.go:384-391).                                     *)
Restored == wanted ~> (SingBoxes # {} \/ ~wanted)

=============================================================================
