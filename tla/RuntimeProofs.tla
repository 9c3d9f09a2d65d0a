---------------------------- MODULE RuntimeProofs ----------------------------
(***************************************************************************)
(* Proofs about Runtime and Service, for any sets of goroutines, pids,     *)
(* settings and requests, and with any bounds.                             *)
(*                                                                         *)
(* The type invariant is proved in four parts: what a goroutine has in     *)
(* hand, the supervisor, the processes, and the rest.  A goroutine that is *)
(* past Load has a configuration in hand, and one that signals or waits    *)
(* for a process has its pid.                                              *)
(***************************************************************************)
EXTENDS Service, TLAPS

-----------------------------------------------------------------------------
(* What a goroutine has in hand, by where it is.                           *)

Configured == Labels \ {"idle", "m.probe", "resume", "load", "hold"}
HasPid == {"pidfile", "settle", "term", "await", "r.write", "r.load.fw", "hup"}

Equipped(l, c, p) ==
  /\ l \in Labels
  /\ l \in Configured => c \in Configs
  /\ l \in HasPid => p \in Pids

Hands ==
  /\ pc \in [Threads \cup {Boot} -> Labels \cup {"boot"}]
  /\ cfg \in [Threads -> Configs \cup {NoConfig}]
  /\ pid \in [Threads -> Pids \cup {NoPid}]
  /\ req \in [Threads -> Requests \cup {NoRequest}]
  /\ \A t \in Threads : Equipped(pc[t], cfg[t], pid[t])
  /\ pc[Boot] \in {"boot", "idle"}

SupOK == Sup!SupTypeOK /\ (desired => supCfg \in Configs)

Process == [state : {"none", "up", "zombie"}, mode : Modes \cup {"off"},
            termed : BOOLEAN, parent : {"daemon", "waiter", "init"}]

Processes ==
  /\ pidfile \in Pids \cup {NoPid} /\ serving \in Pids \cup {NoPid}
  /\ proc \in [Pids -> Process]

Firewall == include \in Includes /\ loaded \in Includes /\ {routes, fwErr} \subseteq BOOLEAN

Settings ==
  /\ uci \in [enabled : BOOLEAN, paused : BOOLEAN, mode : Modes]
  /\ conf \in Modes

Limits ==
  /\ {serial, exclusive, stopped, abandoned} \subseteq BOOLEAN
  /\ budget \in [ops : 0..MaxOps, faults : 0..MaxFaults, deaths : 0..MaxDeaths,
                 restarts : 0..MaxRestarts]

TypeInv == Hands /\ SupOK /\ Processes /\ Firewall /\ Settings /\ Limits

LEMMA TypeInvOK == TypeInv => TypeOK
BY DEF TypeInv, TypeOK, Hands, SupOK, Process, Processes, Firewall, Settings, Limits, Equipped

LEMMA BootIsNoThread == Boot \notin Threads
BY RuntimeConstants DEF RuntimeConstants, Threads

(* A goroutine that moves to where it is equipped for.                     *)
LEMMA Moves ==
  ASSUME Hands, NEW t \in Threads, NEW l,
         NEW c \in Configs \cup {NoConfig}, NEW p \in Pids \cup {NoPid},
         NEW r \in Requests \cup {NoRequest},
         pc' = [pc EXCEPT ![t] = l], cfg' = [cfg EXCEPT ![t] = c],
         pid' = [pid EXCEPT ![t] = p], req' = [req EXCEPT ![t] = r],
         Equipped(l, c, p)
  PROVE  Hands'
<1>1. l \in Labels
  BY DEF Equipped
<1>2. /\ pc' \in [Threads \cup {Boot} -> Labels \cup {"boot"}] /\ pc'[Boot] = pc[Boot]
      /\ \A u \in Threads : pc'[u] = IF u = t THEN l ELSE pc[u]
  BY <1>1, BootIsNoThread DEF Hands
<1>3. /\ cfg' \in [Threads -> Configs \cup {NoConfig}]
      /\ \A u \in Threads : cfg'[u] = IF u = t THEN c ELSE cfg[u]
  BY DEF Hands
<1>4. /\ pid' \in [Threads -> Pids \cup {NoPid}]
      /\ \A u \in Threads : pid'[u] = IF u = t THEN p ELSE pid[u]
  BY DEF Hands
<1>5. req' \in [Threads -> Requests \cup {NoRequest}]
  BY DEF Hands
<1>6. \A u \in Threads : Equipped(pc'[u], cfg'[u], pid'[u])
  BY <1>2, <1>3, <1>4 DEF Hands
<1> QED
  BY <1>2, <1>3, <1>4, <1>5, <1>6 DEF Hands

LEMMA FinishMoves == ASSUME Hands, NEW t \in Threads, Finish(t) PROVE Hands'
<1>1. /\ pc' = [pc EXCEPT ![t] = "idle"] /\ cfg' = [cfg EXCEPT ![t] = NoConfig]
      /\ pid' = [pid EXCEPT ![t] = NoPid] /\ req' = [req EXCEPT ![t] = NoRequest]
  BY DEF Finish, Goto
<1>2. Equipped("idle", NoConfig, NoPid)
  BY DEF Equipped, Labels, Configured, HasPid
<1> QED
  BY <1>1, <1>2, Moves

(* The same for a goroutine that keeps what it has in hand.                *)
LEMMA StepMoves ==
  ASSUME Hands, NEW t \in Threads, NEW l, Goto(t, l), UNCHANGED <<cfg, pid, req>>,
         Equipped(l, cfg[t], pid[t])
  PROVE  Hands'
<1>1. /\ cfg' = [cfg EXCEPT ![t] = cfg[t]] /\ pid' = [pid EXCEPT ![t] = pid[t]]
      /\ req' = [req EXCEPT ![t] = req[t]]
  BY DEF Hands
<1>2. /\ cfg[t] \in Configs \cup {NoConfig} /\ pid[t] \in Pids \cup {NoPid}
      /\ req[t] \in Requests \cup {NoRequest}
  BY DEF Hands
<1>3. pc' = [pc EXCEPT ![t] = l]
  BY DEF Goto
<1> QED
  BY <1>1, <1>2, <1>3, Moves

(* Where a goroutine can go with a configuration in hand, and where with a *)
(* pid as well.                                                            *)
Plain == {"check", "validate", "r.validate", "write", "load.fw", "spawn", "enable",
          "c.write", "c.load", "k.write", "k.load", "disable", "probe", "unpid", "r.probe",
          "l.probe"}

LEMMA LabelSets == Configured = Plain \cup HasPid /\ Plain \cap HasPid = {}
BY DEF Configured, Labels, Plain, HasPid

LEMMA PlainMoves ==
  ASSUME Hands, NEW t \in Threads, pc[t] \in Configured, NEW l \in Plain,
         Goto(t, l), UNCHANGED <<cfg, pid, req>>
  PROVE  Hands'
<1>1. cfg[t] \in Configs
  BY DEF Hands, Equipped
<1>2. Equipped(l, cfg[t], pid[t])
  BY <1>1, LabelSets DEF Equipped, Configured
<1> QED
  BY <1>2, StepMoves

LEMMA PidMoves ==
  ASSUME Hands, NEW t \in Threads, pc[t] \in HasPid, NEW l \in HasPid,
         Goto(t, l), UNCHANGED <<cfg, pid, req>>
  PROVE  Hands'
<1>1. cfg[t] \in Configs /\ pid[t] \in Pids
  BY LabelSets DEF Hands, Equipped
<1>2. Equipped(l, cfg[t], pid[t])
  BY <1>1, LabelSets DEF Equipped, Configured
<1> QED
  BY <1>2, StepMoves

LEMMA StartedMoves ==
  ASSUME Hands, NEW t \in Threads, pc[t] \in Configured, Started(t)
  PROVE  Hands'
<1>1. "enable" \in Plain
  BY DEF Plain
<1> QED
  BY <1>1, FinishMoves, PlainMoves DEF Started, Step

LEMMA StoppedMoves ==
  ASSUME Hands, NEW t \in Threads, pc[t] \in Configured, NEW ok, Stopped(t, ok)
  PROVE  Hands'
<1>1. CASE Step(t, "check") \/ Finish(t)
  <2>1. "check" \in Plain
    BY DEF Plain
  <2> QED
    BY <1>1, <2>1, FinishMoves, PlainMoves DEF Step
<1>2. CASE Step(t, "hold")
  <2>1. Equipped("hold", cfg[t], pid[t])
    BY DEF Equipped, Labels, Configured, HasPid
  <2> QED
    BY <1>2, <2>1, StepMoves DEF Step
<1> QED
  BY <1>1, <1>2 DEF Stopped

(* Every step of a goroutine leaves it equipped for where it goes.         *)
LEMMA StartStepMoves ==
  ASSUME TypeInv, NEW t \in Threads, StartStep(t)
  PROVE  Hands'
<1>0. Hands
  BY DEF TypeInv
<1>1. CASE Check(t)
  <2>1. {"check", "validate"} \subseteq Plain
    BY DEF Plain
  <2>2. pc[t] = "check" /\ (Finish(t) \/ Step(t, "validate") \/ Started(t))
    BY <1>1 DEF Check
  <2> QED
    BY <1>0, <2>1, <2>2, LabelSets, FinishMoves, PlainMoves, StartedMoves DEF Step
<1>2. CASE Validate(t) \/ GenerateFails(t)
  <2>1. {"validate", "r.validate", "write", "r.probe"} \subseteq Plain
    BY DEF Plain
  <2>2. /\ pc[t] \in {"validate", "r.validate"}
        /\ Finish(t) \/ Step(t, "write") \/ Step(t, "r.probe")
    BY <1>2 DEF Validate, GenerateFails
  <2> QED
    BY <1>0, <2>1, <2>2, LabelSets, FinishMoves, PlainMoves DEF Step
<1>3. CASE ApplyWrite(t) \/ ApplyLoad(t)
  <2>1. /\ {"write", "load.fw", "c.write", "spawn"} \subseteq Plain
        /\ {"r.write", "r.load.fw", "hup"} \subseteq HasPid
    BY DEF Plain, HasPid
  <2>2. \/ /\ pc[t] \in {"write", "load.fw"}
           /\ Step(t, "load.fw") \/ Step(t, "spawn") \/ Step(t, "c.write")
        \/ /\ pc[t] \in {"r.write", "r.load.fw"}
           /\ Finish(t) \/ Step(t, "r.load.fw") \/ Step(t, "hup")
    BY <1>3 DEF ApplyWrite, ApplyLoad, ApplyFailed
  <2> QED
    BY <1>0, <2>1, <2>2, LabelSets, FinishMoves, PlainMoves, PidMoves DEF Step
<1>4. CASE Spawn(t)
  <2>1. {"spawn", "c.write"} \subseteq Plain
    BY DEF Plain
  <2>2. CASE Step(t, "c.write") /\ pc[t] = "spawn"
    BY <1>0, <2>1, <2>2, LabelSets, PlainMoves DEF Step
  <2>3. ASSUME NEW p \in Pids, pc[t] = "spawn", pid' = [pid EXCEPT ![t] = p],
               Goto(t, "pidfile"), UNCHANGED <<cfg, req>>
        PROVE  Hands'
    <3>1. cfg[t] \in Configs /\ req[t] \in Requests \cup {NoRequest}
      BY <1>0, <2>1, <2>3, LabelSets DEF Hands, Equipped
    <3>2. Equipped("pidfile", cfg[t], p)
      BY <3>1 DEF Equipped, Labels
    <3>3. cfg' = [cfg EXCEPT ![t] = cfg[t]] /\ req' = [req EXCEPT ![t] = req[t]]
      BY <1>0, <2>3 DEF Hands
    <3>4. pc' = [pc EXCEPT ![t] = "pidfile"]
      BY <2>3 DEF Goto
    <3> QED
      BY <1>0, <2>3, <3>1, <3>2, <3>3, <3>4, Moves
  <2> QED
    BY <1>4, <2>2, <2>3 DEF Spawn, FreePids
<1>5. CASE WritePidfile(t) \/ Settle(t)
  <2>1. "c.write" \in Plain /\ {"pidfile", "settle"} \subseteq HasPid
    BY DEF Plain, HasPid
  <2>2. /\ pc[t] \in {"pidfile", "settle"}
        /\ Step(t, "settle") \/ Step(t, "c.write") \/ Started(t)
    BY <1>5 DEF WritePidfile, Settle
  <2> QED
    BY <1>0, <2>1, <2>2, LabelSets, PlainMoves, PidMoves, StartedMoves DEF Step
<1>6. CASE CleanupWrite(t) \/ CleanupLoad(t)
  <2>1. {"c.write", "k.write", "c.load", "k.load"} \subseteq Plain
    BY DEF Plain
  <2>2. /\ pc[t] \in {"c.write", "k.write", "c.load", "k.load"}
        /\ \/ Step(t, "c.load") \/ Step(t, "k.load") \/ Finish(t)
           \/ \E ok \in BOOLEAN : Stopped(t, ok)
    BY <1>6 DEF CleanupWrite, CleanupLoad, CleanedUp
  <2> QED
    BY <1>0, <2>1, <2>2, LabelSets, FinishMoves, PlainMoves, StoppedMoves DEF Step
<1> QED
  BY <1>1, <1>2, <1>3, <1>4, <1>5, <1>6 DEF StartStep

LEMMA HandlerStepMoves ==
  ASSUME TypeInv, NEW t \in Handlers, HandlerStep(t)
  PROVE  Hands'
<1>0. Hands /\ t \in Threads
  BY DEF TypeInv, Threads
<1>1. CASE MutationProbe(t) \/ Resume(t) \/ LoadFails(t)
  <2>1. CASE Finish(t)
    BY <1>0, <2>1, FinishMoves
  <2>2. CASE Step(t, "load") \/ Step(t, "hold")
    <3>1. Equipped("load", cfg[t], pid[t]) /\ Equipped("hold", cfg[t], pid[t])
      BY DEF Equipped, Labels, Configured, HasPid
    <3> QED
      BY <1>0, <2>2, <3>1, StepMoves DEF Step
  <2> QED
    BY <1>1, <2>1, <2>2 DEF MutationProbe, Resume, LoadFails
<1>2. CASE Load(t)
  <2>1. PICK l \in {"check", "r.validate", "disable"} : pc' = [pc EXCEPT ![t] = l]
    BY <1>2 DEF Load, Goto
  <2> DEFINE c == [enabled |-> uci.enabled, mode |-> uci.mode]
  <2>2. c \in Configs
    BY DEF TypeInv, Settings, Configs
  <2>3. cfg' = [cfg EXCEPT ![t] = c] /\ UNCHANGED <<pid, req>>
    BY <1>2 DEF Load
  <2>4. pid' = [pid EXCEPT ![t] = pid[t]] /\ req' = [req EXCEPT ![t] = req[t]]
    BY <1>0, <2>3 DEF Hands
  <2>5. pid[t] \in Pids \cup {NoPid} /\ req[t] \in Requests \cup {NoRequest}
    BY <1>0 DEF Hands
  <2>6. Equipped(l, c, pid[t])
    BY <2>2 DEF Equipped, Labels, HasPid
  <2> HIDE DEF c
  <2> QED
    BY <1>0, <2>1, <2>2, <2>3, <2>4, <2>5, <2>6, Moves
<1>3. CASE Hold(t) \/ Enable(t)
  <2>1. /\ pc' = [pc EXCEPT ![t] = "idle"] /\ cfg' = [cfg EXCEPT ![t] = NoConfig]
        /\ pid' = [pid EXCEPT ![t] = NoPid] /\ req' = [req EXCEPT ![t] = NoRequest]
    BY <1>3 DEF Hold, Enable, Finish, Goto
  <2>2. Equipped("idle", NoConfig, NoPid)
    BY DEF Equipped, Labels, Configured, HasPid
  <2> QED
    BY <1>0, <2>1, <2>2, Moves
<1>4. CASE StartStep(t)
  BY <1>0, <1>4, StartStepMoves
<1>5. CASE Disable(t)
  <2>1. {"disable", "probe"} \subseteq Plain
    BY DEF Plain
  <2>2. pc[t] = "disable" /\ Goto(t, "probe") /\ UNCHANGED <<cfg, pid, req>>
    BY <1>5 DEF Disable
  <2> QED
    BY <1>0, <2>1, <2>2, LabelSets, PlainMoves
<1>6. CASE Probe(t) \/ ReloadProbe(t)
  <2>1. /\ {"probe", "r.probe", "unpid", "check"} \subseteq Plain
        /\ {"term", "r.write"} \subseteq HasPid
    BY DEF Plain, HasPid
  <2>2. PICK l \in {"unpid", "check", "term", "r.write"} :
          pc' = [pc EXCEPT ![t] = l] /\ (RunningPID = NoPid => l \in {"unpid", "check"})
    BY <1>6 DEF Probe, ReloadProbe, Goto
  <2>3. pc[t] \in Plain /\ pid' = [pid EXCEPT ![t] = RunningPID] /\ UNCHANGED <<cfg, req>>
    BY <1>6, <2>1 DEF Probe, ReloadProbe
  <2>4. RunningPID \in Pids \/ RunningPID = NoPid
    BY DEF RunningPID, Up
  <2>5. Equipped(l, cfg[t], RunningPID)
    <3>1. cfg[t] \in Configs
      BY <1>0, <2>3, LabelSets DEF Hands, Equipped
    <3>2. l \in Configured /\ (RunningPID = NoPid => l \notin HasPid)
      BY <2>1, <2>2, LabelSets
    <3> QED
      BY <2>4, <3>1, <3>2 DEF Equipped, Configured
  <2>6. cfg' = [cfg EXCEPT ![t] = cfg[t]] /\ req' = [req EXCEPT ![t] = req[t]]
    BY <1>0, <2>3 DEF Hands
  <2>7. cfg[t] \in Configs \cup {NoConfig} /\ req[t] \in Requests \cup {NoRequest}
    BY <1>0 DEF Hands
  <2> QED
    BY <1>0, <2>2, <2>3, <2>4, <2>5, <2>6, <2>7, Moves
<1>7. CASE Terminate(t) \/ Await(t) \/ RemovePidfile(t)
  <2>1. {"unpid", "k.write"} \subseteq Plain /\ {"term", "await"} \subseteq HasPid
    BY DEF Plain, HasPid
  <2>2. \/ pc[t] = "term" /\ Step(t, "await")
        \/ pc[t] \in {"await", "unpid"} /\ (Step(t, "unpid") \/ Step(t, "k.write"))
    BY <1>7 DEF Terminate, Await, RemovePidfile
  <2> QED
    BY <1>0, <2>1, <2>2, LabelSets, PlainMoves, PidMoves DEF Step
<1>8. CASE Hup(t)
  <2>1. "enable" \in Plain /\ "hup" \in HasPid
    BY DEF Plain, HasPid
  <2>2. pc[t] = "hup" /\ (Finish(t) \/ Step(t, "enable"))
    BY <1>8 DEF Hup
  <2> QED
    BY <1>0, <2>1, <2>2, LabelSets, FinishMoves, PlainMoves DEF Step
<1> QED
  BY <1>1, <1>2, <1>3, <1>4, <1>5, <1>6, <1>7, <1>8 DEF HandlerStep

LEMMA LoopStepMoves ==
  ASSUME TypeInv, NEW l \in Loops, LoopStep(l)
  PROVE  Hands'
<1>0. Hands /\ l \in Threads
  BY DEF TypeInv, Threads
<1>1. CASE Wake(l)
  <2>1. PICK c \in Configs \cup {NoConfig}, a \in {"l.probe", "idle"} :
          /\ pc' = [pc EXCEPT ![l] = a] /\ cfg' = [cfg EXCEPT ![l] = c]
          /\ a = "l.probe" => c \in Configs
    <3>1. CASE desired
      <4>1. supCfg \in Configs
        BY <3>1 DEF TypeInv, SupOK
      <4> QED
        BY <1>1, <3>1, <4>1 DEF Wake
    <3>2. CASE ~desired
      BY <1>1, <3>2 DEF Wake
    <3> QED
      BY <3>1, <3>2
  <2>2. Equipped(a, c, pid[l])
    BY <2>1 DEF Equipped, Labels, Configured, HasPid
  <2>3. pid' = [pid EXCEPT ![l] = pid[l]] /\ req' = [req EXCEPT ![l] = req[l]]
    BY <1>0, <1>1 DEF Wake, Hands
  <2>4. pid[l] \in Pids \cup {NoPid} /\ req[l] \in Requests \cup {NoRequest}
    BY <1>0 DEF Hands
  <2> QED
    BY <1>0, <2>1, <2>2, <2>3, <2>4, Moves
<1>2. CASE LoopProbe(l)
  <2>1. {"l.probe", "check"} \subseteq Plain
    BY DEF Plain
  <2>2. pc[l] = "l.probe" /\ (Finish(l) \/ Step(l, "check"))
    BY <1>2 DEF LoopProbe
  <2> QED
    BY <1>0, <2>1, <2>2, LabelSets, FinishMoves, PlainMoves DEF Step
<1>3. CASE LoopReturns(l)
  BY <1>0, <1>3 DEF LoopReturns, threadVars, Hands
<1>4. CASE StartStep(l)
  BY <1>0, <1>4, StartStepMoves
<1> QED
  BY <1>1, <1>2, <1>3, <1>4 DEF LoopStep

(* A handler that accepts a request is done with it at once or takes it up.*)
LEMMA AcceptTakes ==
  ASSUME NEW t, NEW r, Accept(t, r)
  PROVE  \/ UNCHANGED threadVars
         \/ /\ \E l \in {"m.probe", "resume", "load"} : pc' = [pc EXCEPT ![t] = l]
            /\ req' = [req EXCEPT ![t] = r]
            /\ UNCHANGED <<cfg, pid>>
<1>1. TakeUp(t, r) \/ UNCHANGED threadVars
  BY DEF Accept, EditFails
<1> QED
  BY <1>1 DEF TakeUp, Goto

LEMMA AcceptMoves ==
  ASSUME TypeInv, NEW t \in Handlers, NEW r \in Requests, Accept(t, r)
  PROVE  Hands'
<1>0. Hands /\ t \in Threads
  BY DEF TypeInv, Threads
<1>1. CASE UNCHANGED threadVars
  BY <1>0, <1>1 DEF threadVars, Hands
<1>2. ASSUME NEW l \in {"m.probe", "resume", "load"}, pc' = [pc EXCEPT ![t] = l],
             req' = [req EXCEPT ![t] = r], UNCHANGED <<cfg, pid>>
      PROVE  Hands'
  <2>1. Equipped(l, cfg[t], pid[t])
    BY DEF Equipped, Labels, Configured, HasPid
  <2>2. cfg' = [cfg EXCEPT ![t] = cfg[t]] /\ pid' = [pid EXCEPT ![t] = pid[t]]
    BY <1>0, <1>2 DEF Hands
  <2>3. pid[t] \in Pids \cup {NoPid} /\ cfg[t] \in Configs \cup {NoConfig}
    BY <1>0 DEF Hands
  <2> QED
    BY <1>0, <1>2, <2>1, <2>2, <2>3, Moves
<1> QED
  BY <1>1, <1>2, AcceptTakes

LEMMA HandsVanish == ASSUME NEW boot \in {"boot", "idle"}, Vanish(boot) PROVE Hands'
<1>1. pc' \in [Threads \cup {Boot} -> Labels \cup {"boot"}]
  BY DEF Vanish, Labels
<1>2. \A t \in Threads : Equipped(pc'[t], cfg'[t], pid'[t])
  BY BootIsNoThread DEF Vanish, Equipped, Labels, Configured, HasPid
<1>3. pc'[Boot] \in {"boot", "idle"}
  BY DEF Vanish
<1> QED
  BY <1>1, <1>2, <1>3 DEF Hands, Vanish

LEMMA HandsInit == Init => Hands
<1> SUFFICES ASSUME Init PROVE Hands
  OBVIOUS
<1>1. pc \in [Threads \cup {Boot} -> Labels \cup {"boot"}] /\ pc[Boot] \in {"boot", "idle"}
  BY DEF Init, Labels
<1>2. \A t \in Threads : Equipped(pc[t], cfg[t], pid[t])
  BY BootIsNoThread DEF Init, Equipped, Labels, Configured, HasPid
<1> QED
  BY <1>1, <1>2 DEF Hands, Init

LEMMA HandsStep == TypeInv /\ [Next]_vars => Hands'
<1> SUFFICES ASSUME TypeInv, [Next]_vars
             PROVE  Hands'
  OBVIOUS
<1>0. Hands
  BY DEF TypeInv
<1>1. ASSUME NEW t \in Handlers, NEW r \in Requests, Accept(t, r)
      PROVE  Hands'
  BY <1>1, AcceptMoves
<1>2. ASSUME NEW t \in Handlers, HandlerStep(t)
      PROVE  Hands'
  BY <1>2, HandlerStepMoves
<1>3. ASSUME NEW l \in Loops, LoopStep(l)
      PROVE  Hands'
  BY <1>3, LoopStepMoves
<1>4. ASSUME NEW g, GoLoop(g)
      PROVE  Hands'
  BY <1>0, <1>4 DEF GoLoop, threadVars, Hands
<1>5. ASSUME NEW p \in Pids, Die(p) \/ Reap(p)
      PROVE  Hands'
  BY <1>0, <1>5 DEF Die, Reap, threadVars, Hands
<1>6. CASE BootSupervisor
  <2>1. pc' = [pc EXCEPT ![Boot] = "idle"] /\ UNCHANGED <<cfg, pid, req>> /\ "idle" \in Labels
    BY <1>6 DEF BootSupervisor, Labels
  <2>2. /\ pc' \in [Threads \cup {Boot} -> Labels \cup {"boot"}] /\ pc'[Boot] = "idle"
        /\ \A t \in Threads : pc'[t] = pc[t]
    BY <1>0, <2>1, BootIsNoThread DEF Hands
  <2> QED
    BY <1>0, <2>1, <2>2 DEF Hands
<1>7. CASE DaemonCrash \/ Reboot
  BY <1>7, HandsVanish DEF DaemonCrash, Reboot, Cut
<1>8. CASE UNCHANGED vars
  BY <1>0, <1>8 DEF vars, threadVars, Hands
<1> QED
  BY <1>1, <1>2, <1>3, <1>4, <1>5, <1>6, <1>7, <1>8 DEF Next, DaemonStep, Tracked, Serve, Work

-----------------------------------------------------------------------------
(* The other parts, each looked at in the actions that touch it.           *)

(* What a step of a goroutine does to the supervisor: a critical section   *)
(* or nothing.                                                             *)
SupStep(t) ==
  \/ UNCHANGED supVars
  \/ t \in Loops /\ (Sup!Continue(t) \/ Sup!Snapshot(t) \/ Sup!SupervisorStopped(t))
  \/ t \in Handlers /\ Sup!DisableSupervisor(t)
  \/ t \in Handlers /\ \E c \in Configs : Sup!EnableSupervisor(t, c)

LEMMA FinishSup == ASSUME NEW t \in Threads, Finish(t) PROVE SupStep(t)
BY DEF Finish, SupStep

LEMMA StartStepSup == ASSUME NEW t \in Threads, StartStep(t) PROVE SupStep(t)
<1> USE DEF Step
<1>1. CASE Finish(t)
  BY <1>1, FinishSup
<1>2. CASE UNCHANGED supVars
  BY <1>2 DEF SupStep
<1>3. ASSUME Started(t)
      PROVE  Finish(t) \/ UNCHANGED supVars
  BY <1>3 DEF Started
<1>4. ASSUME NEW ok, Stopped(t, ok)
      PROVE  Finish(t) \/ UNCHANGED supVars
  BY <1>4 DEF Stopped
<1>5. CASE Check(t) \/ Validate(t) \/ GenerateFails(t)
  BY <1>1, <1>2, <1>3, <1>5 DEF Check, Validate, GenerateFails
<1>6. CASE ApplyWrite(t) \/ ApplyLoad(t)
  BY <1>1, <1>2, <1>6 DEF ApplyWrite, ApplyLoad, ApplyFailed
<1>7. CASE Spawn(t) \/ WritePidfile(t) \/ Settle(t)
  BY <1>1, <1>2, <1>3, <1>7 DEF Spawn, WritePidfile, Settle
<1>8. CASE CleanupWrite(t) \/ CleanupLoad(t)
  BY <1>1, <1>2, <1>4, <1>8 DEF CleanupWrite, CleanupLoad, CleanedUp
<1> QED
  BY <1>5, <1>6, <1>7, <1>8 DEF StartStep

LEMMA HandlerStepSup == ASSUME Hands, NEW t \in Handlers, HandlerStep(t) PROVE SupStep(t)
<1>0. t \in Threads
  BY DEF Threads
<1>1. CASE MutationProbe(t) \/ Resume(t) \/ LoadFails(t) \/ Hold(t) \/ Hup(t)
  BY <1>0, <1>1, FinishSup DEF MutationProbe, Resume, LoadFails, Hold, Hup, Step, SupStep
<1>2. CASE StartStep(t)
  BY <1>0, <1>2, StartStepSup
<1>3. CASE Enable(t)
  <2>1. "enable" \in Configured
    BY DEF Configured, Labels
  <2>2. cfg[t] \in Configs
    BY <1>0, <1>3, <2>1 DEF Enable, Hands, Equipped
  <2> QED
    BY <1>3, <2>2 DEF Enable, SupStep
<1>4. CASE Disable(t)
  BY <1>4 DEF Disable, SupStep
<1>5. CASE Load(t) \/ Probe(t) \/ Terminate(t) \/ Await(t) \/ RemovePidfile(t) \/ ReloadProbe(t)
  BY <1>5 DEF Load, Probe, Terminate, Await, RemovePidfile, ReloadProbe, Step, SupStep
<1> QED
  BY <1>1, <1>2, <1>3, <1>4, <1>5 DEF HandlerStep

LEMMA LoopStepSup == ASSUME NEW l \in Loops, LoopStep(l) PROVE SupStep(l)
<1>0. l \in Threads
  BY DEF Threads
<1>1. CASE Wake(l) \/ LoopReturns(l)
  BY <1>1 DEF Wake, LoopReturns, SupStep
<1>2. CASE LoopProbe(l)
  BY <1>0, <1>2, FinishSup DEF LoopProbe, Step, SupStep
<1>3. CASE StartStep(l)
  BY <1>0, <1>3, StartStepSup
<1> QED
  BY <1>1, <1>2, <1>3 DEF LoopStep

(* So every step of the runtime is one of Supervisor, or leaves it alone.  *)
LEMMA Supervised == TypeInv /\ [Next]_vars => [Sup!SupNext]_supVars
<1> SUFFICES ASSUME TypeInv, [Next]_vars
             PROVE  Sup!SupNext \/ UNCHANGED supVars
  OBVIOUS
<1>1. ASSUME NEW t \in Threads, SupStep(t)
      PROVE  Sup!SupNext \/ UNCHANGED supVars
  <2>1. ASSUME t \in Loops, Sup!Continue(t) \/ Sup!Snapshot(t) \/ Sup!SupervisorStopped(t)
        PROVE  Sup!SupNext
    BY <2>1 DEF Sup!SupNext, Sup!LoopStep
  <2>2. ASSUME t \in Handlers,
               Sup!DisableSupervisor(t) \/ \E c \in Configs : Sup!EnableSupervisor(t, c)
        PROVE  Sup!SupNext
    BY <2>2 DEF Sup!SupNext
  <2> QED
    BY <1>1, <2>1, <2>2 DEF SupStep
<1>2. ASSUME NEW t \in Handlers, NEW r \in Requests, Accept(t, r)
      PROVE  UNCHANGED supVars
  BY <1>2 DEF Accept
<1>3. ASSUME NEW t \in Handlers, HandlerStep(t)
      PROVE  SupStep(t) /\ t \in Threads
  BY <1>3, HandlerStepSup DEF TypeInv, Threads
<1>4. ASSUME NEW l \in Loops, LoopStep(l)
      PROVE  SupStep(l) /\ l \in Threads
  BY <1>4, LoopStepSup DEF Threads
<1>5. ASSUME NEW g \in Threads \cup {Boot}, GoLoop(g)
      PROVE  Sup!SupNext
  BY <1>5 DEF GoLoop, Sup!SupNext, Threads
<1>6. ASSUME NEW p \in Pids, Die(p) \/ Reap(p)
      PROVE  UNCHANGED supVars
  BY <1>6 DEF Die, Reap
<1>7. CASE BootSupervisor
  <2> DEFINE c == [enabled |-> uci.enabled, mode |-> uci.mode]
  <2>1. c \in Configs
    BY DEF TypeInv, Settings, Configs
  <2>2. Sup!EnableSupervisor(Boot, c) \/ UNCHANGED supVars
    BY <1>7 DEF BootSupervisor
  <2> HIDE DEF c
  <2> QED
    BY <2>1, <2>2 DEF Sup!SupNext
<1>8. CASE DaemonCrash \/ Reboot
  BY <1>8 DEF DaemonCrash, Reboot, Cut, Vanish, Sup!SupNext
<1>9. CASE UNCHANGED vars
  BY <1>9 DEF vars
<1> QED
  BY <1>1, <1>2, <1>3, <1>4, <1>5, <1>6, <1>7, <1>8, <1>9
     DEF Next, DaemonStep, Tracked, Serve, Work

LEMMA SupInitOK == Init => SupOK
<1>1. Init => Sup!SupInit
  BY DEF Init
<1>2. Sup!SupInit => Sup!SupTypeOK /\ ~desired
  BY DEF Sup!SupInit, Sup!SupTypeOK, Sup!Phases
<1> QED
  BY <1>1, <1>2 DEF SupOK

LEMMA SupOKStep == TypeInv /\ [Next]_vars => SupOK'
<1> SUFFICES ASSUME SupOK, [Sup!SupNext]_supVars
             PROVE  SupOK'
  BY Supervised DEF TypeInv
<1> USE DEF SupOK, Sup!SupTypeOK, Sup!Phases
<1>1. ASSUME NEW t \in Handlers \cup {Boot}, NEW c \in Configs, Sup!EnableSupervisor(t, c)
      PROVE  SupOK'
  BY <1>1 DEF Sup!EnableSupervisor
<1>2. ASSUME NEW t \in Handlers \cup {Boot}, Sup!DisableSupervisor(t)
      PROVE  SupOK'
  BY <1>2 DEF Sup!DisableSupervisor
<1>3. ASSUME NEW g \in Handlers \cup {Boot} \cup Loops, Sup!SpawnLoop(g)
      PROVE  SupOK'
  BY <1>3 DEF Sup!SpawnLoop
<1>4. ASSUME NEW l \in Loops, Sup!Snapshot(l)
      PROVE  SupOK'
  BY <1>4 DEF Sup!Snapshot
<1>5. ASSUME NEW l \in Loops, Sup!Continue(l)
      PROVE  SupOK'
  BY <1>5 DEF Sup!Continue
<1>6. ASSUME NEW l \in Loops, Sup!SupervisorStopped(l)
      PROVE  SupOK'
  BY <1>6 DEF Sup!SupervisorStopped
<1>7. CASE Sup!Respawn
  BY <1>7 DEF Sup!Respawn
<1>8. CASE UNCHANGED supVars
  BY <1>8 DEF supVars
<1> HIDE DEF SupOK
<1> QED
  BY <1>1, <1>2, <1>3, <1>4, <1>5, <1>6, <1>7, <1>8 DEF Sup!SupNext, Sup!LoopStep

(* What a step does to the sing-box processes and the pidfile.             *)
LEMMA DeadProcess == Dead \in Process
BY DEF Dead, Process

LEMMA DropKeeps == ASSUME Processes, DropStalePidfile PROVE pidfile' \in Pids \cup {NoPid}
BY DEF Processes, DropStalePidfile, RunningPID, Up

LEMMA ExitKeeps ==
  ASSUME Processes, NEW p \in Pids, Exit(p)
  PROVE  /\ serving' \in Pids \cup {NoPid}
         /\ proc' \in [Pids -> Process]
<1>1. proc[p] \in Process
  BY DEF Processes
<1>2. Dead \in Process /\ [proc[p] EXCEPT !.state = "zombie"] \in Process
  BY <1>1 DEF Process, Dead
<1>3. \/ proc' = [proc EXCEPT ![p] = Dead]
      \/ proc' = [proc EXCEPT ![p] = [proc[p] EXCEPT !.state = "zombie"]]
  BY DEF Exit
<1> QED
  BY <1>2, <1>3 DEF Processes, Exit

LEMMA StartStepProcesses ==
  ASSUME TypeInv, NEW t \in Threads, StartStep(t)
  PROVE  Processes'
<1>0. Processes
  BY DEF TypeInv
<1>1. CASE UNCHANGED <<pidfile, procVars>>
  BY <1>0, <1>1 DEF Processes, procVars
<1>2. CASE Check(t)
  <2>1. UNCHANGED procVars /\ (DropStalePidfile \/ UNCHANGED pidfile)
    BY <1>2 DEF Check
  <2> QED
    BY <1>0, <2>1, DropKeeps DEF Processes, procVars
<1>3. CASE Validate(t) \/ GenerateFails(t) \/ ApplyWrite(t) \/ ApplyLoad(t) \/ Settle(t)
           \/ CleanupWrite(t) \/ CleanupLoad(t)
  BY <1>1, <1>3 DEF Validate, GenerateFails, ApplyWrite, ApplyLoad, Settle, CleanupWrite,
                    CleanupLoad
<1>4. CASE Spawn(t)
  <2>1. UNCHANGED pidfile
    BY <1>4 DEF Spawn
  <2>2. CASE UNCHANGED procVars
    BY <1>1, <2>1, <2>2
  <2>3. ASSUME NEW p \in Pids, pid' = [pid EXCEPT ![t] = p],
               proc' = [proc EXCEPT ![pid'[t]] = [Dead EXCEPT !.state = "up", !.mode = conf,
                                                              !.parent = "daemon"]],
               serving' = IF serving = NoPid THEN pid'[t] ELSE serving
        PROVE  Processes'
    <3>1. pid'[t] = p
      BY <2>3 DEF TypeInv, Hands
    <3>2. conf \in Modes
      BY DEF TypeInv, Settings
    <3>3. [Dead EXCEPT !.state = "up", !.mode = conf, !.parent = "daemon"]
            \in Process
      BY <3>2 DEF Dead, Process
    <3> QED
      BY <1>0, <2>1, <2>3, <3>1, <3>3 DEF Processes
  <2> QED
    BY <1>4, <2>2, <2>3 DEF Spawn, FreePids
<1>5. CASE WritePidfile(t)
  <2>1. pid[t] \in Pids
    BY <1>5 DEF WritePidfile, TypeInv, Hands, Equipped, HasPid
  <2>2. Dead \in Process /\ [proc[pid[t]] EXCEPT !.parent = "waiter"] \in Process
    BY <1>0, <2>1 DEF Processes, Process, Dead
  <2>3. \/ /\ proc' = [proc EXCEPT ![pid[t]] = [proc[pid[t]] EXCEPT !.parent = "waiter"]]
           /\ pidfile' = pid[t] /\ serving' = serving
        \/ /\ proc' = [proc EXCEPT ![pid[t]] = Dead]
           /\ pidfile' = pidfile /\ serving' \in {serving, NoPid}
    BY <1>5 DEF WritePidfile
  <2> QED
    BY <1>0, <2>1, <2>2, <2>3 DEF Processes
<1> QED
  BY <1>2, <1>3, <1>4, <1>5 DEF StartStep

LEMMA ProcessesStep == TypeInv /\ [Next]_vars => Processes'
<1> SUFFICES ASSUME TypeInv, [Next]_vars
             PROVE  Processes'
  OBVIOUS
<1>0. Processes
  BY DEF TypeInv
<1>1. CASE UNCHANGED <<pidfile, procVars>>
  BY <1>0, <1>1 DEF Processes, procVars
<1>2. CASE DropStalePidfile /\ UNCHANGED procVars
  BY <1>0, <1>2, DropKeeps DEF Processes, procVars
<1>3. ASSUME NEW t \in Handlers, NEW r \in Requests, Accept(t, r)
      PROVE  Processes'
  BY <1>1, <1>3 DEF Accept
<1>4. ASSUME NEW t \in Handlers, HandlerStep(t)
      PROVE  Processes'
  <2>0. t \in Threads
    BY DEF Threads
  <2>1. CASE MutationProbe(t) \/ Probe(t) \/ ReloadProbe(t)
    BY <1>2, <2>1 DEF MutationProbe, Probe, ReloadProbe
  <2>2. CASE Resume(t) \/ Load(t) \/ LoadFails(t) \/ Hold(t) \/ Enable(t) \/ Disable(t)
    BY <1>1, <2>2 DEF Resume, Load, LoadFails, Hold, Enable, Disable
  <2>3. CASE StartStep(t)
    BY <2>0, <2>3, StartStepProcesses
  <2>4. CASE Terminate(t) \/ Hup(t)
    <3>1. conf \in Modes
      BY DEF TypeInv, Settings
    <3>2. /\ UNCHANGED <<pidfile, serving>>
          /\ \/ proc' = proc
             \/ /\ pid[t] \in Pids
                /\ \/ proc' = [proc EXCEPT ![pid[t]] = [proc[pid[t]] EXCEPT !.termed = TRUE]]
                   \/ proc' = [proc EXCEPT ![pid[t]] = [proc[pid[t]] EXCEPT !.mode = conf]]
      <4>1. pid[t] \in Up => pid[t] \in Pids
        BY DEF Up
      <4>2. CASE Terminate(t)
        BY <4>1, <4>2 DEF Terminate
      <4>3. CASE Hup(t)
        BY <4>1, <4>3 DEF Hup
      <4> QED
        BY <2>4, <4>2, <4>3
    <3>3. ASSUME pid[t] \in Pids
          PROVE  /\ [proc[pid[t]] EXCEPT !.termed = TRUE] \in Process
                 /\ [proc[pid[t]] EXCEPT !.mode = conf] \in Process
      <4>1. proc[pid[t]] \in Process
        BY <1>0, <3>3 DEF Processes
      <4>2. [proc[pid[t]] EXCEPT !.termed = TRUE] \in Process
        BY <4>1 DEF Process
      <4>3. [proc[pid[t]] EXCEPT !.mode = conf] \in Process
        BY <3>1, <4>1 DEF Process
      <4> QED
        BY <4>2, <4>3
    <3> QED
      BY <1>0, <3>2, <3>3 DEF Processes
  <2>5. CASE Await(t)
    <3>1. CASE UNCHANGED procVars
      BY <1>1, <2>5, <3>1 DEF Await
    <3>2. CASE pid[t] \in Up /\ Exit(pid[t])
      <4>1. pid[t] \in Pids /\ UNCHANGED pidfile
        BY <2>5, <3>2 DEF Await, Up
      <4> QED
        BY <1>0, <3>2, <4>1, ExitKeeps DEF Processes
    <3> QED
      BY <2>5, <3>1, <3>2 DEF Await
  <2>6. CASE RemovePidfile(t)
    BY <1>0, <2>6 DEF RemovePidfile, Processes, procVars
  <2> QED
    BY <1>4, <2>1, <2>2, <2>3, <2>4, <2>5, <2>6 DEF HandlerStep
<1>5. ASSUME NEW l \in Loops, LoopStep(l)
      PROVE  Processes'
  <2>0. l \in Threads
    BY DEF Threads
  <2>1. CASE Wake(l) \/ LoopReturns(l)
    BY <1>1, <2>1 DEF Wake, LoopReturns
  <2>2. CASE LoopProbe(l)
    BY <1>2, <2>2 DEF LoopProbe
  <2>3. CASE StartStep(l)
    BY <2>0, <2>3, StartStepProcesses
  <2> QED
    BY <1>5, <2>1, <2>2, <2>3 DEF LoopStep
<1>6. ASSUME NEW g, GoLoop(g)
      PROVE  Processes'
  BY <1>1, <1>6 DEF GoLoop
<1>7. ASSUME NEW p \in Pids, Die(p)
      PROVE  Processes'
  BY <1>0, <1>7, ExitKeeps DEF Die, Processes
<1>8. ASSUME NEW p \in Pids, Reap(p)
      PROVE  Processes'
  BY <1>0, <1>8, DeadProcess DEF Reap, Processes
<1>9. CASE BootSupervisor
  BY <1>1, <1>2, <1>9 DEF BootSupervisor
<1>10. CASE DaemonCrash
  <2>1. \A p \in Pids : [proc[p] EXCEPT !.parent = "init"] \in Process
    BY <1>0 DEF Processes, Process
  <2> QED
    BY <1>0, <1>10, <2>1, DeadProcess DEF DaemonCrash, Reparent, Processes
<1>11. CASE Reboot
  BY <1>11, DeadProcess DEF Reboot, Processes
<1>12. CASE UNCHANGED vars
  BY <1>1, <1>12 DEF vars
<1> QED
  BY <1>3, <1>4, <1>5, <1>6, <1>7, <1>8, <1>9, <1>10, <1>11, <1>12
     DEF Next, DaemonStep, Tracked, Serve, Work

(* The firewall, the settings and the bounds.                              *)
LEMMA Targets ==
  ASSUME Hands, NEW t \in Threads
  PROVE  /\ cfg[t] \in Configs => ApplyTarget(cfg[t]) \in {"none", "proxy", "proxykill"}
         /\ CleanupTarget(t) \in {"none", "kill"}
<1>1. ASSUME NEW c \in Configs
      PROVE  ApplyTarget(c) \in {"none", "proxy", "proxykill"}
  <2>1. c.mode = "off" \/ c.mode = "tproxy" \/ c.mode = "kill"
    BY RuntimeConstants DEF RuntimeConstants, Configs
  <2> QED
    BY <2>1 DEF ApplyTarget
<1>2. CleanupTarget(t) \in {"none", "kill"}
  BY DEF CleanupTarget
<1> QED
  BY <1>1, <1>2

LEMMA FirewallStep == TypeInv /\ [Next]_vars => Firewall'
<1> SUFFICES ASSUME TypeInv, [Next]_vars
             PROVE  Firewall'
  OBVIOUS
<1>0. Firewall
  BY DEF TypeInv
<1>1. CASE UNCHANGED fwVars
  BY <1>0, <1>1 DEF Firewall, fwVars
<1>2. ASSUME NEW t \in Threads, StartStep(t)
      PROVE  Firewall'
  <2>1. CASE Check(t) \/ Validate(t) \/ GenerateFails(t) \/ Spawn(t) \/ WritePidfile(t) \/ Settle(t)
    BY <1>1, <2>1 DEF Check, Validate, GenerateFails, Spawn, WritePidfile, Settle
  <2>2. CASE ApplyWrite(t)
    <3>1. ApplyTarget(cfg[t]) \in Includes
      <4>1. pc[t] \in Configured
        BY <2>2 DEF ApplyWrite, Configured, Labels
      <4>2. cfg[t] \in Configs
        BY <4>1 DEF TypeInv, Hands, Equipped
      <4> QED
        BY <4>2, Targets DEF TypeInv, Includes
    <3> QED
      BY <1>0, <2>2, <3>1 DEF ApplyWrite, Firewall
  <2>3. CASE ApplyLoad(t)
    BY <1>0, <2>3 DEF ApplyLoad, Firewall
  <2>4. CASE CleanupWrite(t)
    <3>1. CleanupTarget(t) \in Includes
      BY Targets DEF TypeInv, Includes
    <3> QED
      BY <1>0, <2>4, <3>1 DEF CleanupWrite, Firewall
  <2>5. CASE CleanupLoad(t)
    BY <1>0, <2>5 DEF CleanupLoad, Firewall
  <2> QED
    BY <1>2, <2>1, <2>2, <2>3, <2>4, <2>5 DEF StartStep
<1>3. ASSUME NEW t \in Handlers, NEW r \in Requests, Accept(t, r)
      PROVE  Firewall'
  BY <1>1, <1>3 DEF Accept
<1>4. ASSUME NEW t \in Handlers, HandlerStep(t)
      PROVE  Firewall'
  BY <1>1, <1>2, <1>4
     DEF HandlerStep, Threads, MutationProbe, Resume, Load, LoadFails, Hold, Enable, Disable, Probe,
         Terminate, Await, RemovePidfile, ReloadProbe, Hup
<1>5. ASSUME NEW l \in Loops, LoopStep(l)
      PROVE  Firewall'
  BY <1>1, <1>2, <1>5 DEF LoopStep, Threads, Wake, LoopProbe, LoopReturns
<1>6. ASSUME NEW g, GoLoop(g)
      PROVE  Firewall'
  BY <1>1, <1>6 DEF GoLoop
<1>7. ASSUME NEW p \in Pids, Die(p) \/ Reap(p)
      PROVE  Firewall'
  BY <1>1, <1>7 DEF Die, Reap
<1>8. CASE BootSupervisor \/ DaemonCrash
  BY <1>1, <1>8 DEF BootSupervisor, DaemonCrash
<1>9. CASE Reboot
  BY <1>0, <1>9 DEF Reboot, Firewall
<1>10. CASE UNCHANGED vars
  BY <1>1, <1>10 DEF vars
<1> QED
  BY <1>3, <1>4, <1>5, <1>6, <1>7, <1>8, <1>9, <1>10
     DEF Next, DaemonStep, Tracked, Serve, Work

(* An edit sets one thing, and says which; or it fails.                    *)
LEMMA AcceptEdits ==
  ASSUME NEW t, NEW r, Accept(t, r)
  PROVE  /\ conf' = conf
         /\ \/ r \in {"start", "restart", "resume"} /\ uci' = [uci EXCEPT !.paused = FALSE]
            \/ r = "pause" /\ uci' = [uci EXCEPT !.paused = TRUE]
            \/ \E b \in BOOLEAN : uci' = [uci EXCEPT !.enabled = b]
            \/ \E m \in Modes : uci' = [uci EXCEPT !.mode = m]
            \/ uci' = uci
<1>1. conf' = conf /\ (FirstEdit(r) \/ uci' = uci)
  BY DEF Accept, EditFails
<1>2. CASE r \in {"start", "restart", "resume"}
  BY <1>1, <1>2 DEF FirstEdit
<1>3. CASE r = "pause"
  BY <1>1, <1>3 DEF FirstEdit
<1>4. CASE r = "enable"
  BY <1>1, <1>4 DEF FirstEdit
<1>5. CASE r = "disable"
  BY <1>1, <1>5 DEF FirstEdit
<1>6. CASE r = "mutate"
  BY <1>1, <1>6 DEF FirstEdit
<1>7. CASE r \notin {"start", "restart", "resume", "pause", "enable", "disable", "mutate"}
  BY <1>1, <1>7 DEF FirstEdit
<1> QED
  BY <1>1, <1>2, <1>3, <1>4, <1>5, <1>6, <1>7

LEMMA SettingsStep == TypeInv /\ [Next]_vars => Settings'
<1> SUFFICES ASSUME TypeInv, [Next]_vars
             PROVE  Settings'
  OBVIOUS
<1>0. Settings
  BY DEF TypeInv
<1>1. CASE UNCHANGED <<uci, conf>>
  BY <1>0, <1>1 DEF Settings
<1>2. ASSUME NEW t \in Threads, StartStep(t)
      PROVE  Settings'
  <2>1. CASE Validate(t)
    <3>1. pc[t] \in Configured
      BY <2>1 DEF Validate, Configured, Labels
    <3>2. cfg[t].mode \in Modes
      BY <3>1 DEF TypeInv, Hands, Equipped, Configs
    <3> QED
      BY <1>0, <2>1, <3>2 DEF Validate, Settings
  <2>2. CASE Check(t) \/ GenerateFails(t) \/ Spawn(t) \/ WritePidfile(t) \/ Settle(t)
    BY <1>1, <2>2 DEF Check, GenerateFails, Spawn, WritePidfile, Settle
  <2>3. CASE ApplyWrite(t) \/ ApplyLoad(t) \/ CleanupWrite(t) \/ CleanupLoad(t)
    BY <1>1, <2>3 DEF ApplyWrite, ApplyLoad, CleanupWrite, CleanupLoad
  <2> QED
    BY <1>2, <2>1, <2>2, <2>3 DEF StartStep
<1>3. ASSUME NEW t \in Handlers, NEW r \in Requests, Accept(t, r)
      PROVE  Settings'
  BY <1>0, <1>3, AcceptEdits DEF Settings
<1>4. ASSUME NEW t \in Handlers, HandlerStep(t)
      PROVE  Settings'
  <2>1. CASE Hold(t)
    BY <1>0, <2>1 DEF Hold, Settings
  <2>2. CASE MutationProbe(t) \/ Resume(t) \/ Load(t) \/ LoadFails(t) \/ Enable(t) \/ Disable(t)
             \/ Probe(t) \/ Terminate(t) \/ Await(t) \/ RemovePidfile(t) \/ ReloadProbe(t) \/ Hup(t)
    BY <1>1, <2>2 DEF MutationProbe, Resume, Load, LoadFails, Enable, Disable, Probe, Terminate,
                      Await, RemovePidfile, ReloadProbe, Hup
  <2> QED
    BY <1>2, <1>4, <2>1, <2>2 DEF HandlerStep, Threads
<1>5. ASSUME NEW l \in Loops, LoopStep(l)
      PROVE  Settings'
  BY <1>1, <1>2, <1>5 DEF LoopStep, Threads, Wake, LoopProbe, LoopReturns
<1>6. ASSUME NEW g, GoLoop(g)
      PROVE  Settings'
  BY <1>1, <1>6 DEF GoLoop
<1>7. ASSUME NEW p \in Pids, Die(p) \/ Reap(p)
      PROVE  Settings'
  BY <1>1, <1>7 DEF Die, Reap
<1>8. CASE BootSupervisor \/ DaemonCrash \/ Reboot
  BY <1>1, <1>8 DEF BootSupervisor, DaemonCrash, Reboot
<1>9. CASE UNCHANGED vars
  BY <1>1, <1>9 DEF vars
<1> QED
  BY <1>3, <1>4, <1>5, <1>6, <1>7, <1>8, <1>9 DEF Next, DaemonStep, Tracked, Serve, Work

(* A bound is spent on one event or kept; a request whose edit fails       *)
(* counts on two.                                                          *)
Spent ==
  \/ UNCHANGED budget
  \/ \E w \in {"ops", "faults", "deaths", "restarts"} :
       budget[w] > 0 /\ budget' = [budget EXCEPT ![w] = @ - 1]
  \/ /\ budget.ops > 0 /\ budget.faults > 0
     /\ budget' = [budget EXCEPT !.ops = @ - 1, !.faults = @ - 1]

LEMMA SpentByFault == Fault \/ NoFault => Spent
BY DEF Fault, NoFault, Spent

LEMMA NextSpends == [Next]_vars => Spent
<1> SUFFICES ASSUME [Next]_vars
             PROVE  Spent
  OBVIOUS
<1>0. CASE UNCHANGED budget
  BY <1>0 DEF Spent
<1>1. ASSUME NEW t, StartStep(t)
      PROVE  Fault \/ NoFault
  BY <1>1 DEF StartStep, Check, Validate, GenerateFails, ApplyWrite, ApplyLoad, Spawn,
              WritePidfile, Settle, CleanupWrite, CleanupLoad
<1>2. ASSUME NEW t \in Handlers, HandlerStep(t)
      PROVE  Fault \/ NoFault
  BY <1>1, <1>2 DEF HandlerStep, MutationProbe, Resume, Load, LoadFails, Hold, Enable, Disable,
                    Probe, Terminate, Await, RemovePidfile, ReloadProbe, Hup
<1>3. ASSUME NEW l \in Loops, LoopStep(l)
      PROVE  Spent
  BY <1>0, <1>1, <1>3, SpentByFault DEF LoopStep, Wake, LoopProbe, LoopReturns
<1>4. ASSUME NEW t, NEW r, Accept(t, r)
      PROVE  Spent
  BY <1>4 DEF Accept, EditFails, Spent
<1>5. ASSUME NEW p, Die(p)
      PROVE  Spent
  BY <1>5 DEF Die, Spent
<1>6. ASSUME NEW p, NEW g, Reap(p) \/ GoLoop(g) \/ BootSupervisor
      PROVE  Spent
  BY <1>0, <1>6, SpentByFault DEF Reap, GoLoop, BootSupervisor
<1>7. CASE DaemonCrash \/ Reboot
  BY <1>7 DEF DaemonCrash, Reboot, Cut, Spent
<1>8. CASE UNCHANGED vars
  BY <1>0, <1>8 DEF vars
<1> QED
  BY <1>2, <1>3, <1>4, <1>5, <1>6, <1>7, <1>8, SpentByFault
     DEF Next, DaemonStep, Tracked, Serve, Work

LEMMA LimitsStep == TypeInv /\ [Next]_vars => Limits'
<1> SUFFICES ASSUME Limits, [Next]_vars, Spent
             PROVE  Limits'
  BY NextSpends DEF TypeInv
<1>1. {serial', exclusive', stopped', abandoned'} \subseteq BOOLEAN
  <2>1. CASE DaemonStep
    BY <2>1 DEF Limits, DaemonStep, Tracked
  <2>2. CASE DaemonCrash \/ Reboot \/ UNCHANGED vars
    BY <2>2 DEF Limits, DaemonCrash, Reboot, Cut, Vanish, vars, history
  <2> QED
    BY <2>1, <2>2 DEF Next
<1>2. /\ budget \in [ops : 0..MaxOps, faults : 0..MaxFaults, deaths : 0..MaxDeaths,
                     restarts : 0..MaxRestarts]
      /\ {MaxOps, MaxFaults, MaxDeaths, MaxRestarts} \subseteq Nat
  BY RuntimeConstants DEF Limits, RuntimeConstants
<1>3. budget' \in [ops : 0..MaxOps, faults : 0..MaxFaults, deaths : 0..MaxDeaths,
                   restarts : 0..MaxRestarts]
  <2>1. CASE budget.ops > 0 /\ budget' = [budget EXCEPT !.ops = @ - 1]
    BY <1>2, <2>1
  <2>2. CASE budget.faults > 0 /\ budget' = [budget EXCEPT !.faults = @ - 1]
    BY <1>2, <2>2
  <2>3. CASE budget.deaths > 0 /\ budget' = [budget EXCEPT !.deaths = @ - 1]
    BY <1>2, <2>3
  <2>4. CASE budget.restarts > 0 /\ budget' = [budget EXCEPT !.restarts = @ - 1]
    BY <1>2, <2>4
  <2>5. CASE UNCHANGED budget
    BY <1>2, <2>5
  <2>6. CASE /\ budget.ops > 0 /\ budget.faults > 0
             /\ budget' = [budget EXCEPT !.ops = @ - 1, !.faults = @ - 1]
    <3>1. budget.ops - 1 \in 0..MaxOps /\ budget.faults - 1 \in 0..MaxFaults
      BY <1>2, <2>6
    <3> QED
      BY <1>2, <2>6, <3>1
  <2> QED
    BY <2>1, <2>2, <2>3, <2>4, <2>5, <2>6 DEF Spent
<1> QED
  BY <1>1, <1>3 DEF Limits

LEMMA TypeInvInit == Init => TypeInv
<1> SUFFICES ASSUME Init PROVE TypeInv
  OBVIOUS
<1>1. Processes
  BY DeadProcess DEF Init, Processes
<1>2. Firewall /\ Settings
  BY DEF Init, Firewall, Includes, Settings
<1>3. Limits
  <2>1. {serial, exclusive, stopped, abandoned} \subseteq BOOLEAN
    BY DEF Init
  <2> QED
    BY <2>1, RuntimeConstants DEF Init, Limits, RuntimeConstants
<1> QED
  BY <1>1, <1>2, <1>3, HandsInit, SupInitOK DEF TypeInv

LEMMA TypeInvStep == TypeInv /\ [Next]_vars => TypeInv'
BY HandsStep, SupOKStep, ProcessesStep, FirewallStep, SettingsStep, LimitsStep DEF TypeInv

LEMMA TypeInvCorrect == Safe => []TypeInv
BY TypeInvInit, TypeInvStep, PTL DEF Safe

(* Every variable of the controller keeps its type, whatever the           *)
(* goroutines, the settings, the requests and the bounds are.              *)
THEOREM RuntimeTypeCorrect == Safe => []TypeOK
BY TypeInvCorrect, TypeInvOK, PTL

-----------------------------------------------------------------------------
(* The kill switch.                                                        *)

(* What a step may do to the firewall: write an include for a              *)
(* configuration in hand, or load the one that is there.                   *)
FirewallMove ==
  \/ UNCHANGED <<include, loaded>>
  \/ loaded' = include /\ UNCHANGED include
  \/ /\ UNCHANGED loaded
     /\ \E t \in Threads : /\ cfg[t] \in Configs
                           /\ include' \in {ApplyTarget(cfg[t]), CleanupTarget(t)}

LEMMA NextMovesFirewall == TypeInv /\ [Next]_vars => FirewallMove
<1> SUFFICES ASSUME TypeInv, [Next]_vars
             PROVE  FirewallMove
  OBVIOUS
<1>1. CASE UNCHANGED fwVars
  BY <1>1 DEF FirewallMove, fwVars
<1>2. ASSUME NEW t \in Threads, StartStep(t)
      PROVE  FirewallMove
  <2>1. CASE Check(t) \/ Validate(t) \/ GenerateFails(t) \/ Spawn(t) \/ WritePidfile(t) \/ Settle(t)
    BY <1>1, <2>1 DEF Check, Validate, GenerateFails, Spawn, WritePidfile, Settle
  <2>2. CASE ApplyWrite(t) \/ CleanupWrite(t)
    <3>1. pc[t] \in Configured
      BY <2>2 DEF ApplyWrite, CleanupWrite, Configured, Labels
    <3>2. cfg[t] \in Configs
      BY <3>1 DEF TypeInv, Hands, Equipped
    <3> QED
      BY <2>2, <3>2 DEF ApplyWrite, CleanupWrite, FirewallMove
  <2>3. CASE ApplyLoad(t) \/ CleanupLoad(t)
    BY <2>3 DEF ApplyLoad, CleanupLoad, FirewallMove
  <2> QED
    BY <1>2, <2>1, <2>2, <2>3 DEF StartStep
<1>3. ASSUME NEW t, NEW r, Accept(t, r)
      PROVE  FirewallMove
  BY <1>1, <1>3 DEF Accept
<1>4. ASSUME NEW t \in Handlers, HandlerStep(t)
      PROVE  FirewallMove
  BY <1>1, <1>2, <1>4
     DEF HandlerStep, Threads, MutationProbe, Resume, Load, LoadFails, Hold, Enable, Disable, Probe,
         Terminate, Await, RemovePidfile, ReloadProbe, Hup
<1>5. ASSUME NEW l \in Loops, LoopStep(l)
      PROVE  FirewallMove
  BY <1>1, <1>2, <1>5 DEF LoopStep, Threads, Wake, LoopProbe, LoopReturns
<1>6. ASSUME NEW p, NEW g, Die(p) \/ Reap(p) \/ GoLoop(g)
      PROVE  FirewallMove
  BY <1>1, <1>6 DEF Die, Reap, GoLoop
<1>7. CASE BootSupervisor \/ DaemonCrash
  BY <1>1, <1>7 DEF BootSupervisor, DaemonCrash
<1>8. CASE Reboot
  BY <1>8 DEF Reboot, FirewallMove
<1>9. CASE UNCHANGED vars
  BY <1>1, <1>9 DEF vars
<1> QED
  BY <1>3, <1>4, <1>5, <1>6, <1>7, <1>8, <1>9 DEF Next, DaemonStep, Tracked, Serve, Work

(* The include on flash never falls behind the ruleset in the kernel: this *)
(* is what makes the next fw4 reload, whoever asks for it, and the next    *)
(* boot safe.                                                              *)
Behind == loaded # "none" => include # "none"

(* The kill switch has no gap, where every configuration has it and no     *)
(* teardown is asked for: whatever overlaps, fails or is cut short, no     *)
(* step lets through what was captured or blocked before (CleanupTarget of *)
(* cleanupFirewall, ApplyTarget of applyFirewall).                         *)
THEOREM NoGap ==
  ASSUME Modes \subseteq {"kill"}, "cleanup" \notin Requests
  PROVE  Safe => KillSwitchHasNoGap
<1>1. ASSUME TypeInv, NEW t \in Threads, cfg[t] \in Configs
      PROVE  ApplyTarget(cfg[t]) = "proxykill" /\ CleanupTarget(t) = "kill"
  <2>1. cfg[t].mode = "kill"
    BY <1>1 DEF Configs
  <2>2. req[t] # "cleanup"
    BY <1>1 DEF TypeInv, Hands, NoRequest
  <2> QED
    BY <2>1, <2>2 DEF ApplyTarget, CleanupTarget
<1>2. Init => Behind
  BY DEF Init, Behind
<1>3. TypeInv /\ Behind /\ [Next]_vars => Behind' /\ (loaded # "none" => loaded' # "none")
  <2> SUFFICES ASSUME TypeInv, Behind, FirewallMove
               PROVE  Behind' /\ (loaded # "none" => loaded' # "none")
    BY NextMovesFirewall
  <2> QED
    BY <1>1 DEF Behind, FirewallMove
<1>4. Safe => [](TypeInv /\ Behind)
  BY <1>2, <1>3, TypeInvCorrect, PTL DEF Safe
<1>5. TypeInv /\ Behind /\ [Next]_vars => [loaded # "none" => loaded' # "none"]_vars
  BY <1>3
<1> QED
  BY <1>4, <1>5, PTL DEF Safe, KillSwitchHasNoGap

-----------------------------------------------------------------------------
(* The shape of a step: one goroutine moves, the others stay where they    *)
(* are.                                                                    *)

(* The goroutine goes to l with what it has in hand, or gets a pid there.  *)
GoesOn(t, l) ==
  /\ pc' = [pc EXCEPT ![t] = l]
  /\ UNCHANGED <<cfg, req>>
  /\ \/ UNCHANGED pid
     \/ \E p \in Pids \cup {NoPid} : pid' = [pid EXCEPT ![t] = p]
  /\ UNCHANGED phase

Busy == Labels \ {"idle"}

LEMMA StepGoesOn == ASSUME NEW t, NEW l, Step(t, l) PROVE GoesOn(t, l)
BY DEF Step, Goto, GoesOn, supVars

(* A goroutine of an operation goes on or finishes.                        *)
Proceeds(t) == pc[t] # "idle" /\ (Finish(t) \/ \E l \in Busy : GoesOn(t, l))

LEMMA StartStepProceeds == ASSUME NEW t \in Threads, StartStep(t) PROVE Proceeds(t)
<1>0. {"check", "validate", "write", "r.probe", "load.fw", "r.load.fw", "spawn", "hup", "pidfile",
       "settle", "enable", "c.write", "c.load", "k.load", "hold"} \subseteq Busy
  BY DEF Busy, Labels
<1>1. ASSUME Started(t)
      PROVE  Finish(t) \/ \E l \in Busy : GoesOn(t, l)
  BY <1>0, <1>1, StepGoesOn DEF Started
<1>2. ASSUME NEW ok, Stopped(t, ok)
      PROVE  Finish(t) \/ \E l \in Busy : GoesOn(t, l)
  BY <1>0, <1>2, StepGoesOn DEF Stopped
<1>3. CASE Check(t)
  BY <1>0, <1>1, <1>3, StepGoesOn DEF Check, Proceeds
<1>4. CASE Validate(t) \/ GenerateFails(t)
  BY <1>0, <1>4, StepGoesOn DEF Validate, GenerateFails, Proceeds
<1>5. CASE ApplyWrite(t) \/ ApplyLoad(t)
  <2>1. /\ pc[t] # "idle"
        /\ \/ Finish(t) \/ Step(t, "load.fw") \/ Step(t, "r.load.fw") \/ Step(t, "spawn")
           \/ Step(t, "hup") \/ Step(t, "c.write")
    BY <1>5 DEF ApplyWrite, ApplyLoad, ApplyFailed
  <2> QED
    BY <1>0, <2>1, StepGoesOn DEF Proceeds
<1>6. CASE Spawn(t)
  <2>1. CASE Step(t, "c.write")
    BY <1>0, <1>6, <2>1, StepGoesOn DEF Spawn, Proceeds
  <2>2. CASE /\ \E p \in FreePids : pid' = [pid EXCEPT ![t] = p]
             /\ Goto(t, "pidfile") /\ UNCHANGED <<cfg, req, supVars>>
    <3>1. GoesOn(t, "pidfile")
      BY <2>2 DEF GoesOn, Goto, supVars, FreePids
    <3> QED
      BY <1>0, <1>6, <3>1 DEF Spawn, Proceeds
  <2> QED
    BY <1>6, <2>1, <2>2 DEF Spawn
<1>7. CASE WritePidfile(t) \/ Settle(t)
  BY <1>0, <1>1, <1>7, StepGoesOn DEF WritePidfile, Settle, Proceeds
<1>8. CASE CleanupWrite(t) \/ CleanupLoad(t)
  <2>1. /\ pc[t] # "idle"
        /\ \/ Finish(t) \/ Step(t, "c.load") \/ Step(t, "k.load")
           \/ \E ok \in BOOLEAN : Stopped(t, ok)
    BY <1>8 DEF CleanupWrite, CleanupLoad, CleanedUp
  <2> QED
    BY <1>0, <1>2, <2>1, StepGoesOn DEF Proceeds
<1> QED
  BY <1>3, <1>4, <1>5, <1>6, <1>7, <1>8 DEF StartStep

(* A step of a handler: it goes on, ends, or takes up a configuration.     *)
Handles(t) ==
  \/ Proceeds(t)
  \/ /\ pc[t] # "idle"
     /\ \E l \in Labels : /\ pc' = [pc EXCEPT ![t] = l]
                          /\ l = "idle" => req' = [req EXCEPT ![t] = NoRequest]
     /\ \E c \in Configs \cup {NoConfig} : cfg' = [cfg EXCEPT ![t] = c]
     /\ UNCHANGED pid \/ pid' = [pid EXCEPT ![t] = NoPid]
     /\ UNCHANGED req \/ req' = [req EXCEPT ![t] = NoRequest]
     /\ UNCHANGED phase

LEMMA HandlerStepHandles ==
  ASSUME TypeInv, NEW t \in Handlers, HandlerStep(t)
  PROVE  Handles(t)
<1>0. /\ {"load", "check", "r.validate", "disable", "probe", "unpid", "term", "await", "k.write",
          "r.write", "enable", "hold"} \subseteq Busy
      /\ "idle" \in Labels /\ Busy \subseteq Labels
  BY DEF Busy, Labels
<1>1. CASE StartStep(t)
  BY <1>1, StartStepProceeds DEF Handles, Threads
<1>2. CASE MutationProbe(t) \/ Resume(t) \/ LoadFails(t) \/ Hold(t) \/ Terminate(t) \/ Await(t)
           \/ RemovePidfile(t) \/ Hup(t)
  <2>1. /\ pc[t] # "idle"
        /\ \/ Finish(t) \/ Step(t, "load") \/ Step(t, "hold") \/ Step(t, "await")
           \/ Step(t, "unpid") \/ Step(t, "k.write") \/ Step(t, "enable")
    BY <1>2 DEF MutationProbe, Resume, LoadFails, Hold, Terminate, Await, RemovePidfile, Hup
  <2> QED
    BY <1>0, <2>1, StepGoesOn DEF Proceeds, Handles
<1>3. CASE Load(t)
  <2>1. \E l \in {"check", "r.validate", "disable"} : pc' = [pc EXCEPT ![t] = l]
    BY <1>3 DEF Load, Goto
  <2>2. [enabled |-> uci.enabled, mode |-> uci.mode] \in Configs
    BY DEF TypeInv, Settings, Configs
  <2>3. /\ pc[t] # "idle" /\ UNCHANGED <<pid, req, phase>>
        /\ cfg' = [cfg EXCEPT ![t] = [enabled |-> uci.enabled, mode |-> uci.mode]]
    BY <1>3 DEF Load, supVars
  <2> QED
    BY <1>0, <2>1, <2>2, <2>3 DEF Handles
<1>4. CASE Enable(t)
  BY <1>0, <1>4 DEF Enable, Goto, Handles, Sup!EnableSupervisor
<1>5. CASE Disable(t)
  <2>1. GoesOn(t, "probe")
    BY <1>5 DEF Disable, Goto, GoesOn, Sup!DisableSupervisor
  <2> QED
    BY <1>0, <1>5, <2>1 DEF Disable, Proceeds, Handles
<1>6. CASE Probe(t) \/ ReloadProbe(t)
  <2>1. RunningPID \in Pids \cup {NoPid}
    BY DEF RunningPID, Up
  <2>2. \E l \in {"unpid", "term", "check", "r.write"} : GoesOn(t, l)
    BY <1>6, <2>1 DEF Probe, ReloadProbe, Goto, GoesOn, supVars
  <2> QED
    BY <1>0, <1>6, <2>2 DEF Probe, ReloadProbe, Proceeds, Handles
<1> QED
  BY <1>1, <1>2, <1>3, <1>4, <1>5, <1>6 DEF HandlerStep

(* The goroutines that a step is not about.                                *)
Others(t) ==
  /\ pc'[Boot] = pc[Boot]
  /\ \A u \in Threads :
       u # t => pc'[u] = pc[u] /\ cfg'[u] = cfg[u] /\ pid'[u] = pid[u] /\ req'[u] = req[u]

LEMMA Disjoint == Handlers \cap Loops = {} /\ Boot \notin Threads
BY RuntimeConstants DEF RuntimeConstants, Threads

LEMMA ProceedsAlone == ASSUME Hands, NEW t \in Threads, Proceeds(t) PROVE Others(t)
BY Disjoint DEF Proceeds, GoesOn, Finish, Goto, Others, Hands

LEMMA HandlesAlone == ASSUME Hands, NEW t \in Threads, Handles(t) PROVE Others(t)
<1>1. CASE Proceeds(t)
  BY <1>1, ProceedsAlone
<1>2. CASE /\ \E l \in Labels : pc' = [pc EXCEPT ![t] = l]
           /\ \E c \in Configs \cup {NoConfig} : cfg' = [cfg EXCEPT ![t] = c]
           /\ UNCHANGED pid \/ pid' = [pid EXCEPT ![t] = NoPid]
           /\ UNCHANGED req \/ req' = [req EXCEPT ![t] = NoRequest]
  BY <1>2, Disjoint DEF Others, Hands
<1> QED
  BY <1>1, <1>2 DEF Handles

(* A loop that wakes up or returns.                                        *)
LEMMA WakesAlone == ASSUME Hands, NEW l \in Loops, Wake(l) \/ LoopReturns(l) PROVE Others(l)
BY Disjoint DEF Wake, LoopReturns, threadVars, Others, Hands, Threads

LEMMA AcceptsAlone ==
  ASSUME Hands, NEW t \in Handlers, NEW r, Accept(t, r)
  PROVE  Others(t)
<1>1. CASE UNCHANGED threadVars
  BY <1>1 DEF threadVars, Others
<1>2. CASE /\ \E l \in {"m.probe", "resume", "load"} : pc' = [pc EXCEPT ![t] = l]
           /\ req' = [req EXCEPT ![t] = r] /\ UNCHANGED <<cfg, pid>>
  BY <1>2, Disjoint DEF Others, Hands, Threads
<1> QED
  BY <1>1, <1>2, AcceptTakes

(* A loop is in an operation exactly while its phase says so.              *)
LoopsOK == \A l \in Loops : pc[l] # "idle" <=> phase[l] = "work"

LEMMA LoopsOKProceeds ==
  ASSUME TypeInv, LoopsOK, NEW t \in Threads, Proceeds(t)
  PROVE  LoopsOK'
<1>1. phase \in [Loops -> Sup!Phases] /\ Others(t)
  BY ProceedsAlone DEF TypeInv, SupOK, Sup!SupTypeOK
<1>2. CASE Finish(t)
  <2>1. pc'[t] = "idle"
    BY <1>2 DEF TypeInv, Hands, Finish, Goto
  <2>2. CASE t \in Loops
    BY <1>1, <1>2, <2>1, <2>2 DEF Finish, Sup!Continue, LoopsOK, Others, Threads
  <2>3. CASE t \notin Loops
    BY <1>1, <1>2, <2>3 DEF Finish, supVars, LoopsOK, Others, Threads
  <2> QED
    BY <2>2, <2>3
<1>3. ASSUME NEW l \in Busy, GoesOn(t, l)
      PROVE  LoopsOK'
  <2>1. pc[t] # "idle" /\ pc'[t] # "idle"
    BY <1>3 DEF TypeInv, Hands, Proceeds, GoesOn, Busy
  <2> QED
    BY <1>1, <1>3, <2>1 DEF GoesOn, LoopsOK, Others, Threads
<1> QED
  BY <1>2, <1>3 DEF Proceeds

LEMMA LoopsOKStep == TypeInv /\ LoopsOK /\ [Next]_vars => LoopsOK'
<1> SUFFICES ASSUME TypeInv, LoopsOK, [Next]_vars
             PROVE  LoopsOK'
  OBVIOUS
<1>0. /\ Hands /\ phase \in [Loops -> Sup!Phases] /\ Loops \subseteq Threads
      /\ Handlers \subseteq Threads
  BY DEF TypeInv, SupOK, Sup!SupTypeOK, Threads
<1>1. ASSUME NEW t \in Handlers, Others(t), UNCHANGED phase
      PROVE  LoopsOK'
  BY <1>0, <1>1, Disjoint DEF Others, LoopsOK
<1>2. ASSUME NEW t \in Handlers, NEW r, Accept(t, r)
      PROVE  LoopsOK'
  BY <1>0, <1>1, <1>2, AcceptsAlone DEF Accept, supVars
<1>3. ASSUME NEW t \in Handlers, HandlerStep(t)
      PROVE  LoopsOK'
  BY <1>0, <1>1, <1>3, HandlerStepHandles, HandlesAlone, LoopsOKProceeds DEF Handles
<1>4. ASSUME NEW l \in Loops, Wake(l)
      PROVE  LoopsOK'
  <2>1. /\ pc'[l] = IF desired THEN "l.probe" ELSE "idle"
        /\ phase' = [phase EXCEPT ![l] = IF desired THEN "work" ELSE "exiting"]
    BY <1>0, <1>4 DEF Wake, Hands, Sup!Snapshot
  <2> QED
    BY <1>0, <1>4, <2>1, WakesAlone DEF Others, LoopsOK
<1>5. ASSUME NEW l \in Loops, LoopReturns(l)
      PROVE  LoopsOK'
  BY <1>0, <1>5 DEF LoopReturns, Sup!SupervisorStopped, threadVars, LoopsOK
<1>6. ASSUME NEW l \in Loops, LoopProbe(l) \/ StartStep(l)
      PROVE  LoopsOK'
  <2>1. LoopProbe(l) => Proceeds(l)
    BY StepGoesOn DEF LoopProbe, Proceeds, Busy, Labels
  <2> QED
    BY <1>0, <1>6, <2>1, StartStepProceeds, LoopsOKProceeds
<1>7. ASSUME NEW g, GoLoop(g)
      PROVE  LoopsOK'
  BY <1>0, <1>7 DEF GoLoop, Sup!SpawnLoop, threadVars, LoopsOK
<1>8. ASSUME NEW p \in Pids, Die(p) \/ Reap(p)
      PROVE  LoopsOK'
  BY <1>8 DEF Die, Reap, threadVars, supVars, LoopsOK
<1>9. CASE BootSupervisor
  <2>1. phase' = phase
    BY <1>9 DEF BootSupervisor, supVars, Sup!EnableSupervisor
  <2>2. \A l \in Loops : pc'[l] = pc[l]
    BY <1>0, <1>9, Disjoint DEF BootSupervisor, Hands
  <2> QED
    BY <2>1, <2>2 DEF LoopsOK
<1>10. CASE DaemonCrash \/ Reboot
  BY <1>0, <1>10, Disjoint DEF DaemonCrash, Reboot, Cut, Vanish, Sup!Respawn, LoopsOK
<1>11. CASE UNCHANGED vars
  BY <1>11 DEF vars, threadVars, supVars, LoopsOK
<1> QED
  BY <1>2, <1>3, <1>4, <1>5, <1>6, <1>7, <1>8, <1>9, <1>10, <1>11
     DEF Next, DaemonStep, Tracked, Serve, Work, LoopStep

LEMMA LoopsOKCorrect == Safe => []LoopsOK
<1>1. Init => LoopsOK
  BY BootIsNoThread DEF Init, Sup!SupInit, LoopsOK, Threads
<1> QED
  BY <1>1, LoopsOKStep, TypeInvCorrect, PTL DEF Safe

(* All that the runtime does, as a goroutine at work, one that starts to   *)
(* work, or something around them.                                         *)
World ==
  \/ \E p \in Pids : Die(p) \/ Reap(p)
  \/ \E g \in Threads \cup {Boot} : GoLoop(g)
  \/ \E l \in Loops : LoopReturns(l)
  \/ BootSupervisor

Spares(t, r) ==
  /\ Accept(t, r) /\ UNCHANGED threadVars
  /\ r \in {"enable", "disable"} \/ uci' = uci

Idles ==
  \/ \E l \in Loops : Wake(l) /\ ~desired /\ pc[l] = "idle"
  \/ \E t \in Handlers, r \in Requests : Spares(t, r)

Works(t) ==
  \/ t \in Handlers /\ HandlerStep(t)
  \/ t \in Loops /\ (LoopProbe(t) \/ StartStep(t))

(* A goroutine that starts to work.                                        *)
Takes(t, r) == Accept(t, r) /\ TakeUp(t, r) /\ r \notin {"enable", "disable"}

Starts(t) ==
  \/ t \in Loops /\ Wake(t) /\ desired
  \/ t \in Handlers /\ \E r \in Requests : Takes(t, r)

LEMMA TakesUp ==
  ASSUME Hands, NEW t \in Handlers, NEW r, Takes(t, r)
  PROVE  /\ pc'[t] \in {"m.probe", "resume", "load"}
         /\ pc'[t] = "m.probe" <=> r = "mutate"
         /\ pc'[t] = "resume" <=> r = "resume"
         /\ req'[t] = r /\ cfg'[t] = cfg[t]
<1>1. /\ Goto(t, CASE r = "mutate" -> "m.probe" [] r = "resume" -> "resume" [] OTHER -> "load")
      /\ req' = [req EXCEPT ![t] = r] /\ cfg' = cfg
  BY DEF Takes, TakeUp
<1>2. t \in Threads
  BY DEF Threads
<1> QED
  BY <1>1, <1>2 DEF Goto, Hands

LEMMA StartsAlone ==
  ASSUME TypeInv, NEW t \in Threads, Starts(t)
  PROVE  Others(t) /\ pc'[t] # "idle"
<1>1. Others(t)
  BY WakesAlone, AcceptsAlone DEF TypeInv, Starts, Takes
<1>2. pc'[t] \in {"l.probe", "m.probe", "resume", "load"}
  BY TakesUp DEF TypeInv, Hands, Starts, Wake
<1> QED
  BY <1>1, <1>2

LEMMA StepKinds ==
  ASSUME LoopsOK, DaemonStep
  PROVE  \/ World \/ Idles
         \/ \E t \in Threads : (Starts(t) /\ pc[t] = "idle") \/ Works(t)
<1>1. ASSUME NEW l \in Loops, Wake(l)
      PROVE  pc[l] = "idle"
  BY <1>1 DEF Wake, Sup!Snapshot, LoopsOK
<1>2. ASSUME NEW t, NEW r, Accept(t, r)
      PROVE  pc[t] = "idle"
  BY <1>2 DEF Accept
<1>3. ASSUME NEW t \in Handlers, NEW r \in Requests, Accept(t, r)
      PROVE  Idles \/ (t \in Threads /\ Starts(t) /\ pc[t] = "idle")
  <2>1. CASE EditFails(t, r)
    BY <1>2, <1>3, <2>1 DEF EditFails, Starts, Takes, Spares, Idles, Threads
  <2>2. CASE TakeUp(t, r)
    BY <1>2, <1>3, <2>2 DEF TakeUp, Starts, Takes, Spares, Idles, Threads
  <2> QED
    BY <1>3, <2>1, <2>2 DEF Accept
<1>4. ASSUME NEW t \in Handlers, HandlerStep(t)
      PROVE  t \in Threads /\ Works(t)
  BY <1>4 DEF Works, Threads
<1>5. ASSUME NEW l \in Loops, LoopStep(l)
      PROVE  World \/ Idles \/ (l \in Threads /\ ((Starts(l) /\ pc[l] = "idle") \/ Works(l)))
  BY <1>1, <1>5 DEF LoopStep, World, Idles, Starts, Works, Threads
<1> QED
  BY <1>3, <1>4, <1>5 DEF DaemonStep, Tracked, Serve, Work, World

LEMMA WorksAlone ==
  ASSUME TypeInv, NEW t \in Threads, Works(t)
  PROVE  Others(t) /\ pc[t] # "idle"
<1>1. LoopProbe(t) => Proceeds(t)
  BY StepGoesOn DEF LoopProbe, Proceeds, Busy, Labels
<1> QED
  BY <1>1, StartStepProceeds, HandlerStepHandles, ProceedsAlone, HandlesAlone
     DEF TypeInv, Works, Handles, Proceeds

-----------------------------------------------------------------------------
(* Operations that come one at a time.                                     *)
(*                                                                         *)
(* While serial holds at most one goroutine is at work, so the invariant   *)
(* is a table: what holds when nobody is at work (Rested), and what holds  *)
(* besides at each place of the one that is (Orderly).  A step of the      *)
(* goroutine takes it from one row to another (Onwards), and what happens  *)
(* around it keeps the row.                                                *)

AllIdle == \A t \in Threads : pc[t] = "idle"

Target(m) == ApplyTarget([mode |-> m])

LEMMA TargetOfMode == \A c : ApplyTarget(c) = Target(c.mode)
BY DEF ApplyTarget, Target

(* The pidfile names what runs, traffic is diverted as it expects, and the *)
(* kernel has loaded the include.                                          *)
Diverts(m) == loaded = Target(m) /\ (m # "off" => routes)
Named == Up \subseteq {pidfile}
Agrees == ~fwErr => \A p \in Up : Diverts(proc[p].mode)
Synced == ~fwErr => include = loaded
Rested == Named /\ Agrees /\ Synced

(* The firewall is the one that the generated configuration calls for.     *)
Matches == Diverts(conf) /\ ~fwErr /\ include = loaded

Calm == {"m.probe", "resume", "load", "check", "validate", "r.validate", "write", "r.probe", "r.write",
         "l.probe", "disable", "probe", "enable", "hold"}
NoneUp == {"validate", "write", "load.fw", "spawn", "c.write", "c.load", "unpid", "k.write",
           "k.load"}
Generated == {"write", "load.fw", "spawn", "pidfile", "settle", "r.probe", "r.write",
              "r.load.fw", "hup"}

Orderly(t) ==
  /\ pc[t] \in Calm => Rested
  /\ pc[t] \in NoneUp => Up = {}
  /\ pc[t] \in HasPid => Up \subseteq {pid[t]}
  /\ pc[t] \in {"settle", "r.load.fw", "hup"} => Named
  /\ pc[t] \in Generated => conf = cfg[t].mode
  /\ pc[t] \in {"load.fw", "r.load.fw"} => include = Target(cfg[t].mode)
  /\ pc[t] \in {"spawn", "pidfile", "settle", "hup"} => Matches
  /\ pc[t] \in {"pidfile", "settle"} => \A p \in Up : proc[p].mode = conf

Serially ==
  serial => /\ Alone
            /\ AllIdle => Rested
            /\ \A t \in Threads : pc[t] # "idle" => Orderly(t)

Onwards(t) ==
  /\ pc'[t] = "idle" => Rested'
  /\ pc'[t] # "idle" => Orderly(t)'

(* While operations come one at a time, the goroutine that moves is the    *)
(* only one at work.                                                       *)
LEMMA OneAtWork ==
  ASSUME Serially, serial' => serial /\ Alone', serial', NEW t \in Threads, Others(t),
         pc[t] # "idle" \/ pc'[t] # "idle"
  PROVE  /\ serial /\ Alone'
         /\ \A u \in Threads : pc'[u] # "idle" => u = t
         /\ AllIdle' => pc'[t] = "idle"
         /\ pc[t] = "idle" => AllIdle
<1>1. serial /\ Alone' /\ Alone
  BY DEF Serially
<1>2. \A u \in Threads : u # t => pc[u] = "idle" /\ pc'[u] = "idle"
  BY <1>1 DEF Alone, Others
<1> QED
  BY <1>1, <1>2 DEF AllIdle

(* It takes the whole invariant along.                                     *)
LEMMA TakesAlong ==
  ASSUME Serially, serial' => serial /\ Alone', NEW t \in Threads, Others(t),
         pc[t] # "idle" \/ pc'[t] # "idle",
         serial /\ (pc[t] = "idle" => AllIdle) => Onwards(t)
  PROVE  Serially'
BY OneAtWork DEF Serially, Onwards

(* What a probe finds out.                                                 *)
LEMMA Probing ==
  ASSUME TypeInv, Named
  PROVE  /\ RunningPID = NoPid => Up = {}
         /\ RunningPID # NoPid => RunningPID = pidfile /\ Up \subseteq {RunningPID}
         /\ DropStalePidfile /\ UNCHANGED proc => Named'
<1>1. NoPid \notin Up
  BY RuntimeConstants DEF RuntimeConstants, Up
<1>2. CASE pidfile \in Up
  BY <1>1, <1>2 DEF RunningPID, DropStalePidfile, Named, Up
<1>3. CASE pidfile \notin Up
  <2>1. Up = {} /\ RunningPID = NoPid
    BY <1>3 DEF Named, RunningPID
  <2>2. UNCHANGED proc => Up' = {}
    BY <2>1 DEF Up
  <2> QED
    BY <2>1, <2>2 DEF Named
<1> QED
  BY <1>2, <1>3

(* A step that leaves the processes and the firewall alone.                *)
LEMMA StillRested ==
  ASSUME TypeInv, Rested, UNCHANGED <<procVars, fwVars>>, UNCHANGED pidfile \/ DropStalePidfile
  PROVE  Rested'
<1>1. /\ proc' = proc /\ loaded' = loaded /\ include' = include /\ routes' = routes
      /\ fwErr' = fwErr
  BY DEF procVars, fwVars
<1>2. Up' = Up
  BY <1>1 DEF Up
<1>3. Agrees' /\ Synced'
  BY <1>1, <1>2 DEF Rested, Agrees, Synced, Diverts
<1>4. Named'
  BY <1>1, <1>2, Probing DEF Rested, Named
<1> QED
  BY <1>3, <1>4 DEF Rested

LEMMA NoneUpRests ==
  ASSUME Up' = {}, Synced'
  PROVE  Rested'
BY DEF Rested, Named, Agrees

LEMMA SameUp == proc' = proc => Up' = Up
BY DEF Up

(* Where a goroutine gets to.                                              *)
LEMMA Lands ==
  ASSUME Hands, NEW t \in Threads
  PROVE  /\ \A l : Goto(t, l) => pc'[t] = l
         /\ \A l : Step(t, l) => pc'[t] = l /\ cfg' = cfg /\ pid' = pid
         /\ Finish(t) => pc'[t] = "idle"
         /\ Started(t) => pc'[t] \in {"idle", "enable"}
BY DEF Hands, Goto, Step, Finish, Started

LEMMA StoppedLands ==
  ASSUME Hands, NEW t \in Threads, NEW ok, Stopped(t, ok)
  PROVE  pc'[t] \in {"idle", "check", "hold"}
BY Lands DEF Stopped

(* Arriving where nothing but rest is asked for, where rest and nothing    *)
(* running is, and where nothing running is.                               *)
LEMMA ArrivesCalm ==
  ASSUME NEW t, Rested',
         pc'[t] \in {"idle", "m.probe", "resume", "load", "check", "r.validate", "l.probe",
                     "disable", "probe", "enable", "hold"}
  PROVE  Onwards(t)
BY DEF Onwards, Orderly, Calm, NoneUp, HasPid, Generated

LEMMA ArrivesDown ==
  ASSUME NEW t, Rested', Up' = {}, pc'[t] = "validate"
  PROVE  Onwards(t)
BY DEF Onwards, Orderly, Calm, NoneUp, HasPid, Generated

LEMMA ArrivesToCleanUp ==
  ASSUME NEW t, Up' = {}, pc'[t] \in {"c.write", "c.load", "unpid", "k.write", "k.load"}
  PROVE  Onwards(t)
BY DEF Onwards, Orderly, Calm, NoneUp, HasPid, Generated

LEMMA CheckOnwards ==
  ASSUME TypeInv, NEW t \in Threads, Orderly(t), Check(t)
  PROVE  Onwards(t)
<1>0. Hands /\ Rested
  BY DEF TypeInv, Orderly, Check, Calm
<1>1. Rested' /\ Up' = Up
  BY <1>0, StillRested, SameUp DEF Check, procVars
<1>2. CASE pc'[t] \in {"idle", "enable"}
  BY <1>1, <1>2, ArrivesCalm
<1>3. CASE RunningPID = NoPid /\ Step(t, "validate")
  <2>1. pc'[t] = "validate" /\ Up' = {}
    BY <1>0, <1>1, <1>3, Lands, Probing DEF Rested
  <2> QED
    BY <1>1, <2>1, ArrivesDown
<1> QED
  BY <1>0, <1>2, <1>3, Lands DEF Check

LEMMA ValidateOnwards ==
  ASSUME TypeInv, NEW t \in Threads, Orderly(t), Validate(t) \/ GenerateFails(t)
  PROVE  Onwards(t)
<1>0. /\ Hands /\ Rested
      /\ pc[t] = "validate" => Up = {}
  BY DEF TypeInv, Orderly, Validate, GenerateFails, Calm, NoneUp
<1>1. Rested' /\ Up' = Up
  BY <1>0, StillRested, SameUp DEF Validate, GenerateFails, procVars
<1>2. CASE Finish(t)
  BY <1>0, <1>1, <1>2, Lands, ArrivesCalm
<1>3. CASE pc[t] = "validate" /\ Step(t, "write") /\ conf' = cfg[t].mode
  <2>1. pc'[t] = "write" /\ conf' = cfg'[t].mode /\ Up' = {}
    BY <1>0, <1>1, <1>3, Lands
  <2> QED
    BY <1>1, <2>1 DEF Onwards, Orderly, Calm, NoneUp, HasPid, Generated
<1>4. CASE pc[t] = "r.validate" /\ Step(t, "r.probe") /\ conf' = cfg[t].mode
  <2>1. pc'[t] = "r.probe" /\ conf' = cfg'[t].mode
    BY <1>0, <1>4, Lands
  <2> QED
    BY <1>1, <2>1 DEF Onwards, Orderly, Calm, NoneUp, HasPid, Generated
<1> QED
  BY <1>2, <1>3, <1>4 DEF Validate, GenerateFails

LEMMA ApplyWriteOnwards ==
  ASSUME TypeInv, NEW t \in Threads, Orderly(t), ApplyWrite(t)
  PROVE  Onwards(t)
<1>0. /\ Hands /\ Rested
      /\ pc[t] = "write" => Up = {}
      /\ pc[t] = "r.write" => Up \subseteq {pid[t]}
      /\ conf = cfg[t].mode
  BY DEF TypeInv, Orderly, ApplyWrite, Calm, NoneUp, HasPid, Generated
<1>1. conf' = conf /\ pidfile' = pidfile /\ proc' = proc /\ Up' = Up /\ Named'
  BY <1>0, SameUp DEF ApplyWrite, procVars, Rested, Named
<1>2. CASE /\ include' = ApplyTarget(cfg[t])
           /\ Step(t, IF pc[t] = "write" THEN "load.fw" ELSE "r.load.fw")
  <2>1. /\ pc'[t] = IF pc[t] = "write" THEN "load.fw" ELSE "r.load.fw"
        /\ cfg'[t] = cfg[t] /\ pid'[t] = pid[t]
    BY <1>0, <1>2, Lands
  <2>2. include' = Target(cfg'[t].mode)
    BY <1>2, <2>1, TargetOfMode
  <2>3. CASE pc[t] = "write"
    BY <1>0, <1>1, <2>1, <2>2, <2>3 DEF Onwards, Orderly, Calm, NoneUp, HasPid, Generated
  <2>4. CASE pc[t] = "r.write"
    BY <1>0, <1>1, <2>1, <2>2, <2>4 DEF Onwards, Orderly, Calm, NoneUp, HasPid, Generated
  <2> QED
    BY <2>3, <2>4 DEF ApplyWrite
<1>3. CASE fwErr' = TRUE /\ ApplyFailed(t)
  <2>1. Rested'
    BY <1>1, <1>3 DEF Rested, Agrees, Synced
  <2>2. CASE pc[t] = "write" /\ Step(t, "c.write")
    BY <1>0, <1>1, <2>2, Lands, ArrivesToCleanUp
  <2>3. CASE Finish(t)
    BY <1>0, <2>1, <2>3, Lands, ArrivesCalm
  <2> QED
    BY <1>3, <2>2, <2>3 DEF ApplyWrite, ApplyFailed
<1> QED
  BY <1>2, <1>3 DEF ApplyWrite

LEMMA ApplyLoadOnwards ==
  ASSUME TypeInv, NEW t \in Threads, Orderly(t), ApplyLoad(t)
  PROVE  Onwards(t)
<1>0. /\ Hands
      /\ pc[t] = "load.fw" => Up = {}
      /\ pc[t] = "r.load.fw" => Up \subseteq {pid[t]} /\ Named
      /\ conf = cfg[t].mode /\ include = Target(conf)
  BY DEF TypeInv, Orderly, ApplyLoad, Calm, NoneUp, HasPid, Generated
<1>1. conf' = conf /\ pidfile' = pidfile /\ include' = include /\ Up' = Up
  BY SameUp DEF ApplyLoad, procVars
<1>2. CASE /\ routes' = (routes \/ cfg[t].mode # "off")
           /\ loaded' = include /\ fwErr' = FALSE
           /\ Step(t, IF pc[t] = "load.fw" THEN "spawn" ELSE "hup")
  <2>1. /\ pc'[t] = IF pc[t] = "load.fw" THEN "spawn" ELSE "hup"
        /\ cfg'[t] = cfg[t] /\ pid'[t] = pid[t]
    BY <1>0, <1>2, Lands
  <2>2. Matches'
    BY <1>0, <1>1, <1>2 DEF Matches, Diverts, Target, ApplyTarget
  <2>3. CASE pc[t] = "load.fw"
    BY <1>0, <1>1, <2>1, <2>2, <2>3 DEF Onwards, Orderly, Calm, NoneUp, HasPid, Generated
  <2>4. CASE pc[t] = "r.load.fw"
    <3>1. Named'
      BY <1>0, <1>1, <2>4 DEF Named
    <3> QED
      BY <1>0, <1>1, <2>1, <2>2, <2>4, <3>1
         DEF Onwards, Orderly, Calm, NoneUp, HasPid, Generated
  <2> QED
    BY <2>3, <2>4 DEF ApplyLoad
<1>3. CASE fwErr' = TRUE /\ ApplyFailed(t)
  <2>1. CASE pc[t] = "load.fw" /\ Step(t, "c.write")
    BY <1>0, <1>1, <2>1, Lands, ArrivesToCleanUp
  <2>2. CASE pc[t] = "r.load.fw" /\ Finish(t)
    <3>1. Rested'
      BY <1>0, <1>1, <1>3, <2>2 DEF Rested, Named, Agrees, Synced
    <3> QED
      BY <1>0, <2>2, <3>1, Lands, ArrivesCalm
  <2> QED
    BY <1>3, <2>1, <2>2 DEF ApplyLoad, ApplyFailed
<1> QED
  BY <1>2, <1>3 DEF ApplyLoad

LEMMA SpawnOnwards ==
  ASSUME TypeInv, NEW t \in Threads, Orderly(t), Spawn(t)
  PROVE  Onwards(t)
<1>0. Hands /\ proc \in [Pids -> Process] /\ Up = {} /\ conf = cfg[t].mode /\ Matches
  BY DEF TypeInv, Processes, Orderly, Spawn, NoneUp, Generated
<1>1. CASE Step(t, "c.write") /\ UNCHANGED procVars
  <2>1. Up' = {}
    BY <1>0, <1>1, SameUp DEF procVars
  <2> QED
    BY <1>0, <1>1, <2>1, Lands, ArrivesToCleanUp
<1>2. ASSUME NEW p \in FreePids, pid' = [pid EXCEPT ![t] = p],
             proc' = [proc EXCEPT ![p] = [Dead EXCEPT !.state = "up", !.mode = conf,
                                                      !.parent = "daemon"]],
             Goto(t, "pidfile"), cfg' = cfg
      PROVE  Onwards(t)
  <2>1. p \in Pids /\ pid'[t] = p /\ pc'[t] = "pidfile"
    BY <1>0, <1>2, Lands DEF FreePids, Hands
  <2>2. conf' = conf /\ Matches'
    BY <1>0 DEF Spawn, fwVars, Matches, Diverts
  <2>3. Up' \subseteq {p}
    BY <1>0, <1>2 DEF Up
  <2>4. proc'[p].mode = conf
    BY <1>0, <1>2, <2>1 DEF Dead
  <2> QED
    BY <1>0, <1>2, <2>1, <2>2, <2>3, <2>4 DEF Onwards, Orderly, Calm, NoneUp, HasPid, Generated
<1>3. Spawn(t) => \/ Step(t, "c.write") /\ UNCHANGED procVars
                  \/ \E p \in FreePids :
                       /\ pid' = [pid EXCEPT ![t] = p]
                       /\ proc' = [proc EXCEPT ![p] = [Dead EXCEPT !.state = "up", !.mode = conf,
                                                                   !.parent = "daemon"]]
                       /\ Goto(t, "pidfile") /\ cfg' = cfg
  BY <1>0 DEF Spawn, Hands, FreePids
<1> QED
  BY <1>1, <1>2, <1>3

LEMMA WritePidfileOnwards ==
  ASSUME TypeInv, NEW t \in Threads, Orderly(t), WritePidfile(t)
  PROVE  Onwards(t)
<1>0. /\ Hands /\ proc \in [Pids -> Process] /\ Up \subseteq {pid[t]} /\ conf = cfg[t].mode
      /\ Matches /\ \A p \in Up : proc[p].mode = conf
      /\ pid[t] \in Pids
  BY DEF TypeInv, Processes, Hands, Equipped, Orderly, WritePidfile, HasPid, Generated
<1>1. conf' = conf /\ Matches'
  BY <1>0 DEF WritePidfile, fwVars, Matches, Diverts
<1>2. CASE /\ pidfile' = pid[t] /\ Step(t, "settle")
           /\ proc' = [proc EXCEPT ![pid[t]].parent = "waiter"]
  <2>1. pc'[t] = "settle" /\ pid'[t] = pid[t] /\ cfg'[t] = cfg[t]
    BY <1>0, <1>2, Lands
  <2>2. \A p \in Pids : proc'[p].state = proc[p].state /\ proc'[p].mode = proc[p].mode
    BY <1>0, <1>2 DEF Process
  <2>3. Up' = Up
    BY <2>2 DEF Up
  <2>4. Named' /\ \A p \in Up' : proc'[p].mode = conf'
    BY <1>0, <1>1, <1>2, <2>2, <2>3 DEF Named, Up
  <2> QED
    BY <1>0, <1>1, <2>1, <2>3, <2>4 DEF Onwards, Orderly, Calm, NoneUp, HasPid, Generated
<1>3. CASE Step(t, "c.write") /\ proc' = [proc EXCEPT ![pid[t]] = Dead]
  <2>1. Up' = {}
    BY <1>0, <1>3 DEF Up, Dead
  <2> QED
    BY <1>0, <1>3, <2>1, Lands, ArrivesToCleanUp
<1> QED
  BY <1>2, <1>3 DEF WritePidfile

LEMMA SettleOnwards ==
  ASSUME TypeInv, NEW t \in Threads, Orderly(t), Settle(t)
  PROVE  Onwards(t)
<1>0. /\ Hands /\ Up \subseteq {pid[t]} /\ Named /\ Matches
      /\ \A p \in Up : proc[p].mode = conf
  BY DEF TypeInv, Orderly, Settle, HasPid
<1>1. Rested
  BY <1>0 DEF Rested, Agrees, Synced, Matches
<1>2. Rested' /\ Up' = Up
  BY <1>1, StillRested, SameUp DEF Settle, procVars
<1>3. CASE proc[pid[t]].state = "none" /\ Step(t, "c.write")
  <2>1. Up = {}
    BY <1>0, <1>3 DEF Up
  <2> QED
    BY <1>0, <1>2, <1>3, <2>1, Lands, ArrivesToCleanUp
<1>4. CASE Started(t)
  BY <1>0, <1>2, <1>4, Lands, ArrivesCalm
<1> QED
  BY <1>3, <1>4 DEF Settle

LEMMA CleanupOnwards ==
  ASSUME TypeInv, NEW t \in Threads, Orderly(t), CleanupWrite(t) \/ CleanupLoad(t)
  PROVE  Onwards(t)
<1>0. Hands /\ Up = {}
  BY DEF TypeInv, Orderly, CleanupWrite, CleanupLoad, NoneUp
<1>1. Up' = {}
  BY <1>0, SameUp DEF CleanupWrite, CleanupLoad, procVars
<1>2. CASE Step(t, "c.load") \/ Step(t, "k.load")
  BY <1>0, <1>1, <1>2, Lands, ArrivesToCleanUp
<1>3. ASSUME NEW ok, CleanedUp(t, ok), Synced'
      PROVE  Onwards(t)
  <2>1. Rested'
    BY <1>1, <1>3, NoneUpRests
  <2>2. pc'[t] \in {"idle", "check", "hold"}
    BY <1>0, <1>3, Lands, StoppedLands DEF CleanedUp
  <2> QED
    BY <2>1, <2>2, ArrivesCalm
<1>4. CASE CleanupWrite(t)
  <2>1. CASE fwErr' = TRUE /\ CleanedUp(t, FALSE)
    BY <1>3, <2>1 DEF Synced
  <2> QED
    BY <1>2, <1>4, <2>1 DEF CleanupWrite
<1>5. CASE CleanupLoad(t)
  <2>1. CASE fwErr' = TRUE /\ CleanedUp(t, FALSE)
    BY <1>3, <2>1 DEF Synced
  <2>2. CASE loaded' = include /\ include' = include /\ CleanedUp(t, TRUE)
    BY <1>3, <2>2 DEF Synced
  <2> QED
    BY <1>5, <2>1, <2>2 DEF CleanupLoad
<1> QED
  BY <1>4, <1>5

LEMMA StartStepOnwards ==
  ASSUME TypeInv, NEW t \in Threads, Orderly(t), StartStep(t)
  PROVE  Onwards(t)
BY CheckOnwards, ValidateOnwards, ApplyWriteOnwards, ApplyLoadOnwards, SpawnOnwards,
   WritePidfileOnwards, SettleOnwards, CleanupOnwards DEF StartStep

(* The steps that read, wait or only touch the supervisor.                 *)
LEMMA RestedOnwards ==
  ASSUME TypeInv, NEW t \in Threads, Orderly(t),
         \/ MutationProbe(t) \/ Resume(t) \/ Load(t) \/ LoadFails(t) \/ Hold(t) \/ Enable(t)
         \/ Disable(t) \/ LoopProbe(t)
  PROVE  Onwards(t)
<1>0. Hands /\ Rested
  BY DEF TypeInv, Orderly, MutationProbe, Resume, Load, LoadFails, Hold, Enable, Disable, LoopProbe,
         Calm
<1>1. Rested'
  BY <1>0, StillRested
     DEF MutationProbe, Resume, Load, LoadFails, Hold, Enable, Disable, LoopProbe
<1>2. pc'[t] \in {"idle", "load", "hold", "check", "r.validate", "disable", "probe"}
  BY <1>0, Lands DEF MutationProbe, Resume, Load, LoadFails, Hold, Enable, Disable, LoopProbe, Goto
<1> QED
  BY <1>1, <1>2, ArrivesCalm

LEMMA ProbeOnwards ==
  ASSUME TypeInv, NEW t \in Threads, Orderly(t), Probe(t) \/ ReloadProbe(t)
  PROVE  Onwards(t)
<1>0. Hands /\ Rested
  BY DEF TypeInv, Orderly, Probe, ReloadProbe, Calm
<1>1. Rested' /\ Up' = Up /\ conf' = conf /\ cfg' = cfg /\ pid'[t] = RunningPID
  BY <1>0, StillRested, SameUp DEF Probe, ReloadProbe, procVars, Hands
<1>2. /\ RunningPID = NoPid => Up = {}
      /\ RunningPID # NoPid => Up \subseteq {RunningPID}
  BY <1>0, Probing DEF Rested
<1>3. CASE Probe(t)
  <2>1. pc'[t] = IF RunningPID = NoPid THEN "unpid" ELSE "term"
    BY <1>0, <1>3, Lands DEF Probe
  <2>2. CASE RunningPID = NoPid
    BY <1>1, <1>2, <2>1, <2>2, ArrivesToCleanUp
  <2>3. CASE RunningPID # NoPid
    BY <1>1, <1>2, <2>1, <2>3 DEF Onwards, Orderly, Calm, NoneUp, HasPid, Generated
  <2> QED
    BY <2>2, <2>3
<1>4. CASE ReloadProbe(t)
  <2>1. pc'[t] = IF RunningPID = NoPid THEN "check" ELSE "r.write"
    BY <1>0, <1>4, Lands DEF ReloadProbe
  <2>2. CASE RunningPID = NoPid
    BY <1>1, <2>1, <2>2, ArrivesCalm
  <2>3. CASE RunningPID # NoPid
    <3>1. conf = cfg[t].mode
      BY <1>4 DEF ReloadProbe, Orderly, Generated
    <3> QED
      BY <1>1, <1>2, <2>1, <2>3, <3>1 DEF Onwards, Orderly, Calm, NoneUp, HasPid, Generated
  <2> QED
    BY <2>2, <2>3
<1> QED
  BY <1>3, <1>4

LEMMA KillOnwards ==
  ASSUME TypeInv, NEW t \in Threads, Orderly(t), Terminate(t) \/ Await(t) \/ RemovePidfile(t)
  PROVE  Onwards(t)
<1>0. /\ Hands /\ proc \in [Pids -> Process]
      /\ pc[t] \in {"term", "await"} => Up \subseteq {pid[t]} /\ pid[t] \in Pids
      /\ pc[t] = "unpid" => Up = {}
  BY DEF TypeInv, Processes, Hands, Equipped, Orderly, HasPid, NoneUp
<1>1. CASE Terminate(t)
  <2>1. pc'[t] = "await" /\ pid' = pid
    BY <1>0, <1>1, Lands DEF Terminate
  <2>2. Up' \subseteq Up
    BY <1>0, <1>1 DEF Terminate, Up, Process
  <2> QED
    BY <1>0, <1>1, <2>1, <2>2 DEF Terminate, Onwards, Orderly, Calm, NoneUp, HasPid, Generated
<1>2. CASE Await(t)
  <2>1. pc'[t] = "unpid"
    BY <1>0, <1>2, Lands DEF Await
  <2>2. Up' = {}
    BY <1>0, <1>2 DEF Await, Exit, procVars, Up, Process, Dead
  <2> QED
    BY <2>1, <2>2, ArrivesToCleanUp
<1>3. CASE RemovePidfile(t)
  BY <1>0, <1>3, Lands, SameUp, ArrivesToCleanUp DEF RemovePidfile, procVars
<1> QED
  BY <1>1, <1>2, <1>3

LEMMA HupOnwards ==
  ASSUME TypeInv, NEW t \in Threads, Orderly(t), Hup(t)
  PROVE  Onwards(t)
<1>0. /\ Hands /\ proc \in [Pids -> Process] /\ Up \subseteq {pid[t]} /\ Named /\ Matches
  BY DEF TypeInv, Processes, Orderly, Hup, HasPid
<1>1. Up' = Up /\ \A p \in Up : proc'[p].mode = conf
  BY <1>0 DEF Hup, Up, Process
<1>2. Rested'
  BY <1>0, <1>1 DEF Hup, fwVars, Rested, Named, Agrees, Synced, Matches, Diverts
<1>3. pc'[t] \in {"idle", "enable"}
  BY <1>0, Lands DEF Hup
<1> QED
  BY <1>2, <1>3, ArrivesCalm

LEMMA HandlerStepOnwards ==
  ASSUME TypeInv, NEW t \in Handlers, Orderly(t), HandlerStep(t)
  PROVE  Onwards(t)
BY StartStepOnwards, RestedOnwards, ProbeOnwards, KillOnwards, HupOnwards DEF HandlerStep, Threads

(* What goes on around the goroutines at work: processes exit and are      *)
(* reaped, the supervisor spawns a loop, the main goroutine attaches.      *)
Undisturbed ==
  /\ UNCHANGED <<conf, fwVars>>
  /\ \A t \in Threads : pc'[t] = pc[t]
  /\ \A t \in Threads :
       pc[t] # "idle" => cfg'[t] = cfg[t] /\ pid'[t] = pid[t] /\ req'[t] = req[t]
  /\ Up' \subseteq Up /\ \A p \in Up' : proc'[p].mode = proc[p].mode
  /\ Named => Named'

LEMMA UndisturbedRests == Undisturbed /\ Rested => Rested'
BY DEF Undisturbed, Rested, Agrees, Synced, Diverts, fwVars

LEMMA UndisturbedKeeps ==
  ASSUME Undisturbed, NEW t \in Threads, pc[t] # "idle", Orderly(t)
  PROVE  Orderly(t)'
<1>1. /\ pc'[t] = pc[t] /\ cfg'[t] = cfg[t] /\ pid'[t] = pid[t] /\ conf' = conf
      /\ include' = include /\ Up' \subseteq Up
  BY DEF Undisturbed, fwVars
<1>2. Matches => Matches'
  BY DEF Undisturbed, fwVars, Matches, Diverts
<1>3. (\A p \in Up : proc[p].mode = conf) => \A p \in Up' : proc'[p].mode = conf'
  BY DEF Undisturbed
<1>4. (Rested => Rested') /\ (Named => Named')
  BY UndisturbedRests DEF Undisturbed
<1> QED
  BY <1>1, <1>2, <1>3, <1>4 DEF Orderly

LEMMA WorldUndisturbed ==
  ASSUME TypeInv, World
  PROVE  Undisturbed
<1>0. Hands /\ proc \in [Pids -> Process]
  BY DEF TypeInv, Processes
<1>1. ASSUME NEW p \in Pids, Die(p)
      PROVE  Undisturbed
  <2>1. \A q \in Pids \ {p} : proc'[q] = proc[q]
    BY <1>0, <1>1 DEF Die, Exit
  <2>2. proc'[p].state # "up"
    BY <1>0, <1>1 DEF Die, Exit, Dead, Process
  <2>3. Up' = Up \ {p} /\ \A q \in Up' : proc'[q].mode = proc[q].mode
    BY <2>1, <2>2 DEF Up
  <2>4. Named => Named'
    BY <1>1, <2>3 DEF Die, Named
  <2> QED
    BY <1>1, <2>3, <2>4 DEF Die, Undisturbed, threadVars
<1>2. ASSUME NEW p \in Pids, Reap(p)
      PROVE  Undisturbed
  <2>1. Up' = Up /\ \A q \in Up' : proc'[q] = proc[q]
    BY <1>0, <1>2 DEF Reap, Up, Dead
  <2>2. Named => Named'
    BY <1>2, <2>1 DEF Reap, Named, Up
  <2> QED
    BY <1>2, <2>1, <2>2 DEF Reap, Undisturbed, threadVars
<1>3. ASSUME UNCHANGED <<conf, pidfile, procVars, fwVars, threadVars>>
      PROVE  Undisturbed
  BY <1>3 DEF procVars, threadVars, Undisturbed, Up, Named
<1>4. CASE BootSupervisor
  <2>1. proc' = proc /\ (DropStalePidfile \/ UNCHANGED pidfile)
    BY <1>4 DEF BootSupervisor, procVars
  <2>2. Up' = Up /\ (Named => Named')
    BY <2>1, SameUp, Probing DEF Named
  <2>3. \A t \in Threads : pc'[t] = pc[t]
    BY <1>0, <1>4, Disjoint DEF BootSupervisor, Hands
  <2> QED
    BY <1>4, <2>1, <2>2, <2>3 DEF BootSupervisor, Undisturbed
<1> QED
  BY <1>1, <1>2, <1>3, <1>4 DEF World, GoLoop, LoopReturns

(* A step that concerns no goroutine at work keeps the whole invariant.    *)
LEMMA UndisturbedSerially ==
  ASSUME Serially, serial' => serial /\ Alone', Undisturbed
  PROVE  Serially'
<1>1. AllIdle' => AllIdle
  BY DEF Undisturbed, AllIdle
<1>2. \A t \in Threads : pc'[t] # "idle" => pc[t] # "idle"
  BY DEF Undisturbed
<1> QED
  BY <1>1, <1>2, UndisturbedRests, UndisturbedKeeps DEF Serially

(* A goroutine that has nothing to do stays idle.                          *)
LEMMA IdleUndisturbed ==
  ASSUME TypeInv, Idles
  PROVE  Undisturbed
<1>0. Hands /\ Loops \subseteq Threads
  BY DEF TypeInv, Threads
<1>1. UNCHANGED <<conf, pidfile, procVars, fwVars>>
  BY DEF Idles, Spares, Wake, Accept
<1>2. \A t \in Threads :
        /\ pc'[t] = pc[t]
        /\ pc[t] # "idle" => cfg'[t] = cfg[t] /\ pid'[t] = pid[t] /\ req'[t] = req[t]
  <2>1. ASSUME NEW l \in Loops, Wake(l), ~desired, pc[l] = "idle"
        PROVE  \A t \in Threads : /\ pc'[t] = pc[t]
                                  /\ pc[t] # "idle" => /\ cfg'[t] = cfg[t] /\ pid'[t] = pid[t]
                                                       /\ req'[t] = req[t]
    BY <1>0, <2>1 DEF Wake, Hands
  <2> QED
    BY <2>1 DEF Idles, Spares, threadVars
<1> QED
  BY <1>1, <1>2 DEF procVars, Undisturbed, Up, Named

LEMMA StartsOnwards ==
  ASSUME TypeInv, NEW t \in Threads, Rested, Starts(t)
  PROVE  Onwards(t)
<1>1. Rested'
  BY StillRested DEF Starts, Takes, Wake, Accept
<1>2. pc'[t] \in {"l.probe", "m.probe", "resume", "load"}
  BY TakesUp DEF TypeInv, Hands, Starts, Wake
<1> QED
  BY <1>1, <1>2, ArrivesCalm

LEMMA WorksOnwards ==
  ASSUME TypeInv, NEW t \in Threads, Orderly(t), Works(t)
  PROVE  Onwards(t)
BY HandlerStepOnwards, StartStepOnwards, RestedOnwards DEF Works

(* The daemon dies while it is at rest.                                    *)
LEMMA CutRests ==
  ASSUME TypeInv, Serially, DaemonCrash \/ Reboot
  PROVE  Serially'
<1> SUFFICES ASSUME serial'
             PROVE  /\ Alone' /\ (AllIdle' => Rested')
                    /\ \A t \in Threads : pc'[t] # "idle" => Orderly(t)'
  BY DEF Serially
<1>1. Rested
  BY DEF DaemonCrash, Reboot, Cut, Vanish, Serially, AllIdle
<1>2. \A t \in Threads : pc'[t] = "idle"
  BY BootIsNoThread DEF DaemonCrash, Reboot, Cut, Vanish
<1>3. CASE DaemonCrash
  <2>1. Up' = Up /\ \A p \in Up : proc'[p].mode = proc[p].mode
    <3>1. proc \in [Pids -> Process]
      BY DEF TypeInv, Processes
    <3>2. \A p \in Up : proc'[p].state = "up" /\ proc'[p].mode = proc[p].mode
      BY <1>3, <3>1 DEF DaemonCrash, Reparent, Up, Process
    <3>3. \A p \in Pids \ Up : proc'[p].state # "up"
      BY <1>3 DEF DaemonCrash, Reparent, Up, Dead
    <3> QED
      BY <3>2, <3>3 DEF Up
  <2>2. UNCHANGED <<pidfile, include, loaded, routes, fwErr>>
    BY <1>3 DEF DaemonCrash, fwVars
  <2> QED
    BY <1>1, <1>2, <2>1, <2>2 DEF Alone, Rested, Named, Agrees, Synced, Diverts
<1>4. CASE Reboot
  <2>1. Up' = {} /\ Synced'
    BY <1>4 DEF Reboot, Up, Dead, Synced
  <2> QED
    BY <1>2, <2>1, NoneUpRests DEF Alone
<1> QED
  BY <1>3, <1>4

LEMMA SeriallyStep == TypeInv /\ LoopsOK /\ Serially /\ [Next]_vars => Serially'
<1> SUFFICES ASSUME TypeInv, LoopsOK, Serially, [Next]_vars
             PROVE  Serially'
  OBVIOUS
<1>1. CASE DaemonCrash \/ Reboot
  BY <1>1, CutRests
<1>2. CASE UNCHANGED vars
  BY <1>2 DEF vars, procVars, fwVars, threadVars, history, Serially, Alone, AllIdle, Rested, Named, Agrees,
              Synced, Diverts, Up, Orderly, Matches
<1>3. CASE DaemonStep
  <2>1. serial' => serial /\ Alone'
    BY <1>3 DEF DaemonStep, Tracked
  <2>2. CASE World \/ Idles
    BY <2>1, <2>2, WorldUndisturbed, IdleUndisturbed, UndisturbedSerially
  <2>3. ASSUME NEW t \in Threads, Works(t)
        PROVE  Serially'
    BY <2>1, <2>3, WorksAlone, WorksOnwards, TakesAlong DEF Serially
  <2>4. ASSUME NEW t \in Threads, Starts(t), pc[t] = "idle"
        PROVE  Serially'
    BY <2>1, <2>4, StartsAlone, StartsOnwards, TakesAlong DEF Serially
  <2> QED
    BY <1>3, <2>2, <2>3, <2>4, StepKinds
<1> QED
  BY <1>1, <1>2, <1>3 DEF Next

LEMMA SeriallyCorrect == Safe => []Serially
<1>1. Init => Serially
  <2> SUFFICES ASSUME Init
               PROVE  Serially
    OBVIOUS
  <2>1. Up = {} /\ Synced
    BY DEF Init, Up, Dead, Synced
  <2>2. \A t \in Threads : pc[t] = "idle"
    BY BootIsNoThread DEF Init
  <2> QED
    BY <2>1, <2>2 DEF Serially, Alone, Rested, Named, Agrees
<1> QED
  BY <1>1, SeriallyStep, TypeInvCorrect, LoopsOKCorrect, PTL DEF Safe

(* No orphan: as long as operations come one at a time, the sing-box that  *)
(* runs is the one the pidfile names, whatever failed, died, crashed or    *)
(* was rebooted, and whichever requests there are.                         *)
THEOREM NoOrphanCorrect == Safe => []NoOrphan
<1>1. Serially => NoOrphan
  BY DEF Serially, NoOrphan, Settled, Quiet, AllIdle, Rested, Named
<1> QED
  BY <1>1, SeriallyCorrect, PTL

(* The data path and the running sing-box agree, as long as operations     *)
(* come one at a time, for any settings and requests.                      *)
THEOREM DataPathAgreesCorrect == Safe => []DataPathAgrees
<1>1. Serially => DataPathAgrees
  BY DEF Serially, DataPathAgrees, Settled, Quiet, AllIdle, Rested, Agrees, Diverts, Target
<1> QED
  BY <1>1, SeriallyCorrect, PTL

-----------------------------------------------------------------------------
(* Nothing is at work while the daemon starts.                             *)

Fresh ==
  pc[Boot] = "boot" => AllIdle /\ spawning = {} /\ \A l \in Loops : phase[l] = "none"

LEMMA FreshStep == TypeInv /\ LoopsOK /\ Fresh /\ [Next]_vars => Fresh'
<1> SUFFICES ASSUME TypeInv, LoopsOK, Fresh, [Next]_vars
             PROVE  Fresh'
  OBVIOUS
<1>1. CASE DaemonCrash \/ Reboot
  BY <1>1, BootIsNoThread
     DEF DaemonCrash, Reboot, Cut, Vanish, Sup!Respawn, Fresh, AllIdle
<1>2. CASE UNCHANGED vars
  BY <1>2 DEF vars, threadVars, supVars, Fresh, AllIdle
<1>3. CASE DaemonStep
  <2>1. CASE BootSupervisor
    BY <2>1 DEF BootSupervisor, TypeInv, Hands, Fresh
  <2>2. ASSUME NEW p \in Pids, Die(p) \/ Reap(p)
        PROVE  Fresh'
    BY <2>2 DEF Die, Reap, threadVars, supVars, Fresh, AllIdle
  <2>3. ASSUME NEW g, GoLoop(g)
        PROVE  Fresh'
    BY <2>3 DEF GoLoop, Sup!SpawnLoop, threadVars, Fresh
  <2>4. ASSUME NEW l \in Loops, Wake(l) \/ LoopReturns(l)
        PROVE  Fresh'
    BY <2>4, WakesAlone
       DEF TypeInv, Wake, LoopReturns, Sup!Snapshot, Sup!SupervisorStopped, Others, Fresh
  <2>5. ASSUME NEW t \in Handlers, NEW r, Accept(t, r)
        PROVE  Fresh'
    BY <2>5, AcceptsAlone DEF TypeInv, Accept, Others, Fresh
  <2>6. ASSUME NEW t \in Threads, Works(t)
        PROVE  Fresh'
    BY <2>6, WorksAlone DEF Others, Fresh, AllIdle
  <2> QED
    BY <1>3, <2>1, <2>2, <2>3, <2>4, <2>5, <2>6, StepKinds DEF World, Idles, Spares, Starts, Takes
<1> QED
  BY <1>1, <1>2, <1>3 DEF Next

LEMMA FreshCorrect == Safe => []Fresh
<1>1. Init => Fresh
  BY BootIsNoThread DEF Init, Sup!SupInit, Fresh, AllIdle
<1> QED
  BY <1>1, FreshStep, TypeInvCorrect, LoopsOKCorrect, PTL DEF Safe

-----------------------------------------------------------------------------
(* What a goroutine is about: where it can be with which request, and that *)
(* it has no configuration before it loaded one.                           *)

Launching == {"check", "validate", "r.validate", "write", "r.write", "load.fw", "r.load.fw",
              "spawn", "pidfile", "settle", "enable", "c.write", "c.load", "r.probe", "hup",
              "l.probe"}
Tearing == {"probe", "term", "await", "unpid", "k.write", "k.load"}
Tears == {"stop", "pause", "restart", "cleanup"}
Asking == {"start", "restart", "resume", "reload"}

Duty(t) ==
  /\ pc[t] = "idle" => req[t] = NoRequest
  /\ pc[t] \in {"idle", "m.probe", "resume", "load"} => cfg[t] = NoConfig
  /\ pc[t] \in Launching => ~Stopping(t)
  /\ pc[t] \in Tearing \cup {"disable"} => req[t] \in Tears
  /\ pc[t] = "hold" => req[t] = "stop"
  /\ pc[t] = "m.probe" => req[t] = "mutate"
  /\ pc[t] = "resume" => req[t] = "resume"
  /\ pc[t] = "load" => req[t] \in Asking \cup Tears \cup {"mutate"}

Duties == \A t \in Threads : Duty(t)

LEMMA FinishDuty ==
  ASSUME Hands, NEW t \in Threads, Finish(t)
  PROVE  Duty(t)' /\ pc'[t] = "idle" /\ req'[t] = NoRequest
BY DEF Hands, Finish, Goto, Duty, Launching, Tearing

LEMMA LaunchDuty ==
  ASSUME NEW t, pc'[t] \in Launching, req'[t] = req[t], ~Stopping(t)
  PROVE  Duty(t)'
BY DEF Duty, Launching, Tearing, Stopping

LEMMA TearingDuty ==
  ASSUME NEW t, pc'[t] \in Tearing \cup {"disable"}, req'[t] \in Tears
  PROVE  Duty(t)'
BY DEF Duty, Launching, Tearing

LEMMA LoadDuty ==
  ASSUME NEW t, pc'[t] = "load", req'[t] \in Asking \cup Tears \cup {"mutate"},
         cfg'[t] = NoConfig
  PROVE  Duty(t)'
BY DEF Duty, Launching, Tearing

LEMMA HoldDuty == ASSUME NEW t, pc'[t] = "hold", req'[t] = "stop" PROVE Duty(t)'
BY DEF Duty, Launching, Tearing

(* A step of startOnce, and the configuration and the supervisor's goal    *)
(* that it leaves alone.                                                   *)
LEMMA StartStepKeeps ==
  ASSUME NEW t \in Threads, StartStep(t)
  PROVE  uci' = uci /\ UNCHANGED <<desired, supCfg>>
<1>1. Finish(t) => UNCHANGED <<desired, supCfg>>
  BY DEF Finish, Sup!Continue, supVars
<1>2. \A l : Step(t, l) => UNCHANGED <<desired, supCfg>>
  BY DEF Step, supVars
<1>3. CASE Check(t) \/ Validate(t) \/ GenerateFails(t)
  BY <1>1, <1>2, <1>3 DEF Check, Validate, GenerateFails, Started
<1>4. CASE ApplyWrite(t) \/ ApplyLoad(t)
  BY <1>1, <1>2, <1>4 DEF ApplyWrite, ApplyLoad, ApplyFailed
<1>5. CASE Spawn(t) \/ WritePidfile(t) \/ Settle(t)
  BY <1>1, <1>2, <1>5 DEF Spawn, WritePidfile, Settle, Started, supVars
<1>6. CASE CleanupWrite(t) \/ CleanupLoad(t)
  BY <1>1, <1>2, <1>6 DEF CleanupWrite, CleanupLoad, CleanedUp, Stopped
<1> QED
  BY <1>3, <1>4, <1>5, <1>6 DEF StartStep

LEMMA LaunchLands ==
  ASSUME Hands, NEW t \in Threads, pc[t] \in Launching, StartStep(t)
  PROVE  pc'[t] \in Launching \cup {"idle"}
<1>1. CASE Check(t) \/ Validate(t) \/ GenerateFails(t)
  BY <1>1, Lands DEF Check, Validate, GenerateFails, Launching
<1>2. CASE ApplyWrite(t) \/ ApplyLoad(t)
  BY <1>2, Lands DEF ApplyWrite, ApplyLoad, ApplyFailed, Launching
<1>3. CASE Spawn(t) \/ WritePidfile(t) \/ Settle(t)
  BY <1>3, Lands DEF Spawn, WritePidfile, Settle, Launching
<1>4. CASE CleanupWrite(t) \/ CleanupLoad(t)
  <2>1. pc[t] \in {"c.write", "c.load"}
    BY <1>4 DEF CleanupWrite, CleanupLoad, Launching
  <2> QED
    BY <1>4, <2>1, Lands DEF CleanupWrite, CleanupLoad, CleanedUp, Launching
<1> QED
  BY <1>1, <1>2, <1>3, <1>4 DEF StartStep

(* What comes of the cleanup of a stop.                                    *)
LEMMA TearingLands ==
  ASSUME Hands, NEW t \in Threads, StartStep(t), pc[t] \notin Launching
  PROVE  /\ pc[t] \in {"k.write", "k.load"} /\ (CleanupWrite(t) \/ CleanupLoad(t))
         /\ \/ Finish(t)
            \/ /\ req' = req
               /\ \/ pc'[t] = "k.load"
                  \/ pc'[t] = "check" /\ req[t] = "restart"
                  \/ pc'[t] = "hold" /\ req[t] = "stop"
<1>1. pc[t] \in {"k.write", "k.load"} /\ (CleanupWrite(t) \/ CleanupLoad(t))
  BY DEF StartStep, Check, Validate, GenerateFails, ApplyWrite, ApplyLoad, Spawn, WritePidfile,
         Settle, CleanupWrite, CleanupLoad, Launching
<1>2. \A l : Step(t, l) => req' = req /\ pc'[t] = l
  BY Lands DEF Step
<1>3. Step(t, "k.load") \/ \E ok \in BOOLEAN : Stopped(t, ok)
  BY <1>1 DEF CleanupWrite, CleanupLoad, CleanedUp
<1> QED
  BY <1>1, <1>2, <1>3 DEF Stopped

LEMMA StartStepDuty ==
  ASSUME TypeInv, NEW t \in Threads, Duty(t), StartStep(t)
  PROVE  Duty(t)'
<1>0. Hands
  BY DEF TypeInv
<1>1. CASE pc[t] \in Launching
  <2>1. CASE Finish(t)
    BY <1>0, <2>1, FinishDuty
  <2>2. ASSUME NEW l \in Busy, GoesOn(t, l)
        PROVE  Duty(t)'
    <3>1. req' = req /\ pc'[t] = l
      BY <1>0, <2>2 DEF GoesOn, Hands
    <3>2. pc'[t] \in Launching
      BY <1>0, <1>1, <2>2, <3>1, LaunchLands DEF Busy
    <3> QED
      BY <1>1, <3>1, <3>2, LaunchDuty DEF Duty
  <2> QED
    BY <2>1, <2>2, StartStepProceeds DEF Proceeds
<1>2. CASE pc[t] \notin Launching
  <2>1. pc[t] \in Tearing
    BY <1>0, <1>2, TearingLands DEF Tearing
  <2>2. CASE Finish(t)
    BY <1>0, <2>2, FinishDuty
  <2>3. CASE req' = req /\ pc'[t] = "k.load"
    BY <2>1, <2>3, TearingDuty DEF Duty, Tearing
  <2>4. CASE req' = req /\ pc'[t] = "check" /\ req[t] = "restart"
    BY <2>4, LaunchDuty DEF Launching, Stopping
  <2>5. CASE req' = req /\ pc'[t] = "hold" /\ req[t] = "stop"
    BY <2>5, HoldDuty
  <2> QED
    BY <1>0, <1>2, <2>2, <2>3, <2>4, <2>5, TearingLands
<1> QED
  BY <1>1, <1>2

(* Where Load sends the requests.                                          *)
LEMMA LoadLands ==
  ASSUME Hands, NEW t \in Threads, Duty(t), Load(t)
  PROVE  /\ UNCHANGED <<uci, conf, pidfile, procVars, fwVars, pid, req, supVars>>
         /\ pc[t] = "load"
         /\ \/ pc'[t] = "check" /\ req[t] \in {"start", "resume"}
            \/ pc'[t] = "r.validate" /\ req[t] \in {"reload", "mutate"}
            \/ pc'[t] = "disable" /\ req[t] \in Tears
<1>1. /\ UNCHANGED <<uci, conf, pidfile, procVars, fwVars, pid, req, supVars>>
      /\ pc[t] = "load"
  BY DEF Load
<1>2. req[t] \in Asking \cup Tears \cup {"mutate"}
  BY <1>1 DEF Duty
<1>3. pc'[t] = CASE req[t] \in {"start", "resume"} -> "check"
                 [] req[t] \in {"reload", "mutate"} -> "r.validate"
                 [] OTHER -> "disable"
  BY Lands DEF Load
<1>4. CASE req[t] \in {"start", "resume"}
  BY <1>1, <1>3, <1>4
<1>5. CASE req[t] \in {"reload", "mutate"}
  BY <1>1, <1>3, <1>5
<1>6. CASE req[t] \in Tears
  <2>1. pc'[t] = "disable"
    BY <1>3, <1>6 DEF Tears
  <2> QED
    BY <1>1, <1>6, <2>1
<1> QED
  BY <1>2, <1>4, <1>5, <1>6 DEF Asking, Tears

LEMMA WorksDuty ==
  ASSUME TypeInv, NEW t \in Threads, Duty(t), Works(t)
  PROVE  Duty(t)'
<1>0. /\ Hands
      /\ \A l : Step(t, l) => pc'[t] = l /\ req'[t] = req[t] /\ cfg'[t] = cfg[t]
  BY Lands DEF TypeInv, Step
<1>1. CASE Finish(t)
  BY <1>0, <1>1, FinishDuty
<1>2. CASE StartStep(t)
  BY <1>2, StartStepDuty
<1>3. CASE MutationProbe(t) \/ Resume(t)
  BY <1>0, <1>1, <1>3, LoadDuty DEF MutationProbe, Resume, Duty, Asking
<1>4. CASE Load(t)
  <2>1. req' = req
    BY <1>4 DEF Load
  <2> QED
    BY <1>0, <1>4, <2>1, LoadLands, LaunchDuty, TearingDuty DEF Launching, Stopping
<1>5. CASE LoadFails(t) \/ Hold(t)
  BY <1>0, <1>1, <1>5, HoldDuty DEF LoadFails, Hold
<1>6. CASE Enable(t)
  <2>1. pc'[t] = "idle" /\ req'[t] = NoRequest /\ cfg'[t] = NoConfig
    BY <1>0, <1>6 DEF Enable, Goto, Hands
  <2> QED
    BY <2>1 DEF Duty, Launching, Tearing
<1>7. CASE Disable(t) \/ Probe(t) \/ Terminate(t) \/ Await(t) \/ RemovePidfile(t)
  <2>1. /\ pc[t] \in Tearing \cup {"disable"} /\ pc'[t] \in Tearing /\ req' = req
    BY <1>0, <1>7, Lands DEF Disable, Probe, Terminate, Await, RemovePidfile, Step, Tearing
  <2> QED
    BY <2>1, TearingDuty DEF Duty
<1>8. CASE ReloadProbe(t) \/ Hup(t) \/ LoopProbe(t)
  <2>1. pc[t] \in Launching
    BY <1>8 DEF ReloadProbe, Hup, LoopProbe, Launching
  <2>2. Finish(t) \/ (pc'[t] \in Launching /\ req'[t] = req[t])
    BY <1>0, <1>8, Lands DEF ReloadProbe, Hup, LoopProbe, Launching
  <2> QED
    BY <1>1, <2>1, <2>2, LaunchDuty DEF Duty
<1> QED
  BY <1>2, <1>3, <1>4, <1>5, <1>6, <1>7, <1>8 DEF Works, HandlerStep

LEMMA StartsDuty ==
  ASSUME TypeInv, NEW t \in Threads, Duty(t), pc[t] = "idle", Starts(t)
  PROVE  Duty(t)'
<1>0. Hands
  BY DEF TypeInv
<1>1. CASE Wake(t) /\ desired
  <2>1. pc'[t] = "l.probe" /\ req' = req /\ req[t] = NoRequest
    BY <1>0, <1>1 DEF Wake, Hands, Duty
  <2>2. pc'[t] \in Launching
    BY <2>1 DEF Launching
  <2>3. ~Stopping(t)
    BY <2>1 DEF Stopping, NoRequest
  <2> QED
    BY <2>1, <2>2, <2>3, LaunchDuty
<1>2. ASSUME NEW r \in Requests, t \in Handlers, Takes(t, r)
      PROVE  Duty(t)'
  <2>1. r \in Asking \cup Tears \cup {"mutate"}
    BY <1>2, RuntimeConstants DEF RuntimeConstants, Takes, Asking, Tears
  <2>2. /\ pc'[t] \in {"m.probe", "resume", "load"} /\ req'[t] = r /\ cfg'[t] = NoConfig
        /\ pc'[t] = "m.probe" => r = "mutate"
        /\ pc'[t] = "resume" => r = "resume"
    BY <1>0, <1>2, TakesUp DEF Duty
  <2> QED
    BY <2>1, <2>2 DEF Duty, Launching, Tearing
<1> QED
  BY <1>1, <1>2 DEF Starts

LEMMA DutiesStep == TypeInv /\ LoopsOK /\ Duties /\ [Next]_vars => Duties'
<1> SUFFICES ASSUME TypeInv, LoopsOK, Duties, [Next]_vars
             PROVE  Duties'
  OBVIOUS
<1>1. CASE DaemonCrash \/ Reboot
  BY <1>1, BootIsNoThread DEF DaemonCrash, Reboot, Cut, Vanish, Duties, Duty, Launching, Tearing
<1>2. CASE UNCHANGED vars
  BY <1>2 DEF vars, threadVars, Duties, Duty, Stopping
<1>3. ASSUME NEW t \in Threads, Others(t), Duty(t)'
      PROVE  Duties'
  BY <1>3 DEF Others, Duties, Duty, Stopping
<1>4. CASE DaemonStep
  <2>1. ASSUME NEW t \in Threads, Works(t)
        PROVE  Duties'
    BY <1>3, <2>1, WorksAlone, WorksDuty DEF Duties
  <2>2. ASSUME NEW t \in Threads, Starts(t), pc[t] = "idle"
        PROVE  Duties'
    BY <1>3, <2>2, StartsAlone, StartsDuty DEF Duties
  <2>3. CASE World
    <3>1. \A t \in Threads : pc'[t] = pc[t] /\ cfg' = cfg /\ req' = req
      BY <2>3, Disjoint DEF TypeInv, Hands, World, Die, Reap, GoLoop, LoopReturns, BootSupervisor,
                            threadVars
    <3> QED
      BY <3>1 DEF Duties, Duty, Stopping
  <2>4. CASE Idles
    <3>1. ASSUME NEW l \in Loops, Wake(l), ~desired, pc[l] = "idle"
          PROVE  Duties'
      <4>1. l \in Threads /\ pc'[l] = "idle" /\ req'[l] = req[l] /\ cfg'[l] = NoConfig
        BY <3>1 DEF TypeInv, Hands, Wake, Threads
      <4>2. Others(l)
        BY <3>1, WakesAlone DEF TypeInv
      <4>3. Duty(l)'
        BY <3>1, <4>1 DEF Duties, Duty, Launching, Tearing
      <4> QED
        BY <1>3, <4>1, <4>2, <4>3
    <3>2. ASSUME NEW t, NEW r, Spares(t, r)
          PROVE  Duties'
      BY <3>2 DEF Spares, threadVars, Duties, Duty, Stopping
    <3> QED
      BY <2>4, <3>1, <3>2 DEF Idles
  <2> QED
    BY <1>4, <2>1, <2>2, <2>3, <2>4, StepKinds
<1> QED
  BY <1>1, <1>2, <1>4 DEF Next

LEMMA DutiesCorrect == Safe => []Duties
<1>1. Init => Duties
  BY BootIsNoThread DEF Init, Duties, Duty, Launching, Tearing
<1> QED
  BY <1>1, DutiesStep, TypeInvCorrect, LoopsOKCorrect, PTL DEF Safe

-----------------------------------------------------------------------------
(* The hold.  What can start sing-box runs alone (exclusive); stops,       *)
(* pauses and cleanups may overlap and be cut off.  Each goroutine then    *)
(* knows what runs (Accounts), none that could start sing-box is at work   *)
(* after a stop went through, and a teardown has the supervisor off        *)
(* (Obeys).                                                                *)

Kept == stopped => uci.paused /\ Up = {} /\ ~desired

Owning == {"pidfile", "settle", "term", "await"}

Accounts(t) ==
  /\ pc[t] # "pidfile" => Named
  /\ pc[t] \in NoneUp => Up = {}
  /\ pc[t] \in Owning => Up \subseteq {pid[t]}

Revived(t) ==
  pc[t] \in Launching \/ req[t] \in Asking \/ (pc[t] = "load" /\ req[t] = "mutate")

Winds(t) ==
  /\ pc[t] \in Tearing => ~desired
  /\ pc[t] = "hold" /\ cfg[t] # NoConfig => Up = {} /\ ~desired

Obeys(t) == (Revived(t) => ~stopped) /\ Winds(t)

ExclusivelyKept ==
  exclusive => /\ Uncontested /\ Kept
               /\ AllIdle => Named
               /\ \A t \in Threads : pc[t] # "idle" => Accounts(t) /\ Obeys(t)

LEMMA AccountsDown == ASSUME NEW t, Up' = {} PROVE Accounts(t)'
BY DEF Accounts, Named

LEMMA AccountsNamed ==
  ASSUME NEW t, Named', pc'[t] \notin NoneUp \cup Owning
  PROVE  Accounts(t)'
BY DEF Accounts

LEMMA StillNamed ==
  ASSUME TypeInv, Named, UNCHANGED proc, UNCHANGED pidfile \/ DropStalePidfile
  PROVE  Named' /\ Up' = Up
BY SameUp, Probing DEF Named

(* A step of startOnce, and of the cleanup of a stop.                      *)
LEMMA StartStepAccounts ==
  ASSUME TypeInv, NEW t \in Threads, Accounts(t), StartStep(t)
  PROVE  Accounts(t)'
<1>0. Hands /\ proc \in [Pids -> Process]
  BY DEF TypeInv, Processes
<1>1. CASE Check(t)
  <2>1. Named
    BY <1>1 DEF Check, Accounts
  <2>2. Named' /\ Up' = Up
    BY <1>1, <2>1, StillNamed DEF Check, procVars
  <2>3. CASE pc'[t] \in {"idle", "enable"}
    BY <2>2, <2>3, AccountsNamed DEF NoneUp, Owning
  <2>4. CASE RunningPID = NoPid
    BY <2>1, <2>2, <2>4, Probing, AccountsDown
  <2> QED
    BY <1>0, <1>1, <2>3, <2>4, Lands DEF Check
<1>2. CASE Validate(t) \/ GenerateFails(t)
  <2>1. Named' /\ Up' = Up
    BY <1>2, StillNamed DEF Validate, GenerateFails, procVars, Accounts
  <2>2. \/ pc'[t] \in {"idle", "r.probe"}
        \/ pc[t] = "validate"
    BY <1>0, <1>2, Lands DEF Validate, GenerateFails
  <2>3. CASE pc[t] = "validate"
    BY <2>1, <2>3, AccountsDown DEF Accounts, NoneUp
  <2> QED
    BY <2>1, <2>2, <2>3, AccountsNamed DEF NoneUp, Owning
<1>3. CASE ApplyWrite(t) \/ ApplyLoad(t)
  <2>1. Named' /\ Up' = Up
    BY <1>3, StillNamed DEF ApplyWrite, ApplyLoad, procVars, Accounts
  <2>2. \/ pc'[t] \in {"idle", "r.load.fw", "hup"}
        \/ pc[t] \in {"write", "load.fw"}
    BY <1>0, <1>3, Lands DEF ApplyWrite, ApplyLoad, ApplyFailed
  <2>3. CASE pc[t] \in {"write", "load.fw"}
    BY <2>1, <2>3, AccountsDown DEF Accounts, NoneUp
  <2> QED
    BY <2>1, <2>2, <2>3, AccountsNamed DEF NoneUp, Owning
<1>4. CASE Spawn(t)
  <2>1. Up = {}
    BY <1>4 DEF Spawn, Accounts, NoneUp
  <2>2. CASE UNCHANGED procVars
    BY <2>1, <2>2, SameUp, AccountsDown DEF procVars
  <2>3. ASSUME NEW p \in FreePids, pid' = [pid EXCEPT ![t] = p], Goto(t, "pidfile"),
               proc' = [proc EXCEPT ![pid'[t]] = [Dead EXCEPT !.state = "up", !.mode = conf,
                                                              !.parent = "daemon"]]
        PROVE  Accounts(t)'
    <3>1. p \in Pids /\ pid'[t] = p /\ pc'[t] = "pidfile"
      BY <1>0, <2>3, Lands DEF FreePids, Hands
    <3>2. Up' \subseteq {p}
      BY <1>0, <2>1, <2>3, <3>1 DEF Up
    <3> QED
      BY <3>1, <3>2 DEF Accounts, NoneUp, Owning
  <2> QED
    BY <1>4, <2>2, <2>3 DEF Spawn
<1>5. CASE WritePidfile(t)
  <2>1. pid[t] \in Pids /\ Up \subseteq {pid[t]}
    BY <1>0, <1>5 DEF Hands, Equipped, WritePidfile, HasPid, Accounts, Owning
  <2>2. CASE /\ pidfile' = pid[t] /\ Step(t, "settle")
             /\ proc' = [proc EXCEPT ![pid[t]].parent = "waiter"]
    <3>1. pc'[t] = "settle" /\ pid'[t] = pid[t]
      BY <1>0, <2>2, Lands
    <3>2. Up' = Up
      BY <1>0, <2>2 DEF Up, Process
    <3> QED
      BY <2>1, <2>2, <3>1, <3>2 DEF Accounts, NoneUp, Owning, Named
  <2>3. CASE proc' = [proc EXCEPT ![pid[t]] = Dead]
    <3>1. Up' = {}
      BY <1>0, <2>1, <2>3 DEF Up, Dead
    <3> QED
      BY <3>1, AccountsDown
  <2> QED
    BY <1>5, <2>2, <2>3 DEF WritePidfile
<1>6. CASE Settle(t)
  <2>1. Named' /\ Up' = Up /\ Up \subseteq {pid[t]}
    BY <1>6, StillNamed DEF Settle, procVars, Accounts, Owning
  <2>2. CASE proc[pid[t]].state = "none"
    BY <2>1, <2>2, AccountsDown DEF Up
  <2>3. CASE Started(t)
    BY <1>0, <2>1, <2>3, Lands, AccountsNamed DEF NoneUp, Owning
  <2> QED
    BY <1>6, <2>2, <2>3 DEF Settle
<1>7. CASE CleanupWrite(t) \/ CleanupLoad(t)
  <2>1. Up = {} /\ UNCHANGED proc
    BY <1>7 DEF CleanupWrite, CleanupLoad, procVars, Accounts, NoneUp
  <2> QED
    BY <2>1, SameUp, AccountsDown
<1> QED
  BY <1>1, <1>2, <1>3, <1>4, <1>5, <1>6, <1>7 DEF StartStep

LEMMA WorksAccounts ==
  ASSUME TypeInv, NEW t \in Threads, Accounts(t), Works(t)
  PROVE  Accounts(t)'
<1>0. Hands /\ proc \in [Pids -> Process]
  BY DEF TypeInv, Processes
<1>1. CASE MutationProbe(t) \/ Resume(t) \/ Load(t) \/ LoadFails(t) \/ Hold(t) \/ Enable(t)
           \/ Disable(t) \/ ReloadProbe(t) \/ LoopProbe(t)
  <2>1. Named'
    BY <1>1, StillNamed DEF MutationProbe, Resume, Load, LoadFails, Hold, Enable, Disable,
                            ReloadProbe, LoopProbe, procVars, Accounts
  <2>2. pc'[t] \in {"idle", "load", "check", "r.validate", "disable", "hold", "probe", "r.write"}
    BY <1>0, <1>1, Lands
       DEF MutationProbe, Resume, Load, LoadFails, Hold, Enable, Disable, ReloadProbe, LoopProbe
  <2> QED
    BY <2>1, <2>2, AccountsNamed DEF NoneUp, Owning
<1>2. CASE Hup(t)
  <2>1. Up' = Up
    BY <1>0, <1>2 DEF Hup, Up, Process
  <2>2. Named' /\ pc'[t] \in {"idle", "enable"}
    BY <1>0, <1>2, <2>1, Lands DEF Hup, Named, Accounts
  <2> QED
    BY <2>2, AccountsNamed DEF NoneUp, Owning
<1>3. CASE Probe(t)
  <2>1. Named /\ Named' /\ Up' = Up
    BY <1>3, StillNamed DEF Probe, procVars, Accounts
  <2>2. CASE RunningPID = NoPid
    BY <2>1, <2>2, Probing, AccountsDown
  <2>3. CASE RunningPID # NoPid
    <3>1. pc'[t] = "term" /\ pid'[t] = RunningPID
      BY <1>0, <1>3, <2>3, Lands DEF Probe, Hands
    <3>2. Up' \subseteq {pid'[t]}
      BY <2>1, <2>3, <3>1, Probing
    <3> QED
      BY <2>1, <3>1, <3>2 DEF Accounts, NoneUp, Owning
  <2> QED
    BY <2>2, <2>3
<1>4. CASE Terminate(t)
  <2>1. pc'[t] = "await" /\ pid' = pid /\ Named /\ Up \subseteq {pid[t]}
    BY <1>0, <1>4, Lands DEF Terminate, Accounts, Owning
  <2>2. Up' \subseteq Up
    BY <1>0, <1>4 DEF Terminate, Up, Process
  <2>3. pidfile' = pidfile
    BY <1>4 DEF Terminate
  <2> QED
    BY <2>1, <2>2, <2>3 DEF Accounts, NoneUp, Owning, Named
<1>5. CASE Await(t)
  <2>1. Up \subseteq {pid[t]} /\ pid[t] \in Pids
    BY <1>0, <1>5 DEF Await, Accounts, Owning, Hands, Equipped, HasPid
  <2>2. Up' = {}
    BY <1>0, <1>5, <2>1 DEF Await, Exit, procVars, Up, Process, Dead
  <2> QED
    BY <2>2, AccountsDown
<1>6. CASE RemovePidfile(t)
  <2>1. Up = {} /\ UNCHANGED proc
    BY <1>6 DEF RemovePidfile, procVars, Accounts, NoneUp
  <2> QED
    BY <2>1, SameUp, AccountsDown
<1> QED
  BY <1>1, <1>2, <1>3, <1>4, <1>5, <1>6, StartStepAccounts DEF Works, HandlerStep

(* What a stop, a pause or a cleanup does at most.                         *)
LEMMA StopperRetreats ==
  ASSUME TypeInv, NEW t \in Threads, Duty(t), Stopping(t), Works(t)
  PROVE  /\ Up' \subseteq Up /\ (desired' => desired)
         /\ pc'[t] \notin Launching /\ req'[t] \in {req[t], NoRequest}
         /\ uci' = uci \/ uci'.paused
<1>0. /\ Hands /\ Settings /\ proc \in [Pids -> Process]
      /\ pc[t] \notin Launching /\ req[t] \in {"stop", "pause", "cleanup"}
  BY DEF TypeInv, Processes, Duty, Stopping
<1>1. /\ Finish(t) => pc'[t] = "idle" /\ req'[t] = NoRequest /\ (t \notin Loops => desired' = desired)
      /\ \A l : Step(t, l) => pc'[t] = l /\ req' = req /\ desired' = desired
  BY <1>0, Lands, FinishDuty DEF Finish, Step, supVars
<1>2. CASE StartStep(t)
  <2>1. uci' = uci /\ desired' = desired /\ UNCHANGED proc
    BY <1>0, <1>2, StartStepKeeps, TearingLands DEF CleanupWrite, CleanupLoad, procVars
  <2>2. \/ Finish(t)
        \/ req' = req /\ pc'[t] \in {"k.load", "hold"}
    BY <1>0, <1>2, TearingLands
  <2> QED
    BY <1>1, <2>1, <2>2, SameUp DEF Launching
<1>3. CASE t \notin Loops /\ (Load(t) \/ LoadFails(t) \/ Hold(t))
  <2>1. UNCHANGED proc /\ desired' = desired
    BY <1>1, <1>3 DEF Load, LoadFails, Hold, procVars, supVars
  <2>2. pc'[t] \in {"disable", "hold", "idle"} /\ req'[t] \in {req[t], NoRequest}
    BY <1>0, <1>1, <1>3, Lands DEF Load, LoadFails, Hold
  <2>3. uci' = uci \/ uci'.paused
    BY <1>0, <1>3 DEF Load, LoadFails, Hold, Settings
  <2> QED
    BY <2>1, <2>2, <2>3, SameUp DEF Launching
<1>4. CASE Disable(t) \/ Probe(t) \/ RemovePidfile(t)
  <2>1. UNCHANGED <<uci, proc>> /\ req' = req /\ (desired' => desired)
    BY <1>1, <1>4 DEF Disable, Sup!DisableSupervisor, Probe, RemovePidfile, procVars, supVars
  <2>2. pc'[t] \in {"probe", "unpid", "term", "k.write"}
    BY <1>0, <1>4, Lands DEF Disable, Probe, RemovePidfile
  <2> QED
    BY <2>1, <2>2, SameUp DEF Launching
<1>5. CASE Terminate(t) \/ Await(t)
  <2>1. uci' = uci /\ req' = req /\ desired' = desired /\ pc'[t] \in {"await", "unpid"}
    BY <1>1, <1>5 DEF Terminate, Await
  <2>2. CASE Terminate(t)
    BY <1>0, <2>1, <2>2 DEF Terminate, Up, Process, Launching
  <2>3. CASE Await(t)
    BY <1>0, <2>1, <2>3 DEF Await, Exit, procVars, Up, Process, Dead, Launching
  <2> QED
    BY <1>5, <2>2, <2>3
<1>6. ~(Enable(t) \/ ReloadProbe(t) \/ Hup(t) \/ LoopProbe(t) \/ MutationProbe(t) \/ Resume(t))
  BY <1>0 DEF Enable, ReloadProbe, Hup, LoopProbe, MutationProbe, Resume, Launching, Duty
<1> QED
  BY <1>2, <1>3, <1>4, <1>5, <1>6, Disjoint DEF Works, HandlerStep

LEMMA AtMutationProbe ==
  ASSUME NEW t \in Threads, Works(t), pc[t] = "m.probe"
  PROVE  t \in Handlers /\ MutationProbe(t)
<1>1. ~StartStep(t)
  BY DEF StartStep, Check, Validate, GenerateFails, ApplyWrite, ApplyLoad, Spawn, WritePidfile,
         Settle, CleanupWrite, CleanupLoad
<1>2. ~(Resume(t) \/ Load(t) \/ LoadFails(t) \/ Hold(t) \/ Enable(t) \/ Disable(t) \/ Probe(t))
  BY DEF Resume, Load, LoadFails, Hold, Enable, Disable, Probe
<1>3. ~(Terminate(t) \/ Await(t) \/ RemovePidfile(t) \/ ReloadProbe(t) \/ Hup(t) \/ LoopProbe(t))
  BY DEF Terminate, Await, RemovePidfile, ReloadProbe, Hup, LoopProbe
<1> QED
  BY <1>1, <1>2, <1>3 DEF Works, HandlerStep

LEMMA WorksWinds ==
  ASSUME TypeInv, NEW t \in Threads, Duty(t), Accounts(t), Winds(t), Works(t)
  PROVE  Winds(t)'
<1>0. Hands
  BY DEF TypeInv
<1>1. CASE StartStep(t)
  <2>1. CASE pc[t] \in Launching
    BY <1>0, <1>1, <2>1, LaunchLands DEF Winds, Launching, Tearing
  <2>2. CASE pc[t] \notin Launching
    <3>1. pc[t] \in {"k.write", "k.load"} /\ UNCHANGED proc /\ desired' = desired
      BY <1>0, <1>1, <2>2, TearingLands, StartStepKeeps DEF CleanupWrite, CleanupLoad, procVars
    <3>2. Up' = {} /\ ~desired'
      BY <3>1, SameUp DEF Accounts, NoneUp, Winds, Tearing
    <3> QED
      BY <3>2 DEF Winds
  <2> QED
    BY <2>1, <2>2
<1>2. CASE MutationProbe(t) \/ Resume(t) \/ Load(t) \/ Hold(t) \/ Enable(t) \/ ReloadProbe(t)
           \/ Hup(t) \/ LoopProbe(t)
  <2>1. pc'[t] \in {"idle", "load", "check", "r.validate", "disable", "r.write", "enable"}
    BY <1>0, <1>2, Lands
       DEF MutationProbe, Resume, Load, Hold, Enable, ReloadProbe, Hup, LoopProbe
  <2> QED
    BY <2>1 DEF Winds, Tearing
<1>3. CASE LoadFails(t)
  <2>1. cfg[t] = NoConfig
    BY <1>3 DEF LoadFails, Duty
  <2>2. pc'[t] = "idle" \/ (pc'[t] = "hold" /\ cfg'[t] = NoConfig)
    BY <1>0, <1>3, <2>1, Lands DEF LoadFails
  <2> QED
    BY <2>2 DEF Winds, Tearing
<1>4. CASE Disable(t)
  <2>1. pc'[t] = "probe" /\ ~desired'
    BY <1>0, <1>4, Lands DEF Disable, Sup!DisableSupervisor
  <2> QED
    BY <2>1 DEF Winds
<1>5. CASE Probe(t) \/ Terminate(t) \/ Await(t) \/ RemovePidfile(t)
  <2>1. ~desired /\ desired' = desired
    BY <1>5 DEF Probe, Terminate, Await, RemovePidfile, Step, supVars, Winds, Tearing
  <2>2. pc'[t] \in {"unpid", "term", "await", "k.write"}
    BY <1>0, <1>5, Lands DEF Probe, Terminate, Await, RemovePidfile
  <2> QED
    BY <2>1, <2>2 DEF Winds
<1> QED
  BY <1>1, <1>2, <1>3, <1>4, <1>5 DEF Works, HandlerStep

(* A goroutine at work keeps the hold, or engages it.                      *)
LEMMA WorksObeys ==
  ASSUME TypeInv, NEW t \in Threads, Duty(t), Accounts(t), Kept, Obeys(t), Works(t),
         stopped' => stopped \/ GoesThrough(t)
  PROVE  Kept' /\ Obeys(t)'
<1>0. Hands /\ Winds(t)' /\ Duty(t)' /\ pc[t] # "idle"
  BY WorksWinds, WorksDuty, WorksAlone DEF TypeInv, Obeys
<1> SUFFICES ASSUME stopped'
             PROVE  uci'.paused /\ Up' = {} /\ ~desired' /\ ~Revived(t)'
  BY <1>0 DEF Kept, Obeys
<1>1. CASE GoesThrough(t)
  <2>1. Stopping(t) /\ Up = {} /\ ~desired
    <3>1. CASE pc[t] = "hold" /\ cfg[t] # NoConfig
      BY <3>1 DEF Duty, Stopping, Obeys, Winds
    <3>2. CASE pc[t] \in {"k.write", "k.load"} /\ req[t] = "pause"
      BY <3>2 DEF Stopping, Accounts, NoneUp, Obeys, Winds, Tearing
    <3> QED
      BY <1>1, <3>1, <3>2 DEF GoesThrough
  <2>2. Up' = {} /\ ~desired'
    BY <2>1, StopperRetreats
  <2>3. ~Revived(t)'
    BY <1>0, <1>1 DEF GoesThrough, Duty, Revived, Launching, Asking, NoRequest
  <2> QED
    BY <1>1, <2>2, <2>3 DEF GoesThrough
<1>2. CASE ~GoesThrough(t)
  <2>1. uci.paused /\ Up = {} /\ ~desired /\ ~Revived(t)
    BY <1>2 DEF Kept, Obeys
  <2>2. pc[t] = "m.probe" \/ Stopping(t)
    <3>1. pc[t] \in Labels
      BY <1>0 DEF Hands, Equipped
    <3>2. pc[t] \in Tearing \cup {"disable", "load", "hold", "m.probe"}
      BY <1>0, <2>1, <3>1 DEF Labels, Launching, Tearing, Duty, Revived, Asking
    <3> QED
      BY <2>1, <3>2 DEF Duty, Revived, Asking, Tears, Stopping
  <2>3. CASE pc[t] = "m.probe"
    <3>1. MutationProbe(t) /\ t \notin Loops
      BY <2>3, AtMutationProbe, Disjoint
    <3>2. RunningPID = NoPid
      BY <2>1 DEF RunningPID
    <3>3. Finish(t)
      BY <3>1, <3>2 DEF MutationProbe
    <3>4. desired' = desired /\ uci' = uci /\ UNCHANGED proc /\ pc'[t] = "idle"
      BY <1>0, <3>1, <3>3, Lands DEF MutationProbe, procVars, Finish, supVars
    <3> QED
      BY <1>0, <2>1, <3>4, SameUp DEF Duty, Revived, Launching, Asking, NoRequest
  <2>4. CASE Stopping(t)
    <3>1. Up' = {} /\ ~desired' /\ uci'.paused
      BY <2>1, <2>4, StopperRetreats
    <3>2. pc'[t] \notin Launching /\ req'[t] \in {"stop", "pause", "cleanup", NoRequest}
      BY <2>4, StopperRetreats DEF Stopping
    <3>3. ~Revived(t)'
      BY <3>2 DEF Revived, Asking, NoRequest
    <3> QED
      BY <3>1, <3>3
  <2> QED
    BY <2>2, <2>3, <2>4
<1> QED
  BY <1>1, <1>2

(* Whoever runs beside t is a stopper; what t leaves of the processes and  *)
(* of the supervisor's goal is no more than what was there.                *)
LEMMA BesideKeeps ==
  ASSUME NEW u, Stopping(u), Duty(u), Accounts(u), Obeys(u), Named',
         pc'[u] = pc[u], cfg'[u] = cfg[u], pid'[u] = pid[u], req'[u] = req[u],
         Up' \subseteq Up, desired' => desired
  PROVE  Accounts(u)' /\ Obeys(u)'
<1>1. Accounts(u)'
  BY DEF Accounts
<1>2. ~Revived(u)'
  BY DEF Revived, Stopping, Duty, Asking
<1>3. Winds(u)'
  BY DEF Obeys, Winds
<1> QED
  BY <1>1, <1>2, <1>3 DEF Obeys

LEMMA StopperNames ==
  ASSUME NEW u, Stopping(u), Duty(u), Accounts(u)
  PROVE  Named
BY DEF Accounts, Duty, Launching

LEMMA WorksKeepsExclusively ==
  ASSUME TypeInv, Duties, ExclusivelyKept, exclusive' => exclusive /\ Uncontested',
         NEW t \in Threads, Works(t), stopped' => stopped \/ GoesThrough(t)
  PROVE  ExclusivelyKept'
<1> SUFFICES ASSUME exclusive'
             PROVE  /\ Kept' /\ (AllIdle' => Named')
                    /\ \A u \in Threads : pc'[u] # "idle" => Accounts(u)' /\ Obeys(u)'
  BY DEF ExclusivelyKept
<1>0. Others(t) /\ pc[t] # "idle" /\ Duty(t)
  BY WorksAlone DEF Duties
<1>1. Uncontested /\ Kept /\ \A u \in Threads : pc[u] # "idle" => Accounts(u) /\ Obeys(u)
  BY DEF ExclusivelyKept
<1>2. Accounts(t)' /\ Kept' /\ Obeys(t)'
  BY <1>0, <1>1, WorksAccounts, WorksObeys
<1>3. AllIdle' => Named'
  BY <1>2 DEF AllIdle, Accounts
<1>4. ASSUME NEW u \in Threads, u # t, pc'[u] # "idle"
      PROVE  Accounts(u)' /\ Obeys(u)'
  <2>1. /\ pc'[u] = pc[u] /\ cfg'[u] = cfg[u] /\ pid'[u] = pid[u] /\ req'[u] = req[u]
        /\ pc[u] # "idle" /\ Duty(u)
    BY <1>0, <1>4 DEF Others, Duties
  <2>2. Stopping(t) /\ Stopping(u)
    BY <1>0, <1>1, <1>4, <2>1 DEF Uncontested
  <2>3. Up' \subseteq Up /\ (desired' => desired) /\ pc'[t] # "pidfile"
    BY <1>0, <2>2, StopperRetreats DEF Launching
  <2>4. Named'
    BY <1>2, <2>3 DEF Accounts
  <2> QED
    BY <1>1, <2>1, <2>2, <2>3, <2>4, BesideKeeps
<1> QED
  BY <1>2, <1>3, <1>4

LEMMA StartsKeepsExclusively ==
  ASSUME TypeInv, Duties, ExclusivelyKept, exclusive' => exclusive /\ Uncontested',
         NEW t \in Threads, Starts(t), pc[t] = "idle",
         stopped' => stopped /\ ~(t \in Handlers /\ AskedFor(t))
  PROVE  ExclusivelyKept'
<1> SUFFICES ASSUME exclusive'
             PROVE  /\ Kept' /\ (AllIdle' => Named')
                    /\ \A u \in Threads : pc'[u] # "idle" => Accounts(u)' /\ Obeys(u)'
  BY DEF ExclusivelyKept
<1>0. Hands /\ Others(t) /\ pc'[t] # "idle" /\ req[t] = NoRequest
  BY StartsAlone DEF TypeInv, Duties, Duty
<1>1. /\ Kept /\ Uncontested' /\ (AllIdle => Named)
      /\ \A u \in Threads : pc[u] # "idle" => Accounts(u) /\ Obeys(u)
  BY DEF ExclusivelyKept
<1>2. Up' = Up /\ desired' = desired /\ (Named => Named')
  <2>1. UNCHANGED <<proc, pidfile, desired>>
    BY DEF Starts, Takes, Accept, Wake, Sup!Snapshot, procVars, supVars
  <2> QED
    BY <2>1, SameUp DEF Named
<1>3. ASSUME NEW u \in Threads, u # t, pc'[u] # "idle"
      PROVE  /\ pc'[u] = pc[u] /\ cfg'[u] = cfg[u] /\ pid'[u] = pid[u] /\ req'[u] = req[u]
             /\ pc[u] # "idle" /\ Duty(u) /\ Stopping(u) /\ Stopping(t)'
  <2>1. pc'[u] = pc[u] /\ cfg'[u] = cfg[u] /\ pid'[u] = pid[u] /\ req'[u] = req[u]
    BY <1>0, <1>3 DEF Others
  <2>2. Stopping(u)' /\ Stopping(t)'
    BY <1>0, <1>1, <1>3 DEF Uncontested
  <2> QED
    BY <1>3, <2>1, <2>2 DEF Stopping, Duties
<1>4. Named /\ Named'
  <2>1. CASE AllIdle
    BY <1>1, <1>2, <2>1
  <2>2. ASSUME NEW u \in Threads, pc[u] # "idle"
        PROVE  Named
    <3>1. u # t /\ pc'[u] # "idle"
      BY <1>0, <2>2 DEF Others
    <3> QED
      BY <1>1, <1>3, <2>2, <3>1, StopperNames
  <2> QED
    BY <1>2, <2>1, <2>2 DEF AllIdle
<1>5. ASSUME NEW u \in Threads, u # t, pc'[u] # "idle"
      PROVE  Accounts(u)' /\ Obeys(u)'
  BY <1>1, <1>2, <1>3, <1>4, <1>5, BesideKeeps
<1>6. CASE t \in Loops /\ Wake(t) /\ desired
  <2>1. pc'[t] = "l.probe" /\ ~stopped
    BY <1>0, <1>1, <1>6 DEF Wake, Hands, Kept
  <2>2. Accounts(t)' /\ Obeys(t)' /\ Kept'
    BY <1>4, <2>1, AccountsNamed DEF NoneUp, Owning, Obeys, Winds, Tearing, Kept
  <2> QED
    BY <1>0, <1>5, <2>2 DEF AllIdle
<1>7. ASSUME NEW r \in Requests, t \in Handlers, Takes(t, r)
      PROVE  /\ Kept' /\ (AllIdle' => Named')
             /\ \A u \in Threads : pc'[u] # "idle" => Accounts(u)' /\ Obeys(u)'
  <2>1. /\ pc'[t] \in {"m.probe", "resume", "load"} /\ req'[t] = r
        /\ r = "mutate" => pc'[t] = "m.probe"
    BY <1>0, <1>7, TakesUp
  <2>2. stopped' => r \notin Asking
    BY <1>0, <1>7, <2>1 DEF AskedFor, Asking
  <2>3. Accounts(t)'
    BY <1>4, <2>1, AccountsNamed DEF NoneUp, Owning
  <2>4. Obeys(t)'
    <3>1. Winds(t)'
      BY <2>1 DEF Winds, Tearing
    <3>2. pc'[t] \notin Launching
      BY <2>1 DEF Launching
    <3> QED
      BY <2>1, <2>2, <3>1, <3>2 DEF Obeys, Revived
  <2>5. ASSUME stopped'
        PROVE  uci'.paused
    <3>1. uci.paused /\ r \notin {"start", "restart", "resume"}
      BY <1>1, <2>2, <2>5 DEF Kept, Asking
    <3> QED
      BY <1>7, <3>1, AcceptEdits DEF Takes, TypeInv, Settings
  <2>6. Kept'
    BY <1>1, <1>2, <2>5 DEF Kept
  <2> QED
    BY <1>0, <1>5, <2>3, <2>4, <2>6 DEF AllIdle
<1> QED
  BY <1>6, <1>7 DEF Starts

LEMMA AroundKeepsExclusively ==
  ASSUME TypeInv, Fresh, ExclusivelyKept, exclusive' => exclusive /\ Uncontested',
         World \/ Idles, stopped' => stopped
  PROVE  ExclusivelyKept'
<1> SUFFICES ASSUME exclusive'
             PROVE  /\ Kept' /\ (AllIdle' => Named')
                    /\ \A u \in Threads : pc'[u] # "idle" => Accounts(u)' /\ Obeys(u)'
  BY DEF ExclusivelyKept
<1>0. /\ Kept /\ (AllIdle => Named)
      /\ \A u \in Threads : pc[u] # "idle" => Accounts(u) /\ Obeys(u)
  BY DEF ExclusivelyKept
<1>1. Undisturbed
  BY WorldUndisturbed, IdleUndisturbed
<1>2. /\ AllIdle' => AllIdle
      /\ \A u \in Threads : pc'[u] # "idle" =>
           /\ pc[u] # "idle" /\ pc'[u] = pc[u]
           /\ cfg'[u] = cfg[u] /\ pid'[u] = pid[u] /\ req'[u] = req[u]
      /\ Up' \subseteq Up /\ (Named => Named')
  BY <1>1 DEF Undisturbed, AllIdle
<1>3. uci'.paused = uci.paused
  <2>1. CASE World \/ \E l : Wake(l)
    BY <2>1 DEF World, Die, Reap, GoLoop, LoopReturns, BootSupervisor, Wake
  <2>2. ASSUME NEW t \in Handlers, NEW r \in Requests, Spares(t, r)
        PROVE  uci'.paused = uci.paused
    BY <2>2, AcceptEdits DEF Spares, TypeInv, Settings
  <2> QED
    BY <2>1, <2>2 DEF Idles
<1>4. CASE BootSupervisor
  <2>1. AllIdle
    BY <1>4 DEF BootSupervisor, Fresh
  <2>2. ASSUME stopped
        PROVE  desired' = desired
    <3>1. RunningPID = NoPid /\ uci.paused
      BY <1>0, <2>2 DEF Kept, RunningPID
    <3> QED
      BY <1>4, <3>1 DEF BootSupervisor, supVars
  <2>3. Kept'
    BY <1>0, <1>2, <1>3, <2>2 DEF Kept
  <2> QED
    BY <1>0, <1>1, <1>2, <2>1, <2>3 DEF AllIdle, Undisturbed
<1>5. CASE ~BootSupervisor
  <2>1. desired' = desired
    BY <1>5 DEF World, Idles, Spares, Die, Reap, GoLoop, LoopReturns, Wake, Accept, supVars,
                Sup!SpawnLoop, Sup!SupervisorStopped, Sup!Snapshot
  <2>2. Kept'
    BY <1>0, <1>2, <1>3, <2>1 DEF Kept
  <2>3. ASSUME NEW u \in Threads, pc'[u] # "idle"
        PROVE  Accounts(u)' /\ Obeys(u)'
    <3>1. Accounts(u)'
      BY <1>0, <1>2, <2>3 DEF Accounts
    <3>2. Obeys(u)'
      BY <1>0, <1>2, <2>1, <2>3 DEF Obeys, Revived, Winds
    <3> QED
      BY <3>1, <3>2
  <2> QED
    BY <1>0, <1>2, <2>2, <2>3
<1> QED
  BY <1>4, <1>5

(* The daemon dies while nothing but stops is at work.                     *)
LEMMA CutKeepsExclusively ==
  ASSUME TypeInv, Duties, ExclusivelyKept, DaemonCrash \/ Reboot
  PROVE  ExclusivelyKept'
<1> SUFFICES ASSUME exclusive'
             PROVE  Uncontested' /\ Kept' /\ Named' /\ AllIdle'
  BY DEF ExclusivelyKept, AllIdle
<1>1. /\ exclusive /\ stopped' = stopped /\ uci' = uci /\ ~desired' /\ AllIdle'
      /\ \A t \in Threads : pc[t] # "idle" => Stopping(t)
  BY BootIsNoThread DEF DaemonCrash, Reboot, Cut, Vanish, Sup!Respawn, AllIdle
<1>2. Kept /\ Named
  BY <1>1, StopperNames DEF ExclusivelyKept, AllIdle, Duties
<1>3. Up' \subseteq Up /\ Named'
  <2>1. CASE DaemonCrash
    BY <1>2, <2>1 DEF DaemonCrash, Reparent, Up, Dead, Named
  <2>2. CASE Reboot
    BY <2>2 DEF Reboot, Up, Dead, Named
  <2> QED
    BY <2>1, <2>2
<1> QED
  BY <1>1, <1>2, <1>3 DEF Kept, Uncontested, AllIdle

LEMMA ExclusivelyKeptStep ==
  TypeInv /\ LoopsOK /\ Fresh /\ Duties /\ ExclusivelyKept /\ [Next]_vars => ExclusivelyKept'
<1> SUFFICES ASSUME TypeInv, LoopsOK, Fresh, Duties, ExclusivelyKept, [Next]_vars
             PROVE  ExclusivelyKept'
  OBVIOUS
<1>1. CASE DaemonCrash \/ Reboot
  BY <1>1, CutKeepsExclusively
<1>2. CASE UNCHANGED vars
  BY <1>2 DEF vars, procVars, threadVars, supVars, history, ExclusivelyKept, Uncontested, Stopping,
              Kept, AllIdle, Named, Up, Accounts, Obeys, Revived, Winds
<1>3. CASE DaemonStep
  <2>1. exclusive' => exclusive /\ Uncontested'
    BY <1>3 DEF DaemonStep, Tracked
  <2>2. stopped' => /\ stopped \/ \E h \in Handlers : GoesThrough(h)
                    /\ \A h \in Handlers : ~AskedFor(h)
    BY <1>3 DEF DaemonStep, Tracked
  <2>3. \A h \in Handlers : GoesThrough(h) => h \in Threads /\ pc[h] # "idle" /\ pc'[h] # pc[h]
    BY DEF GoesThrough, Threads
  <2>4. CASE World \/ Idles
    <3>1. \A h \in Threads : pc'[h] = pc[h]
      BY <2>4, WorldUndisturbed, IdleUndisturbed DEF Undisturbed
    <3> QED
      BY <2>1, <2>2, <2>3, <2>4, <3>1, AroundKeepsExclusively
  <2>5. ASSUME NEW t \in Threads, Works(t)
        PROVE  ExclusivelyKept'
    <3>1. stopped' => stopped \/ GoesThrough(t)
      BY <2>2, <2>3, <2>5, WorksAlone DEF Others
    <3> QED
      BY <2>1, <2>5, <3>1, WorksKeepsExclusively
  <2>6. ASSUME NEW t \in Threads, Starts(t), pc[t] = "idle"
        PROVE  ExclusivelyKept'
    <3>1. stopped' => stopped /\ ~(t \in Handlers /\ AskedFor(t))
      BY <2>2, <2>3, <2>6, StartsAlone DEF Others
    <3> QED
      BY <2>1, <2>6, <3>1, StartsKeepsExclusively
  <2> QED
    BY <1>3, <2>4, <2>5, <2>6, StepKinds
<1> QED
  BY <1>1, <1>2, <1>3 DEF Next

LEMMA ExclusivelyKeptCorrect == Safe => []ExclusivelyKept
<1>1. Init => ExclusivelyKept
  <2> SUFFICES ASSUME Init
               PROVE  ExclusivelyKept
    OBVIOUS
  <2>1. Up = {} /\ ~desired /\ stopped = uci.paused
    BY DEF Init, Up, Dead, Sup!SupInit
  <2>2. \A t \in Threads : pc[t] = "idle"
    BY BootIsNoThread DEF Init
  <2> QED
    BY <2>1, <2>2 DEF ExclusivelyKept, Uncontested, Kept, Named
<1> QED
  BY <1>1, ExclusivelyKeptStep, TypeInvCorrect, LoopsOKCorrect, FreshCorrect, DutiesCorrect,
     PTL DEF Safe

(* A stop that went through stays, for any requests, failures, crashes and *)
(* reboots: until the runtime is asked for again the hold is engaged,      *)
(* nothing runs and nothing is going to be restarted, as long as what may  *)
(* start sing-box was alone whenever it ran and was not cut off.  Stops    *)
(* that overlap, are retried or are cut off half-way are in this theorem.  *)
THEOREM StopsForGoodCorrect == Safe => []StopsForGood
<1>1. ExclusivelyKept => StopsForGood
  BY DEF ExclusivelyKept, Kept, StopsForGood
<1> QED
  BY <1>1, ExclusivelyKeptCorrect, PTL

(* Operations that come one at a time are more than exclusive.             *)
SerialIsExclusive == serial => exclusive

LEMMA SerialIsExclusiveCorrect == Safe => []SerialIsExclusive
<1>1. Init => SerialIsExclusive
  BY DEF Init, SerialIsExclusive
<1>2. SerialIsExclusive /\ [Next]_vars => SerialIsExclusive'
  <2> SUFFICES ASSUME SerialIsExclusive, [Next]_vars, serial'
               PROVE  exclusive'
    BY DEF SerialIsExclusive
  <2>1. CASE DaemonStep
    BY <2>1 DEF DaemonStep, Tracked, Alone, Uncontested, SerialIsExclusive
  <2>2. CASE DaemonCrash \/ Reboot
    BY <2>2 DEF DaemonCrash, Reboot, Cut, Vanish, SerialIsExclusive
  <2>3. CASE UNCHANGED vars
    BY <2>3 DEF vars, history, SerialIsExclusive
  <2> QED
    BY <2>1, <2>2, <2>3 DEF Next
<1> QED
  BY <1>1, <1>2, PTL DEF Safe

-----------------------------------------------------------------------------
(* The black hole, while operations come one at a time.  What runs, and    *)
(* what traffic is diverted to, will be brought back: by the supervisor,   *)
(* by the daemon that is starting (Revives), or by nobody, where a boot    *)
(* left it to itself (abandoned).  A stop that went through leaves neither *)
(* (Quelled).                                                              *)

Revives == desired \/ pc[Boot] = "boot"
Backed == Up # {} => Revives \/ abandoned
Captive == ~fwErr /\ Captured => Revives \/ abandoned
Quelled == stopped /\ ~fwErr => ~Captured
Answered == Backed /\ Captive /\ Quelled

Answering == {"m.probe", "resume", "load", "check", "validate", "r.validate", "r.probe", "l.probe",
              "hold"}
Cleaning == {"c.load", "k.load"}

Answers(t) ==
  /\ t \in Loops => desired
  /\ pc[t] \in Answering => Answered
  /\ pc[t] \in {"r.write", "r.load.fw", "hup"} => desired \/ abandoned
  /\ pc[t] \in Cleaning => include \in {"none", "kill"}
  /\ pc[t] = "hold" /\ cfg[t] # NoConfig /\ ~fwErr => ~Captured

SeriallyAnswered ==
  serial => /\ AllIdle => Answered
            /\ \A t \in Threads : pc[t] # "idle" => Answers(t)

AnswersOn(t) ==
  /\ pc'[t] = "idle" => Answered'
  /\ pc'[t] # "idle" => Answers(t)'

(* What a step of t does to the history.                                   *)
Records(t) ==
  /\ stopped' => stopped \/ GoesThrough(t)
  /\ abandoned /\ pc[t] \notin Cleaning => abandoned'

LEMMA StillAnswered ==
  ASSUME Answered, desired' = desired, pc'[Boot] = pc[Boot], UNCHANGED fwVars, Up' \subseteq Up,
         stopped' => stopped, abandoned => abandoned'
  PROVE  Answered'
BY DEF Answered, Backed, Captive, Quelled, Captured, Revives, fwVars

LEMMA RevivedIsAnswered ==
  ASSUME desired' \/ abandoned', ~stopped'
  PROVE  Answered'
BY DEF Answered, Backed, Captive, Quelled, Revives

LEMMA DownIsAnswered ==
  ASSUME Up' = {}, ~fwErr' => ~Captured'
  PROVE  Answered'
BY DEF Answered, Backed, Captive, Quelled

LEMMA ArrivesAnswered ==
  ASSUME NEW t, t \in Loops => desired', Answered',
         pc'[t] \in {"idle", "m.probe", "resume", "load", "check", "validate", "r.validate",
                     "r.probe", "l.probe"}
  PROVE  AnswersOn(t)
BY DEF AnswersOn, Answers, Answering, Cleaning

LEMMA ArrivesAnywhere ==
  ASSUME NEW t, t \in Loops => desired',
         pc'[t] \in {"write", "load.fw", "spawn", "pidfile", "settle", "enable", "c.write",
                     "k.write", "disable", "probe", "term", "await", "unpid"}
  PROVE  AnswersOn(t)
BY DEF AnswersOn, Answers, Answering, Cleaning

LEMMA StartStepAnswers ==
  ASSUME TypeInv, NEW t \in Threads, Orderly(t), Obeys(t), Answers(t), Records(t), StartStep(t)
  PROVE  AnswersOn(t)
<1>0. /\ Hands /\ desired' = desired /\ pc'[Boot] = pc[Boot]
      /\ t \in Loops => desired /\ desired'
  BY StartStepKeeps, StartStepProceeds, ProceedsAlone DEF TypeInv, Others, Answers
<1>1. pc[t] \in Launching => ~stopped /\ ~stopped'
  BY DEF Obeys, Revived, Records, GoesThrough, Launching
<1>2. CASE Check(t) \/ Validate(t) \/ GenerateFails(t)
  <2>1. /\ Answered /\ pc[t] \in Launching /\ pc[t] \notin Cleaning
        /\ Up' = Up /\ UNCHANGED fwVars
    BY <1>2, SameUp DEF Check, Validate, GenerateFails, procVars, Answers, Answering, Launching,
                        Cleaning
  <2>2. Answered'
    BY <1>0, <1>1, <2>1, StillAnswered DEF Records
  <2>3. pc'[t] \in {"idle", "validate", "enable", "write", "r.probe"}
    BY <1>0, <1>2, Lands DEF Check, Validate, GenerateFails
  <2> QED
    BY <1>0, <2>2, <2>3, ArrivesAnswered, ArrivesAnywhere
<1>3. CASE ApplyWrite(t) \/ ApplyLoad(t)
  <2>1. /\ pc[t] \in {"r.write", "r.load.fw"} => desired' \/ abandoned'
        /\ ~stopped'
    BY <1>0, <1>1, <1>3 DEF ApplyWrite, ApplyLoad, Answers, Records, Launching, Cleaning
  <2>2. \/ pc'[t] \in {"load.fw", "spawn", "c.write"}
        \/ pc[t] \in {"r.write", "r.load.fw"} /\ pc'[t] \in {"r.load.fw", "hup", "idle"}
    BY <1>0, <1>3, Lands DEF ApplyWrite, ApplyLoad, ApplyFailed
  <2>3. ASSUME pc[t] \in {"r.write", "r.load.fw"}, pc'[t] \in {"r.load.fw", "hup", "idle"}
        PROVE  AnswersOn(t)
    BY <1>0, <2>1, <2>3, RevivedIsAnswered DEF AnswersOn, Answers, Answering, Cleaning
  <2> QED
    BY <1>0, <2>2, <2>3, ArrivesAnywhere
<1>4. CASE Spawn(t) \/ WritePidfile(t)
  <2>1. pc'[t] \in {"pidfile", "settle", "c.write"}
    BY <1>0, <1>4, Lands DEF Spawn, WritePidfile
  <2> QED
    BY <1>0, <2>1, ArrivesAnywhere
<1>5. CASE Settle(t)
  <2>1. ~stopped'
    BY <1>1, <1>5 DEF Settle, Launching
  <2>2. CASE t \in Loops /\ Finish(t)
    BY <1>0, <2>1, <2>2, Lands, RevivedIsAnswered, ArrivesAnswered
  <2>3. CASE pc'[t] \in {"c.write", "enable"}
    BY <1>0, <2>3, ArrivesAnywhere
  <2> QED
    BY <1>0, <1>5, <2>2, <2>3, Lands DEF Settle, Started
<1>6. CASE CleanupWrite(t) \/ CleanupLoad(t)
  <2>1. Up' = {}
    BY <1>6, SameUp DEF CleanupWrite, CleanupLoad, procVars, Orderly, NoneUp
  <2>2. ASSUME NEW ok, CleanedUp(t, ok), ~fwErr' => ~Captured'
        PROVE  AnswersOn(t)
    <3>1. Answered'
      BY <2>1, <2>2, DownIsAnswered
    <3>2. pc'[t] \in {"idle", "check", "hold"}
      BY <1>0, <2>2, Lands, StoppedLands DEF CleanedUp
    <3> QED
      BY <1>0, <2>2, <3>1, <3>2, ArrivesAnswered DEF AnswersOn, Answers, Answering, Cleaning
  <2>3. CASE CleanupWrite(t)
    <3>1. CASE fwErr' = TRUE /\ CleanedUp(t, FALSE)
      BY <2>2, <3>1
    <3>2. CASE include' = CleanupTarget(t) /\ (Step(t, "c.load") \/ Step(t, "k.load"))
      <4>1. pc'[t] \in {"c.load", "k.load"} /\ include' \in {"none", "kill"}
        BY <1>0, <3>2, Lands DEF CleanupTarget
      <4> QED
        BY <1>0, <4>1 DEF AnswersOn, Answers, Answering
    <3> QED
      BY <2>3, <3>1, <3>2 DEF CleanupWrite
  <2>4. CASE CleanupLoad(t)
    <3>1. CASE fwErr' = TRUE /\ CleanedUp(t, FALSE)
      BY <2>2, <3>1
    <3>2. CASE routes' = FALSE /\ loaded' = include /\ CleanedUp(t, TRUE)
      <4>1. ~Captured'
        BY <2>4, <3>2 DEF CleanupLoad, Answers, Captured, Cleaning
      <4> QED
        BY <2>2, <3>2, <4>1
    <3> QED
      BY <2>4, <3>1, <3>2 DEF CleanupLoad
  <2> QED
    BY <1>6, <2>3, <2>4
<1> QED
  BY <1>2, <1>3, <1>4, <1>5, <1>6 DEF StartStep

LEMMA HandlerStepAnswers ==
  ASSUME TypeInv, Fresh, NEW t \in Handlers, Orderly(t), Duty(t), Obeys(t), Answers(t), Records(t),
         HandlerStep(t), pc'[Boot] = pc[Boot], pc[t] # "idle"
  PROVE  AnswersOn(t)
<1>0. Hands /\ t \in Threads /\ t \notin Loops /\ pc[Boot] # "boot"
  BY Disjoint DEF TypeInv, Threads, Fresh, AllIdle
<1>1. CASE MutationProbe(t) \/ Resume(t) \/ Load(t) \/ LoadFails(t)
  <2>1. Answered /\ Up' = Up /\ UNCHANGED fwVars /\ desired' = desired /\ pc[t] \notin Cleaning
    BY <1>0, <1>1, SameUp DEF MutationProbe, Resume, Load, LoadFails, Finish, Step, procVars,
                              supVars, Answers, Answering, Cleaning
  <2>2. ~GoesThrough(t)
    BY <1>1 DEF MutationProbe, Resume, Load, LoadFails, GoesThrough
  <2>3. Answered'
    BY <1>0, <2>1, <2>2, StillAnswered DEF Records
  <2>4. CASE LoadFails(t)
    <3>1. cfg[t] = NoConfig
      BY <2>4 DEF LoadFails, Duty
    <3>2. pc'[t] = "idle" \/ (pc'[t] = "hold" /\ cfg'[t] = NoConfig)
      BY <1>0, <2>4, <3>1, Lands DEF LoadFails
    <3> QED
      BY <1>0, <2>3, <3>2 DEF AnswersOn, Answers, Cleaning
  <2>5. CASE MutationProbe(t) \/ Resume(t) \/ Load(t)
    <3>1. pc'[t] \in {"idle", "load", "check", "r.validate", "disable"}
      BY <1>0, <2>5, Lands DEF MutationProbe, Resume, Load
    <3> QED
      BY <1>0, <2>3, <3>1, ArrivesAnswered, ArrivesAnywhere
  <2> QED
    BY <1>1, <2>4, <2>5
<1>2. CASE Hold(t)
  <2>1. /\ Answered /\ Up' = Up /\ UNCHANGED fwVars /\ desired' = desired /\ pc[t] = "hold"
        /\ pc'[t] = "idle"
    BY <1>0, <1>2, SameUp, Lands DEF Hold, Finish, procVars, supVars, Answers, Answering
  <2>2. Backed' /\ Captive'
    BY <1>0, <2>1 DEF Records, Cleaning, Answered, Backed, Captive, Captured, Revives, fwVars
  <2>3. Quelled'
    BY <2>1 DEF Records, GoesThrough, Answers, Answered, Quelled, Captured, fwVars
  <2> QED
    BY <2>1, <2>2, <2>3 DEF AnswersOn, Answered
<1>3. CASE StartStep(t)
  BY <1>0, <1>3, StartStepAnswers
<1>4. CASE Enable(t)
  <2>1. desired' /\ pc'[t] = "idle" /\ pc[t] = "enable"
    BY <1>0, <1>4, Lands DEF Enable, Sup!EnableSupervisor
  <2>2. ~stopped'
    BY <2>1 DEF Obeys, Revived, Records, GoesThrough, Launching
  <2> QED
    BY <2>1, <2>2, RevivedIsAnswered DEF AnswersOn
<1>5. CASE Disable(t) \/ Probe(t) \/ Terminate(t) \/ Await(t) \/ RemovePidfile(t)
  <2>1. pc'[t] \in {"probe", "term", "await", "unpid", "k.write"}
    BY <1>0, <1>5, Lands DEF Disable, Probe, Terminate, Await, RemovePidfile
  <2> QED
    BY <1>0, <2>1, ArrivesAnywhere
<1>6. CASE ReloadProbe(t)
  <2>1. /\ Answered /\ Up' = Up /\ UNCHANGED fwVars /\ desired' = desired /\ pc[t] = "r.probe"
        /\ pc'[t] = IF RunningPID = NoPid THEN "check" ELSE "r.write"
    BY <1>0, <1>6, SameUp, Lands DEF ReloadProbe, procVars, supVars, Answers, Answering
  <2>2. abandoned => abandoned'
    BY <2>1 DEF Records, Cleaning
  <2>3. CASE RunningPID = NoPid
    <3>1. Answered'
      BY <1>0, <2>1, <2>2, StillAnswered DEF Records, GoesThrough
    <3> QED
      BY <1>0, <2>1, <2>3, <3>1, ArrivesAnswered
  <2>4. CASE RunningPID # NoPid
    <3>1. desired \/ abandoned
      BY <1>0, <2>1, <2>4 DEF RunningPID, Answered, Backed, Revives
    <3> QED
      BY <1>0, <2>1, <2>2, <2>4, <3>1 DEF AnswersOn, Answers, Answering, Cleaning
  <2> QED
    BY <2>3, <2>4
<1>7. CASE Hup(t)
  <2>1. (desired' \/ abandoned') /\ pc[t] = "hup"
    BY <1>0, <1>7 DEF Hup, Finish, Step, supVars, Answers, Records, Cleaning
  <2>2. ~stopped'
    BY <2>1 DEF Obeys, Revived, Records, GoesThrough, Launching
  <2>3. pc'[t] \in {"idle", "enable"}
    BY <1>0, <1>7, Lands DEF Hup
  <2> QED
    BY <1>0, <2>1, <2>2, <2>3, RevivedIsAnswered, ArrivesAnswered, ArrivesAnywhere
<1> QED
  BY <1>1, <1>2, <1>3, <1>4, <1>5, <1>6, <1>7 DEF HandlerStep

LEMMA WorksAnswers ==
  ASSUME TypeInv, Fresh, NEW t \in Threads, Orderly(t), Duty(t), Obeys(t), Answers(t), Records(t),
         Works(t)
  PROVE  AnswersOn(t)
<1>0. pc'[Boot] = pc[Boot] /\ pc[t] # "idle"
  BY WorksAlone DEF Others
<1>1. CASE t \in Loops /\ LoopProbe(t)
  <2>1. Answered /\ Up' = Up /\ UNCHANGED fwVars /\ desired /\ pc[t] = "l.probe"
    BY <1>1, SameUp DEF LoopProbe, procVars, Answers, Answering
  <2>2. desired' = desired /\ pc'[t] \in {"idle", "check"}
    BY <1>1, Lands DEF TypeInv, LoopProbe, Finish, Step, supVars, Sup!Continue
  <2>3. Answered'
    BY <1>0, <2>1, <2>2, StillAnswered DEF Records, GoesThrough, Cleaning
  <2> QED
    BY <2>1, <2>2, <2>3, ArrivesAnswered
<1> QED
  BY <1>0, <1>1, StartStepAnswers, HandlerStepAnswers DEF Works

LEMMA StartsAnswers ==
  ASSUME TypeInv, NEW t \in Threads, Answered, Starts(t), stopped' => stopped,
         abandoned => abandoned'
  PROVE  AnswersOn(t)
<1>0. Hands /\ pc'[Boot] = pc[Boot]
  BY StartsAlone DEF TypeInv, Others
<1>1. desired' = desired /\ Up' = Up /\ UNCHANGED fwVars
  BY SameUp DEF Starts, Takes, Accept, Wake, Sup!Snapshot, procVars, supVars
<1>2. Answered'
  BY <1>0, <1>1, StillAnswered
<1>3. CASE t \in Loops /\ Wake(t) /\ desired
  <2>1. pc'[t] = "l.probe"
    BY <1>0, <1>3 DEF Wake, Hands
  <2> QED
    BY <1>1, <1>2, <1>3, <2>1, ArrivesAnswered
<1>4. ASSUME NEW r \in Requests, t \in Handlers, Takes(t, r)
      PROVE  AnswersOn(t)
  BY <1>0, <1>2, <1>4, TakesUp, Disjoint, ArrivesAnswered
<1> QED
  BY <1>3, <1>4 DEF Starts

LEMMA AroundAnswers ==
  ASSUME TypeInv, Fresh, SeriallyAnswered, serial' => serial /\ Alone', World \/ Idles,
         ~BootSupervisor, stopped' => stopped, abandoned => abandoned'
  PROVE  SeriallyAnswered'
<1> SUFFICES ASSUME serial'
             PROVE  (AllIdle' => Answered') /\ \A t \in Threads : pc'[t] # "idle" => Answers(t)'
  BY DEF SeriallyAnswered
<1>0. serial /\ Hands
  BY DEF TypeInv
<1>1. Undisturbed /\ UNCHANGED fwVars
  BY WorldUndisturbed, IdleUndisturbed DEF Undisturbed
<1>2. /\ AllIdle' => AllIdle
      /\ \A t \in Threads : pc'[t] # "idle" => pc[t] # "idle" /\ pc'[t] = pc[t] /\ cfg'[t] = cfg[t]
      /\ Up' \subseteq Up
  BY <1>1 DEF Undisturbed, AllIdle
<1>3. desired' = desired
  BY DEF World, Idles, Spares, Die, Reap, GoLoop, LoopReturns, Wake, Accept, supVars,
         Sup!SpawnLoop, Sup!SupervisorStopped, Sup!Snapshot
<1>4. pc'[Boot] = pc[Boot]
  <2>1. CASE World
    BY <2>1 DEF World, Die, Reap, GoLoop, LoopReturns, threadVars
  <2>2. CASE Idles
    BY <1>0, <2>2, WakesAlone, AcceptsAlone DEF Idles, Spares, Others
  <2> QED
    BY <2>1, <2>2
<1>5. Answered => Answered'
  BY <1>1, <1>2, <1>3, <1>4, StillAnswered
<1>6. \A t \in Threads : pc'[t] # "idle" => Answers(t)'
  BY <1>0, <1>1, <1>2, <1>3, <1>5 DEF SeriallyAnswered, Answers, fwVars, Captured
<1> QED
  BY <1>0, <1>2, <1>5, <1>6 DEF SeriallyAnswered

(* A boot takes over what it finds, or leaves it to itself.                *)
LEMMA BootAnswers ==
  ASSUME TypeInv, Fresh, ExclusivelyKept, SerialIsExclusive, SeriallyAnswered,
         serial' => serial /\ Alone', BootSupervisor, stopped' => stopped,
         abandoned' = (~desired' /\ ~stopped /\ (Captured \/ Up # {}))
  PROVE  SeriallyAnswered'
<1> SUFFICES ASSUME serial'
             PROVE  Answered' /\ AllIdle'
  BY DEF SeriallyAnswered, AllIdle
<1>0. serial /\ exclusive /\ AllIdle
  BY DEF SerialIsExclusive, BootSupervisor, Fresh
<1>1. Answered /\ Kept
  BY <1>0 DEF SeriallyAnswered, ExclusivelyKept
<1>2. Undisturbed /\ UNCHANGED fwVars
  BY WorldUndisturbed DEF World, Undisturbed
<1>3. AllIdle' /\ Up' \subseteq Up
  BY <1>0, <1>2 DEF Undisturbed, AllIdle
<1>4. Quelled'
  BY <1>1, <1>2 DEF Answered, Quelled, Captured, fwVars
<1>5. Backed' /\ Captive'
  <2>1. CASE desired'
    BY <2>1 DEF Backed, Captive, Revives
  <2>2. CASE ~desired' /\ stopped
    BY <1>1, <1>2, <1>3, <2>2 DEF Kept, Answered, Quelled, Backed, Captive, Captured, fwVars
  <2>3. CASE ~desired' /\ ~stopped
    BY <1>2, <1>3, <2>3 DEF Backed, Captive, Captured, fwVars
  <2> QED
    BY <2>1, <2>2, <2>3
<1> QED
  BY <1>3, <1>4, <1>5 DEF Answered

LEMMA CutAnswers ==
  ASSUME Serially, SeriallyAnswered, DaemonCrash \/ Reboot
  PROVE  SeriallyAnswered'
<1> SUFFICES ASSUME serial'
             PROVE  Answered' /\ AllIdle'
  BY DEF SeriallyAnswered, AllIdle
<1>1. serial /\ AllIdle /\ pc'[Boot] = "boot" /\ AllIdle' /\ stopped' = stopped
  BY BootIsNoThread DEF DaemonCrash, Reboot, Cut, Vanish, AllIdle
<1>2. Answered /\ Synced
  BY <1>1 DEF SeriallyAnswered, Serially, Rested
<1>3. ~fwErr' /\ Captured' => ~fwErr /\ Captured
  <2>1. CASE DaemonCrash
    BY <2>1 DEF DaemonCrash, fwVars, Captured
  <2>2. CASE Reboot
    BY <1>2, <2>2 DEF Reboot, Synced, Captured
  <2> QED
    BY <2>1, <2>2
<1> QED
  BY <1>1, <1>2, <1>3 DEF Answered, Backed, Captive, Quelled, Revives

LEMMA SeriallyAnsweredStep ==
  TypeInv /\ LoopsOK /\ Fresh /\ Duties /\ Serially /\ ExclusivelyKept /\ SerialIsExclusive
    /\ SeriallyAnswered /\ [Next]_vars => SeriallyAnswered'
<1> SUFFICES ASSUME TypeInv, LoopsOK, Fresh, Duties, Serially, ExclusivelyKept,
                    SerialIsExclusive, SeriallyAnswered, [Next]_vars
             PROVE  SeriallyAnswered'
  OBVIOUS
<1>1. CASE DaemonCrash \/ Reboot
  BY <1>1, CutAnswers
<1>2. CASE UNCHANGED vars
  BY <1>2 DEF vars, procVars, fwVars, threadVars, supVars, history, SeriallyAnswered, AllIdle,
              Answered, Backed, Captive, Quelled, Captured, Revives, Up, Answers
<1>3. CASE DaemonStep
  <2>1. /\ serial' => serial /\ Alone'
        /\ stopped' => stopped \/ \E h \in Handlers : GoesThrough(h)
        /\ pc'[Boot] = pc[Boot] =>
             (abandoned' <=> abandoned /\ ~\E u \in Threads : CleansUp(u))
        /\ pc'[Boot] # pc[Boot] =>
             abandoned' = (~desired' /\ ~stopped /\ (Captured \/ Up # {}))
    BY <1>3 DEF DaemonStep, Tracked
  <2>2. /\ \A h \in Handlers : GoesThrough(h) => h \in Threads /\ pc[h] # "idle" /\ pc'[h] # pc[h]
        /\ \A u \in Threads : CleansUp(u) => pc[u] \in Cleaning /\ pc'[u] # pc[u]
    BY DEF GoesThrough, CleansUp, Cleaning, Threads
  <2>3. CASE World \/ Idles
    <3>1. \A h \in Threads : pc'[h] = pc[h]
      BY <2>3, WorldUndisturbed, IdleUndisturbed DEF Undisturbed
    <3>2. stopped' => stopped
      BY <2>1, <2>2, <3>1
    <3>3. CASE BootSupervisor
      <4>1. pc'[Boot] # pc[Boot]
        BY <3>3 DEF BootSupervisor, TypeInv, Hands
      <4> QED
        BY <2>1, <3>2, <3>3, <4>1, BootAnswers
    <3>4. CASE ~BootSupervisor
      <4>1. pc'[Boot] = pc[Boot]
        <5>1. CASE World
          BY <3>4, <5>1 DEF World, Die, Reap, GoLoop, LoopReturns, threadVars
        <5>2. CASE Idles
          BY <5>2, WakesAlone, AcceptsAlone DEF TypeInv, Idles, Spares, Others
        <5> QED
          BY <2>3, <5>1, <5>2
      <4> QED
        BY <2>1, <2>2, <2>3, <3>1, <3>2, <3>4, <4>1, AroundAnswers
    <3> QED
      BY <3>3, <3>4
  <2>4. ASSUME NEW t \in Threads, Others(t), pc[t] # "idle" \/ pc'[t] # "idle",
               serial /\ (pc[t] = "idle" => AllIdle) => AnswersOn(t)
        PROVE  SeriallyAnswered'
    BY <2>1, <2>4, OneAtWork DEF SeriallyAnswered, AnswersOn
  <2>5. ASSUME NEW t \in Threads, Works(t)
        PROVE  SeriallyAnswered'
    <3>1. Others(t) /\ pc[t] # "idle"
      BY <2>5, WorksAlone
    <3>2. Records(t)
      BY <2>1, <2>2, <3>1 DEF Records, Others
    <3>3. serial => Orderly(t) /\ Duty(t) /\ Obeys(t) /\ Answers(t)
      BY <3>1 DEF Serially, Duties, SerialIsExclusive, ExclusivelyKept, SeriallyAnswered
    <3> QED
      BY <2>4, <2>5, <3>1, <3>2, <3>3, WorksAnswers
  <2>6. ASSUME NEW t \in Threads, Starts(t), pc[t] = "idle"
        PROVE  SeriallyAnswered'
    <3>1. Others(t) /\ pc'[t] # "idle"
      BY <2>6, StartsAlone
    <3>2. (stopped' => stopped) /\ (abandoned => abandoned')
      BY <2>1, <2>2, <2>6, <3>1 DEF Others, Cleaning
    <3>3. serial /\ AllIdle => AnswersOn(t)
      BY <2>6, <3>2, StartsAnswers DEF SeriallyAnswered
    <3> QED
      BY <2>4, <2>6, <3>1, <3>3
  <2> QED
    BY <1>3, <2>3, <2>5, <2>6, StepKinds
<1> QED
  BY <1>1, <1>2, <1>3 DEF Next

LEMMA SeriallyAnsweredCorrect == Safe => []SeriallyAnswered
<1>1. Init => SeriallyAnswered
  <2> SUFFICES ASSUME Init
               PROVE  SeriallyAnswered
    OBVIOUS
  <2>1. Up = {} /\ ~Captured
    BY DEF Init, Up, Dead, Captured
  <2>2. \A t \in Threads : pc[t] = "idle"
    BY BootIsNoThread DEF Init
  <2> QED
    BY <2>1, <2>2 DEF SeriallyAnswered, Answered, Backed, Captive, Quelled
<1> QED
  BY <1>1, SeriallyAnsweredStep, TypeInvCorrect, LoopsOKCorrect, FreshCorrect, DutiesCorrect,
     SeriallyCorrect, ExclusivelyKeptCorrect, SerialIsExclusiveCorrect, PTL DEF Safe

(* No black hole, as long as operations come one at a time, for any        *)
(* requests, failures, crashes and reboots: when sing-box is down and      *)
(* nothing will bring it back, no traffic is diverted to it, unless a      *)
(* firewall change failed and said so, or a boot left what nobody had      *)
(* stopped to itself.                                                      *)
THEOREM NoBlackHoleCorrect == Safe => []NoBlackHole
<1>1. SeriallyAnswered => NoBlackHole
  BY DEF SeriallyAnswered, NoBlackHole, Settled, Quiet, AllIdle, Answered, Captive, Revives
<1> QED
  BY <1>1, SeriallyAnsweredCorrect, PTL

-----------------------------------------------------------------------------
(* The service.  While the daemon lives nothing need be known of it: when  *)
(* it ends every goroutine is gone (Ended), and from then on the sweep is  *)
(* the only one at work.  What it has to go through before it is done is   *)
(* the invariant (Sweeps).                                                 *)

(* What the proof needs of the daemon: which goroutines have a place and a *)
(* request at all.  A teardown is no request of the RPC interface, so the  *)
(* type invariant of Runtime does not hold of req here.                    *)
Shape ==
  /\ pc = [t \in Threads \cup {Boot} |-> pc[t]]
  /\ req = [t \in Threads |-> req[t]]

Sweeping == {"load", "disable", "probe", "term", "await", "unpid", "k.write", "k.load"}

Clean == ~fwErr => loaded = "none" /\ include = "none" /\ ~routes

(* The daemon is gone, with its goroutines and loops.                      *)
Ended ==
  /\ \A t \in Threads \ {Sweeper} : pc[t] = "idle"
  /\ pc[Boot] = "idle" /\ spawning = {} /\ \A l \in Loops : phase[l] = "none"

Sweeps ==
  /\ pc[Sweeper] = "idle" => Clean
  /\ pc[Sweeper] # "idle" => req[Sweeper] = "cleanup" /\ pc[Sweeper] \in Sweeping
  /\ pc[Sweeper] = "k.load" => include = "none"

ServiceInv ==
  /\ service \in {"up", "signalled", "gone", "sweeping", "down"}
  /\ service \in {"gone", "sweeping", "down"} => Ended
  /\ service \in {"gone", "down"} => pc[Sweeper] = "idle"
  /\ service = "sweeping" => Sweeps
  /\ service = "down" => Clean

LEMMA SweeperIsHandler == Sweeper \in Handlers /\ Sweeper \in Threads /\ Sweeper \notin Loops
BY ServiceConstants, RuntimeConstants DEF ServiceConstants, RuntimeConstants, Threads

-----------------------------------------------------------------------------
(* The shape of the goroutines' state.                                     *)

Reshapes ==
  /\ UNCHANGED pc \/ \E t, l : pc' = [pc EXCEPT ![t] = l]
  /\ UNCHANGED req \/ \E t, r : req' = [req EXCEPT ![t] = r]

LEMMA ShapeKept == Shape /\ Reshapes => Shape'
BY DEF Shape, Reshapes

LEMMA ProceedsReshapes == ASSUME NEW t, Proceeds(t) PROVE Reshapes
BY DEF Proceeds, GoesOn, Finish, Goto, Reshapes

LEMMA HandlerStepReshapes == ASSUME NEW t \in Handlers, HandlerStep(t) PROVE Reshapes
<1>1. CASE StartStep(t)
  BY <1>1, StartStepProceeds, ProceedsReshapes DEF Threads
<1>2. ASSUME Finish(t) \/ \E l : Step(t, l)
      PROVE  Reshapes
  BY <1>2 DEF Finish, Step, Goto, Reshapes
<1>3. CASE MutationProbe(t) \/ Resume(t) \/ LoadFails(t) \/ Hold(t) \/ Terminate(t) \/ Await(t)
           \/ RemovePidfile(t) \/ Hup(t)
  BY <1>2, <1>3 DEF MutationProbe, Resume, LoadFails, Hold, Terminate, Await, RemovePidfile, Hup
<1>4. CASE Load(t) \/ Enable(t) \/ Disable(t) \/ Probe(t) \/ ReloadProbe(t)
  BY <1>4 DEF Load, Enable, Disable, Probe, ReloadProbe, Goto, Reshapes
<1> QED
  BY <1>1, <1>3, <1>4 DEF HandlerStep

LEMMA WorkReshapes == Work => Reshapes
<1> SUFFICES ASSUME Work
             PROVE  Reshapes
  OBVIOUS
<1>1. CASE UNCHANGED threadVars
  BY <1>1 DEF threadVars, Reshapes
<1>2. ASSUME NEW l \in Loops, LoopStep(l)
      PROVE  Reshapes
  <2>1. CASE StartStep(l)
    BY <2>1, StartStepProceeds, ProceedsReshapes DEF Threads
  <2>2. CASE Wake(l) \/ LoopReturns(l)
    BY <1>1, <2>2 DEF Wake, LoopReturns, Reshapes
  <2>3. CASE LoopProbe(l)
    BY <2>3 DEF LoopProbe, Finish, Step, Goto, Reshapes
  <2> QED
    BY <1>2, <2>1, <2>2, <2>3 DEF LoopStep
<1>3. CASE BootSupervisor
  BY <1>3 DEF BootSupervisor, Reshapes
<1> QED
  BY <1>1, <1>2, <1>3, HandlerStepReshapes DEF Work, GoLoop, Die, Reap

LEMMA ShapeStep == Shape /\ [ServiceNext]_serviceVars => Shape'
<1> SUFFICES ASSUME Shape, [ServiceNext]_serviceVars
             PROVE  Shape'
  OBVIOUS
<1>1. CASE UNCHANGED vars
  BY <1>1, ShapeKept DEF vars, threadVars, Reshapes
<1>2. CASE Run
  <2>1. ASSUME NEW t, NEW r, Accept(t, r)
        PROVE  Reshapes
    BY <2>1 DEF Accept, EditFails, TakeUp, threadVars, Goto, Reshapes
  <2> QED
    BY <1>2, <2>1, WorkReshapes, ShapeKept DEF Run, Tracked, Serve
<1>3. CASE Terminated \/ ServiceStopped
  BY <1>3, ShapeKept DEF Terminated, ServiceStopped, Teardown, Tracked, Goto, Reshapes
<1>4. ASSUME NEW boot, Vanish(boot)
      PROVE  Shape'
  BY <1>4 DEF Vanish, Shape
<1> QED
  BY <1>1, <1>2, <1>3, <1>4
     DEF ServiceNext, DaemonExit, Swept, ServiceStart, Cut, serviceVars

-----------------------------------------------------------------------------
(* The sweep.                                                              *)

(* What the steps of a teardown do: they move, or it is over.              *)
LEMMA TeardownSteps ==
  ASSUME Shape, NEW t \in Handlers, req[t] = "cleanup", pc[t] \in Sweeping, HandlerStep(t)
  PROVE  \/ /\ pc'[t] \in Sweeping \ {"k.load"} /\ UNCHANGED <<req, include, loaded, routes, fwErr>>
         \/ pc'[t] = "k.load" /\ req' = req /\ include' = "none"
         \/ pc'[t] = "idle" /\ fwErr' = TRUE
         \/ /\ pc'[t] = "idle" /\ pc[t] = "k.load"
            /\ loaded' = include /\ include' = include /\ routes' = FALSE
<1>0. t \in Threads /\ \A l : Goto(t, l) => pc'[t] = l
  BY DEF Threads, Shape, Goto
<1>1. CASE pc[t] = "load"
  <2>1. Load(t)
    BY <1>1 DEF HandlerStep, StartStep, MutationProbe, Resume, Load, LoadFails, Hold, Enable, Disable,
                Probe, Terminate, Await, RemovePidfile, ReloadProbe, Hup, Check, Validate, GenerateFails, ApplyWrite,
                ApplyLoad, Spawn, WritePidfile, Settle, CleanupWrite, CleanupLoad
  <2>2. pc'[t] = "disable"
    BY <1>0, <2>1 DEF Load
  <2> QED
    BY <2>1, <2>2 DEF Load, fwVars, Sweeping
<1>2. CASE pc[t] \in {"disable", "probe", "term", "await", "unpid"}
  <2>1. Disable(t) \/ Probe(t) \/ Terminate(t) \/ Await(t) \/ RemovePidfile(t)
    BY <1>2 DEF HandlerStep, StartStep, MutationProbe, Resume, Load, LoadFails, Hold, Enable, Disable,
                Probe, Terminate, Await, RemovePidfile, ReloadProbe, Hup, Check, Validate, GenerateFails, ApplyWrite,
                ApplyLoad, Spawn, WritePidfile, Settle, CleanupWrite, CleanupLoad
  <2>2. /\ pc'[t] \in {"probe", "unpid", "term", "await", "k.write"}
        /\ req' = req /\ UNCHANGED fwVars
    BY <1>0, <2>1 DEF Disable, Probe, Terminate, Await, RemovePidfile, Step
  <2> QED
    BY <2>2 DEF fwVars, Sweeping
<1>3. CASE pc[t] \in {"k.write", "k.load"}
  <2>1. (pc[t] = "k.write" /\ CleanupWrite(t)) \/ (pc[t] = "k.load" /\ CleanupLoad(t))
    BY <1>3 DEF HandlerStep, StartStep, MutationProbe, Resume, Load, LoadFails, Hold, Enable, Disable,
                Probe, Terminate, Await, RemovePidfile, ReloadProbe, Hup, Check, Validate, GenerateFails, ApplyWrite,
                ApplyLoad, Spawn, WritePidfile, Settle, CleanupWrite, CleanupLoad
  <2>2. ASSUME NEW ok, CleanedUp(t, ok)
        PROVE  pc'[t] = "idle"
    BY <1>0, <1>3, <2>2 DEF CleanedUp, Stopped, Finish
  <2>3. CASE pc[t] = "k.write" /\ CleanupWrite(t)
    <3>1. CASE include' = CleanupTarget(t) /\ Step(t, "k.load")
      BY <1>0, <3>1 DEF CleanupTarget, Step
    <3> QED
      BY <2>2, <2>3, <3>1 DEF CleanupWrite
  <2>4. CASE pc[t] = "k.load" /\ CleanupLoad(t)
    BY <2>2, <2>4 DEF CleanupLoad
  <2> QED
    BY <2>1, <2>3, <2>4
<1> QED
  BY <1>1, <1>2, <1>3 DEF Sweeping

LEMMA HandlerStepBusy == ASSUME NEW t \in Handlers, HandlerStep(t) PROVE pc[t] # "idle"
<1>1. StartStep(t) => pc[t] # "idle"
  BY StartStepProceeds DEF Proceeds, Threads
<1> QED
  BY <1>1 DEF HandlerStep, MutationProbe, Resume, Load, LoadFails, Hold, Enable, Disable, Probe,
              Terminate, Await, RemovePidfile, ReloadProbe, Hup

(* The sweep has no loop to wind up: the supervisor's other half is gone.  *)
LEMMA HandlerStepSpawning ==
  ASSUME Shape, NEW t \in Handlers, HandlerStep(t), req[t] = "cleanup", pc[t] \in Sweeping
  PROVE  UNCHANGED <<spawning, phase>>
<1>0. t \notin Loops
  BY RuntimeConstants DEF RuntimeConstants
<1>1. ASSUME Finish(t) \/ \E l : Step(t, l)
      PROVE  UNCHANGED <<spawning, phase>>
  BY <1>0, <1>1 DEF Finish, Step, supVars
<1>2. ASSUME NEW ok, CleanedUp(t, ok)
      PROVE  UNCHANGED <<spawning, phase>>
  BY <1>1, <1>2 DEF CleanedUp, Stopped
<1>3. CASE CleanupWrite(t) \/ CleanupLoad(t)
  BY <1>1, <1>2, <1>3 DEF CleanupWrite, CleanupLoad
<1>4. CASE Load(t) \/ Disable(t) \/ Probe(t)
  BY <1>4 DEF Load, Disable, Probe, supVars, Sup!DisableSupervisor
<1>5. CASE Terminate(t) \/ Await(t) \/ RemovePidfile(t)
  BY <1>1, <1>5 DEF Terminate, Await, RemovePidfile
<1>6. Load(t) \/ Disable(t) \/ Probe(t) \/ Terminate(t) \/ Await(t) \/ RemovePidfile(t)
        \/ CleanupWrite(t) \/ CleanupLoad(t)
  BY DEF HandlerStep, StartStep, MutationProbe, Resume, LoadFails, Hold, Enable, ReloadProbe, Hup, Check, Validate,
         GenerateFails, ApplyWrite, ApplyLoad, Spawn, WritePidfile, Settle, Sweeping
<1> QED
  BY <1>3, <1>4, <1>5, <1>6

(* Once the daemon has ended the sweep is all there is, beside sing-box    *)
(* processes that exit.                                                    *)
LEMMA WorkEnded ==
  ASSUME Ended, Work, \A p \in Pids : ~Die(p) /\ ~Reap(p)
  PROVE  HandlerStep(Sweeper) /\ pc[Sweeper] # "idle"
<1>1. ASSUME NEW t \in Handlers, HandlerStep(t)
      PROVE  t = Sweeper /\ pc[Sweeper] # "idle"
  BY <1>1, HandlerStepBusy DEF Ended, Threads
<1>2. ASSUME NEW l \in Loops
      PROVE  ~LoopStep(l)
  <2>1. pc[l] = "idle" /\ phase[l] = "none"
    BY SweeperIsHandler DEF Ended, Threads
  <2>2. ~StartStep(l)
    BY <2>1, StartStepProceeds DEF Proceeds, Threads
  <2> QED
    BY <2>1, <2>2 DEF LoopStep, Wake, Sup!Snapshot, LoopProbe, LoopReturns, Sup!SupervisorStopped
<1>3. ASSUME NEW g
      PROVE  ~GoLoop(g)
  BY DEF Ended, GoLoop, Sup!SpawnLoop
<1>4. ~BootSupervisor
  BY DEF Ended, BootSupervisor
<1> QED
  BY <1>1, <1>2, <1>3, <1>4 DEF Work

(* A step of the sweep.                                                    *)
LEMMA SweepStep ==
  ASSUME Shape, Ended, Sweeps, pc[Sweeper] # "idle", HandlerStep(Sweeper)
  PROVE  Ended' /\ Sweeps'
<1>0. Sweeper \in Handlers /\ Sweeper \in Threads /\ Boot \notin Threads
  BY SweeperIsHandler, BootIsNoThread
<1>1. req[Sweeper] = "cleanup" /\ pc[Sweeper] \in Sweeping
  BY DEF Sweeps
<1>2. \A t \in Threads \cup {Boot} : t # Sweeper => pc'[t] = pc[t]
  <2>1. \/ UNCHANGED pc \/ \E l : pc' = [pc EXCEPT ![Sweeper] = l]
    <3>1. \A l : GoesOn(Sweeper, l) => pc' = [pc EXCEPT ![Sweeper] = l]
      BY DEF GoesOn
    <3>2. Finish(Sweeper) \/ (\E l : Step(Sweeper, l)) => \E l : pc' = [pc EXCEPT ![Sweeper] = l]
      BY DEF Finish, Step, Goto
    <3>3. StartStep(Sweeper) => \E l : pc' = [pc EXCEPT ![Sweeper] = l]
      BY <1>0, <3>1, <3>2, StartStepProceeds DEF Proceeds
    <3> QED
      BY <3>2, <3>3 DEF HandlerStep, MutationProbe, Resume, Load, LoadFails, Hold, Enable, Disable,
                        Probe, Terminate, Await, RemovePidfile, ReloadProbe, Hup, Goto
  <2> QED
    BY <2>1 DEF Shape
<1>3. Ended'
  BY <1>0, <1>1, <1>2, HandlerStepSpawning DEF Ended
<1>4. Sweeps'
  BY <1>0, <1>1, TeardownSteps DEF Sweeps, Clean, Sweeping
<1> QED
  BY <1>3, <1>4

LEMMA ServiceInvStep == Shape /\ ServiceInv /\ [ServiceNext]_serviceVars => ServiceInv'
<1> SUFFICES ASSUME Shape, ServiceInv, [ServiceNext]_serviceVars
             PROVE  ServiceInv'
  OBVIOUS
<1>0. Sweeper \in Handlers /\ Sweeper \in Threads /\ Boot \notin Threads
  BY SweeperIsHandler, BootIsNoThread
<1>1. ASSUME UNCHANGED <<pc, req, fwVars, spawning, phase, service>>
      PROVE  ServiceInv'
  BY <1>1 DEF fwVars, ServiceInv, Ended, Sweeps, Clean
<1>2. CASE UNCHANGED serviceVars
  BY <1>1, <1>2 DEF serviceVars, vars, threadVars, supVars
<1>3. CASE Run
  <2>1. CASE service \in {"up", "signalled"}
    BY <1>3, <2>1 DEF Run, ServiceInv
  <2>2. CASE service \notin {"up", "signalled"}
    <3>1. Ended /\ Work /\ service' = service
      BY <1>3, <2>2 DEF Run, Tracked, ServiceInv
    <3>2. ASSUME NEW p \in Pids, Die(p) \/ Reap(p)
          PROVE  ServiceInv'
      BY <1>1, <3>1, <3>2 DEF Die, Reap, threadVars, supVars
    <3>3. CASE HandlerStep(Sweeper) /\ pc[Sweeper] # "idle"
      <4>1. service = "sweeping" /\ Sweeps
        BY <2>2, <3>3 DEF ServiceInv
      <4> QED
        BY <3>1, <3>3, <4>1, SweepStep DEF ServiceInv
    <3> QED
      BY <3>1, <3>2, <3>3, WorkEnded
  <2> QED
    BY <2>1, <2>2
<1>4. CASE Terminated
  BY <1>4 DEF Terminated, ServiceInv
<1>5. CASE DaemonExit
  <2>1. service' = "gone" /\ Vanish("idle")
    BY <1>5 DEF DaemonExit
  <2>2. Ended' /\ pc'[Sweeper] = "idle"
    BY <1>0, <2>1 DEF Vanish, Sup!Respawn, Ended
  <2> QED
    BY <2>1, <2>2 DEF ServiceInv
<1>6. CASE ServiceStopped
  <2>1. /\ Ended /\ service' = "sweeping" /\ UNCHANGED <<spawning, phase>>
        /\ pc' = [pc EXCEPT ![Sweeper] = "load"] /\ req' = [req EXCEPT ![Sweeper] = "cleanup"]
    BY <1>6 DEF ServiceStopped, Teardown, Tracked, Goto, supVars, ServiceInv
  <2>2. Ended'
    BY <1>0, <2>1 DEF Ended, Shape
  <2>3. Sweeps'
    BY <1>0, <2>1 DEF Shape, Sweeps, Sweeping
  <2> QED
    BY <2>1, <2>2, <2>3 DEF ServiceInv
<1>7. CASE Swept
  <2>1. UNCHANGED <<pc, req, fwVars, spawning, phase>> /\ Ended /\ Clean /\ pc[Sweeper] = "idle"
    BY <1>7 DEF Swept, vars, threadVars, supVars, ServiceInv, Sweeps
  <2> QED
    BY <1>7, <2>1 DEF Swept, fwVars, ServiceInv, Ended, Clean
<1>8. CASE ServiceStart
  BY <1>8 DEF ServiceStart, ServiceInv
<1> QED
  BY <1>2, <1>3, <1>4, <1>5, <1>6, <1>7, <1>8 DEF ServiceNext

(* A stopped service leaves nothing of its own in the firewall, not even   *)
(* its kill switch, whatever the other goroutines were doing when the      *)
(* signal came and however far the daemon's own teardown got               *)
(* (startSignalCleanup and service_stopped).                               *)
THEOREM DownIsCleanCorrect == ServiceSafe => []DownIsClean
<1>1. ServiceInit => Shape /\ ServiceInv
  BY DEF ServiceInit, Init, Shape, ServiceInv
<1>2. ServiceInv => DownIsClean
  BY DEF ServiceInv, DownIsClean, Clean
<1> QED
  BY <1>1, <1>2, ShapeStep, ServiceInvStep, PTL DEF ServiceSafe
==============================================================================
