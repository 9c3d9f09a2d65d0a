----------------------------- MODULE PartsProofs -----------------------------
(***************************************************************************)
(* Proofs about the three parts of internal/runtime/runtime.go that have a *)
(* module of their own, each from its own specification: the supervisor,   *)
(* for any sets of callers, loop identities and configurations; the        *)
(* pidfile, for any number of goroutines and of pids, and with any bounds  *)
(* on strangers, faults and crashes; the policy routes, for any finite set *)
(* of goroutines and any bound on the deletions.                           *)
(***************************************************************************)
EXTENDS Supervisor, Pidfile, Routes, FiniteSetTheorems, TLAPS

-----------------------------------------------------------------------------
(* The supervisor.                                                         *)

(* Every variable of the supervisor keeps its type.                        *)
THEOREM SupTypeCorrect == SupSpec => []SupTypeOK
<1>1. SupInit => SupTypeOK
  BY DEF SupInit, SupTypeOK, Phases
<1>2. SupTypeOK /\ [SupNext]_supVars => SupTypeOK'
  <2> SUFFICES ASSUME SupTypeOK, [SupNext]_supVars
               PROVE  SupTypeOK'
    OBVIOUS
  <2> USE DEF SupTypeOK, Phases
  <2>1. ASSUME NEW t \in Callers, NEW c \in Configs, EnableSupervisor(t, c)
        PROVE  SupTypeOK'
    BY <2>1 DEF EnableSupervisor
  <2>2. ASSUME NEW t \in Callers, DisableSupervisor(t)
        PROVE  SupTypeOK'
    BY <2>2 DEF DisableSupervisor
  <2>3. ASSUME NEW g \in Callers \cup Loops, SpawnLoop(g)
        PROVE  SupTypeOK'
    BY <2>3 DEF SpawnLoop
  <2>4. ASSUME NEW l \in Loops, Snapshot(l)
        PROVE  SupTypeOK'
    BY <2>4 DEF Snapshot
  <2>5. ASSUME NEW l \in Loops, Continue(l)
        PROVE  SupTypeOK'
    BY <2>5 DEF Continue
  <2>6. ASSUME NEW l \in Loops, SupervisorStopped(l)
        PROVE  SupTypeOK'
    BY <2>6 DEF SupervisorStopped
  <2>7. CASE Respawn
    BY <2>7 DEF Respawn
  <2>8. CASE UNCHANGED supVars
    BY <2>8 DEF supVars
  <2> QED
    BY <2>1, <2>2, <2>3, <2>4, <2>5, <2>6, <2>7, <2>8 DEF SupNext, LoopStep
<1> QED
  BY <1>1, <1>2, PTL DEF SupSpec, SupSafe

-----------------------------------------------------------------------------
(* The inductive invariant of the handoff.  OneMonitor and FlagIsTruth are *)
(* each preserved only with the help of the other, and DesiredIsMonitored  *)
(* only through the fact that the desired flag is never up while the       *)
(* monitorRunning flag is down.                                            *)
DesiredIsFlagged == desired => monitorRunning

Handoff == OneMonitor /\ FlagIsTruth /\ DesiredIsFlagged

(* The handoff holds when the daemon starts.                               *)
LEMMA HandoffInit == SupInit => Handoff
BY DEF SupInit, Handoff, OneMonitor, FlagIsTruth, DesiredIsFlagged, Live

(* Every critical section and every spawn preserves the handoff.           *)
LEMMA HandoffStep == SupTypeOK /\ Handoff /\ [SupNext]_supVars => Handoff'
<1> SUFFICES ASSUME SupTypeOK, Handoff, [SupNext]_supVars
             PROVE  Handoff'
  OBVIOUS
<1> USE DistinctGoroutines
        DEF DistinctGoroutines, SupTypeOK, Phases, Handoff, OneMonitor, FlagIsTruth, DesiredIsFlagged, Live
<1>1. ASSUME NEW t \in Callers, NEW c \in Configs, EnableSupervisor(t, c)
      PROVE  Handoff'
  <2>1. CASE monitorRunning
    BY <1>1, <2>1 DEF EnableSupervisor
  <2>2. CASE ~monitorRunning
    <3>1. spawning = {} /\ \A l \in Loops : phase[l] = "none"
      BY <2>2
    <3>2. spawning' = {t} /\ phase' = phase /\ monitorRunning'
      BY <1>1, <2>2, <3>1 DEF EnableSupervisor
    <3> QED
      BY <3>1, <3>2
  <2> QED
    BY <2>1, <2>2
<1>2. ASSUME NEW t \in Callers, DisableSupervisor(t)
      PROVE  Handoff'
  BY <1>2 DEF DisableSupervisor
<1>3. ASSUME NEW g \in Callers \cup Loops, SpawnLoop(g)
      PROVE  Handoff'
  <2>1. spawning = {g} /\ \A l \in Loops : phase[l] = "none"
    BY <1>3 DEF SpawnLoop
  <2>2. PICK l \in Loops : phase' = [phase EXCEPT ![l] = "asleep"]
    BY <1>3 DEF SpawnLoop
  <2>3. spawning' = {} /\ Live' = {l}
    BY <1>3, <2>1, <2>2 DEF SpawnLoop
  <2> QED
    BY <1>3, <2>1, <2>3 DEF SpawnLoop
<1>4. ASSUME NEW l \in Loops, Snapshot(l)
      PROVE  Handoff'
  <2>1. Live' = Live
    BY <1>4 DEF Snapshot
  <2> QED
    BY <1>4, <2>1 DEF Snapshot
<1>5. ASSUME NEW l \in Loops, Continue(l)
      PROVE  Handoff'
  <2>1. Live' = Live
    BY <1>5 DEF Continue
  <2> QED
    BY <1>5, <2>1 DEF Continue
<1>6. ASSUME NEW l \in Loops, SupervisorStopped(l)
      PROVE  Handoff'
  <2>1. spawning = {} /\ Live = {l} /\ Live' = {}
    BY <1>6 DEF SupervisorStopped
  <2>2. CASE desired
    BY <1>6, <2>1, <2>2 DEF SupervisorStopped
  <2>3. CASE ~desired
    BY <1>6, <2>1, <2>3 DEF SupervisorStopped
  <2> QED
    BY <2>2, <2>3
<1>7. CASE Respawn
  BY <1>7 DEF Respawn
<1>8. CASE UNCHANGED supVars
  BY <1>8 DEF supVars
<1> QED
  BY <1>1, <1>2, <1>3, <1>4, <1>5, <1>6, <1>7, <1>8 DEF SupNext, LoopStep

(* The handoff holds in every reachable state.                             *)
LEMMA HandoffCorrect == SupSpec => []Handoff
<1>1. SupSpec => []SupTypeOK
  BY SupTypeCorrect
<1> QED
  BY <1>1, HandoffInit, HandoffStep, PTL DEF SupSpec, SupSafe

(* There is never a second monitor goroutine, running or about to run.     *)
THEOREM AtMostOneMonitor == SupSpec => []OneMonitor
<1>1. Handoff => OneMonitor
  BY DEF Handoff
<1> QED
  BY <1>1, HandoffCorrect, PTL

(* monitorRunning is set exactly while a monitor exists.                   *)
THEOREM FlagCorrect == SupSpec => []FlagIsTruth
<1>1. Handoff => FlagIsTruth
  BY DEF Handoff
<1> QED
  BY <1>1, HandoffCorrect, PTL

(* A desired runtime always has a monitor: enableSupervisor never loses    *)
(* its wakeup to a loop that has already decided to return.                *)
THEOREM NoLostWakeup == SupSpec => []DesiredIsMonitored
<1>1. Handoff => DesiredIsMonitored
  BY DEF Handoff, FlagIsTruth, DesiredIsFlagged, DesiredIsMonitored
<1> QED
  BY <1>1, HandoffCorrect, PTL

-----------------------------------------------------------------------------
(* The pidfile.                                                            *)

(* The type invariant in parts, each preserved for its own reason.         *)
Files ==
  /\ pidfile \in Pids \cup {NoPid}
  /\ proc \in [Pids -> {"none", "sing-box", "zombie", "stranger"}]
  /\ waiters \subseteq Pids \X {"wait", "match", "drop"}
Hands ==
  /\ pc \in [Threads -> Holding \cup {"idle", "open", "spawn", "unlink"}]
  /\ pid \in [Threads -> Pids \cup {NoPid}]
  /\ \A t \in Threads : pid[t] # NoPid <=> pc[t] \in Holding
Jobs ==
  /\ req \in [Threads -> Requests \cup {"monitor", NoRequest}]
  /\ \A t \in Threads : req[t] = NoRequest <=> pc[t] = "idle"
Flags == wanted \in BOOLEAN /\ calm \in BOOLEAN
Counters == faults \in 0..MaxFaults /\ crashes \in 0..MaxCrashes
LEMMA TypeParts == TypeOK <=> Files /\ Hands /\ Jobs /\ Flags /\ Counters
BY DEF TypeOK, Files, Hands, Jobs, Flags, Counters

LEMMA TypeInit == Init => TypeOK
<1> SUFFICES ASSUME Init PROVE TypeOK
  OBVIOUS
<1>1. Files /\ Flags
  BY DEF Init, Files, Flags
<1>2. Hands
  BY PidfileConstants DEF PidfileConstants, Init, Hands, Holding
<1>3. Jobs
  BY DEF Init, Jobs, NoRequest
<1>4. Counters
  BY PidfileConstants DEF PidfileConstants, Init, Counters
<1> QED
  BY <1>1, <1>2, <1>3, <1>4, TypeParts

LEMMA FlagsStep == Flags /\ [Next]_vars => Flags'
<1> SUFFICES ASSUME Flags, [Next]_vars
             PROVE  Flags'
  OBVIOUS
<1> USE DEF Flags
<1>1. ASSUME NEW t \in Threads, Open(t) \/ Probe(t) \/ Drop(t)
      PROVE  Flags'
  BY <1>1 DEF Open, Probe, Drop, NotRunning, Running
<1>2. ASSUME NEW t \in Threads, Spawn(t) \/ WritePid(t) \/ Settle(t)
      PROVE  Flags'
  BY <1>2 DEF Spawn, WritePid, Settle
<1>3. ASSUME NEW t \in Threads, Term(t) \/ Await(t) \/ Kill(t) \/ Unlink(t) \/ Hup(t)
      PROVE  Flags'
  BY <1>3 DEF Term, Await, Kill, Unlink, Hup
<1>4. ASSUME NEW p \in Pids, Wait(p) \/ Exit(p) \/ StrangerStarts(p) \/ StrangerExits(p)
      PROVE  Flags'
  BY <1>4 DEF Wait, Reap, Match, RemoveMatched, Exit, StrangerStarts, StrangerExits
<1>5. ASSUME NEW t \in Threads, NEW r \in Requests, Accept(t, r)
      PROVE  Flags'
  BY <1>5 DEF Accept
<1>6. CASE Tick \/ Crash
  BY <1>6 DEF Tick, Crash
<1>7. CASE UNCHANGED vars
  BY <1>7 DEF vars
<1> QED
  BY <1>1, <1>2, <1>3, <1>4, <1>5, <1>6, <1>7 DEF Next, Run

LEMMA CountersStep == Counters /\ [Next]_vars => Counters'
<1> SUFFICES ASSUME Counters, [Next]_vars
             PROVE  Counters'
  OBVIOUS
<1> USE PidfileConstants DEF Counters
<1>1. ASSUME NEW t \in Threads, Open(t)
      PROVE  Counters'
  BY <1>1 DEF Open, NotRunning
<1>2. ASSUME NEW t \in Threads, Probe(t)
      PROVE  Counters'
  BY <1>2 DEF Probe, Running
<1>3. ASSUME NEW t \in Threads, Drop(t)
      PROVE  Counters'
  BY <1>3 DEF Drop, NotRunning
<1>4. ASSUME NEW t \in Threads, Spawn(t)
      PROVE  Counters'
  BY <1>4 DEF Spawn
<1>5. ASSUME NEW t \in Threads, WritePid(t)
      PROVE  Counters'
  BY <1>5 DEF WritePid
<1>6. ASSUME NEW t \in Threads, Settle(t)
      PROVE  Counters'
  BY <1>6 DEF Settle
<1>7. ASSUME NEW t \in Threads, Term(t) \/ Await(t) \/ Kill(t)
      PROVE  Counters'
  BY <1>7 DEF Term, Await, Kill
<1>8. ASSUME NEW t \in Threads, Unlink(t) \/ Hup(t)
      PROVE  Counters'
  BY <1>8 DEF Unlink, Hup
<1>9. ASSUME NEW t \in Threads, NEW r \in Requests, Accept(t, r)
      PROVE  Counters'
  BY <1>9 DEF Accept
<1>10. CASE Tick
  BY <1>10 DEF Tick
<1>11. ASSUME NEW p \in Pids, Wait(p)
       PROVE  Counters'
  BY <1>11 DEF Wait, Reap, Match, RemoveMatched
<1>12. ASSUME NEW p \in Pids, Exit(p) \/ StrangerStarts(p) \/ StrangerExits(p)
       PROVE  Counters'
  BY <1>12 DEF Exit, StrangerStarts, StrangerExits
<1>13. CASE Crash
  BY <1>13 DEF Crash
<1>14. CASE UNCHANGED vars
  BY <1>14 DEF vars
<1> QED
  BY <1>1, <1>2, <1>3, <1>4, <1>5, <1>6, <1>7, <1>8, <1>9, <1>10, <1>11, <1>12, <1>13, <1>14
     DEF Next, Run

LEMMA FilesStep == Hands /\ Files /\ [Next]_vars => Files'
<1> SUFFICES ASSUME Hands, Files, [Next]_vars
             PROVE  Files'
  OBVIOUS
<1> USE DEF Hands, Files, Goto, Finish
<1>1. ASSUME NEW t \in Threads, Open(t)
      PROVE  Files'
  BY <1>1 DEF Open, NotRunning
<1>2. ASSUME NEW t \in Threads, Probe(t)
      PROVE  Files'
  BY <1>2 DEF Probe, Running
<1>3. ASSUME NEW t \in Threads, Drop(t)
      PROVE  Files'
  BY <1>3 DEF Drop, NotRunning
<1>4. ASSUME NEW t \in Threads, Spawn(t)
      PROVE  Files'
  BY <1>4 DEF Spawn
<1>5. ASSUME NEW t \in Threads, WritePid(t)
      PROVE  Files'
  BY <1>5 DEF WritePid
<1>6. ASSUME NEW t \in Threads, Settle(t)
      PROVE  Files'
  BY <1>6 DEF Settle
<1>7. ASSUME NEW t \in Threads, Term(t) \/ Await(t) \/ Kill(t)
      PROVE  Files'
  BY <1>7 DEF Term, Await, Kill, Corpse
<1>8. ASSUME NEW t \in Threads, Unlink(t) \/ Hup(t)
      PROVE  Files'
  BY <1>8 DEF Unlink, Hup
<1>9. ASSUME NEW t \in Threads, NEW r \in Requests, Accept(t, r)
      PROVE  Files'
  BY <1>9 DEF Accept
<1>10. CASE Tick
  BY <1>10 DEF Tick
<1>11. ASSUME NEW p \in Pids, Wait(p)
       PROVE  Files'
  BY <1>11 DEF Wait, Reap, Match, RemoveMatched
<1>12. ASSUME NEW p \in Pids, Exit(p) \/ StrangerStarts(p) \/ StrangerExits(p)
       PROVE  Files'
  BY <1>12 DEF Exit, StrangerStarts, StrangerExits, Corpse
<1>13. CASE Crash
  BY <1>13 DEF Crash
<1>14. CASE UNCHANGED vars
  BY <1>14 DEF vars
<1> QED
  BY <1>1, <1>2, <1>3, <1>4, <1>5, <1>6, <1>7, <1>8, <1>9, <1>10, <1>11, <1>12, <1>13, <1>14
     DEF Next, Run

LEMMA HandsStep == Files /\ Hands /\ [Next]_vars => Hands'
<1> SUFFICES ASSUME Files, Hands, [Next]_vars
             PROVE  Hands'
  OBVIOUS
<1> USE PidfileConstants DEF PidfileConstants, Files, Hands, Goto, Finish, Holding
<1>1. ASSUME NEW t \in Threads, Open(t)
      PROVE  Hands'
  BY <1>1 DEF Open, NotRunning
<1>2. ASSUME NEW t \in Threads, Probe(t)
      PROVE  Hands'
  BY <1>2 DEF Probe, Running
<1>3. ASSUME NEW t \in Threads, Drop(t)
      PROVE  Hands'
  BY <1>3 DEF Drop, NotRunning
<1>4. ASSUME NEW t \in Threads, Spawn(t)
      PROVE  Hands'
  BY <1>4 DEF Spawn, Free
<1>5. ASSUME NEW t \in Threads, WritePid(t)
      PROVE  Hands'
  BY <1>5 DEF WritePid
<1>6. ASSUME NEW t \in Threads, Settle(t)
      PROVE  Hands'
  BY <1>6 DEF Settle
<1>7. ASSUME NEW t \in Threads, Term(t) \/ Await(t) \/ Kill(t)
      PROVE  Hands'
  BY <1>7 DEF Term, Await, Kill
<1>8. ASSUME NEW t \in Threads, Unlink(t) \/ Hup(t)
      PROVE  Hands'
  BY <1>8 DEF Unlink, Hup
<1>9. ASSUME NEW t \in Threads, NEW r \in Requests, Accept(t, r)
      PROVE  Hands'
  BY <1>9 DEF Accept
<1>10. CASE Tick
  BY <1>10 DEF Tick
<1>11. ASSUME NEW p \in Pids, Wait(p)
       PROVE  Hands'
  BY <1>11 DEF Wait, Reap, Match, RemoveMatched
<1>12. ASSUME NEW p \in Pids, Exit(p) \/ StrangerStarts(p) \/ StrangerExits(p)
       PROVE  Hands'
  BY <1>12 DEF Exit, StrangerStarts, StrangerExits
<1>13. CASE Crash
  BY <1>13 DEF Crash
<1>14. CASE UNCHANGED vars
  BY <1>14 DEF vars
<1> QED
  BY <1>1, <1>2, <1>3, <1>4, <1>5, <1>6, <1>7, <1>8, <1>9, <1>10, <1>11, <1>12, <1>13, <1>14
     DEF Next, Run

LEMMA JobsStep == Hands /\ Jobs /\ [Next]_vars => Jobs'
<1> SUFFICES ASSUME Hands, Jobs, [Next]_vars
             PROVE  Jobs'
  OBVIOUS
<1> PICK Labels : pc \in [Threads -> Labels]
  BY DEF Hands
<1> USE DEF Jobs, Goto, Finish, Requests, Operations, NoRequest
<1>1. ASSUME NEW t \in Threads, Open(t)
      PROVE  Jobs'
  BY <1>1 DEF Open, NotRunning
<1>2. ASSUME NEW t \in Threads, Probe(t)
      PROVE  Jobs'
  BY <1>2 DEF Probe, Running
<1>3. ASSUME NEW t \in Threads, Drop(t)
      PROVE  Jobs'
  BY <1>3 DEF Drop, NotRunning
<1>4. ASSUME NEW t \in Threads, Spawn(t)
      PROVE  Jobs'
  BY <1>4 DEF Spawn
<1>5. ASSUME NEW t \in Threads, WritePid(t)
      PROVE  Jobs'
  BY <1>5 DEF WritePid
<1>6. ASSUME NEW t \in Threads, Settle(t)
      PROVE  Jobs'
  BY <1>6 DEF Settle
<1>7. ASSUME NEW t \in Threads, Term(t) \/ Await(t) \/ Kill(t)
      PROVE  Jobs'
  BY <1>7 DEF Term, Await, Kill
<1>8. ASSUME NEW t \in Threads, Unlink(t) \/ Hup(t)
      PROVE  Jobs'
  <2>1. Finish(t)
    BY <1>8 DEF Unlink, Hup
  <2> QED
    BY <2>1
<1>9. ASSUME NEW t \in Threads, NEW r \in Requests, Accept(t, r)
      PROVE  Jobs'
  BY <1>9 DEF Accept
<1>10. CASE Tick
  BY <1>10 DEF Tick
<1>11. ASSUME NEW p \in Pids, Wait(p)
       PROVE  Jobs'
  BY <1>11 DEF Wait, Reap, Match, RemoveMatched
<1>12. ASSUME NEW p \in Pids, Exit(p) \/ StrangerStarts(p) \/ StrangerExits(p)
       PROVE  Jobs'
  BY <1>12 DEF Exit, StrangerStarts, StrangerExits
<1>13. CASE Crash
  BY <1>13 DEF Crash
<1>14. CASE UNCHANGED vars
  BY <1>14 DEF vars
<1> QED
  BY <1>1, <1>2, <1>3, <1>4, <1>5, <1>6, <1>7, <1>8, <1>9, <1>10, <1>11, <1>12, <1>13, <1>14
     DEF Next, Run

(* Every variable keeps its type, and a goroutine has a pid in hand        *)
(* exactly where the code uses one.                                        *)
THEOREM PidfileTypeCorrect == Spec => []TypeOK
<1>1. TypeOK /\ [Next]_vars => TypeOK'
  BY TypeParts, FilesStep, HandsStep, JobsStep, FlagsStep, CountersStep, PTL
<1> QED
  BY <1>1, TypeInit, PTL DEF Spec, Safe

-----------------------------------------------------------------------------
(* What a goroutine is doing, by the step it is at.                        *)
Doing ==
  \A t \in Threads :
    /\ pc[t] \in {"spawn", "write", "settle"} => req[t] = "start"
    /\ pc[t] \in {"term", "await", "kill", "unlink"} => req[t] = "stop"
    /\ pc[t] = "hup" => req[t] = "reload"

(* Every request goes through its own steps.                               *)
LEMMA DoingCorrect == Spec => []Doing
<1>1. Init => Doing
  BY DEF Init, Doing
<1>2. TypeOK /\ Doing /\ [Next]_vars => Doing'
  <2> SUFFICES ASSUME TypeOK, Doing, [Next]_vars
               PROVE  Doing'
    OBVIOUS
  <2> USE DEF TypeOK, Doing, Goto, Finish
  <2>1. ASSUME NEW t \in Threads, Open(t) \/ Probe(t) \/ Drop(t)
        PROVE  Doing'
    BY <2>1 DEF Open, Probe, Drop, NotRunning, Running
  <2>2. ASSUME NEW t \in Threads, Spawn(t) \/ WritePid(t) \/ Settle(t)
        PROVE  Doing'
    BY <2>2 DEF Spawn, WritePid, Settle
  <2>3. ASSUME NEW t \in Threads, Term(t) \/ Await(t) \/ Kill(t) \/ Unlink(t) \/ Hup(t)
        PROVE  Doing'
    BY <2>3 DEF Term, Await, Kill, Unlink, Hup
  <2>4. ASSUME NEW t \in Threads, NEW r \in Requests, Accept(t, r)
        PROVE  Doing'
    BY <2>4 DEF Accept
  <2>5. CASE Tick
    BY <2>5 DEF Tick
  <2>6. ASSUME NEW p \in Pids, Wait(p) \/ Exit(p) \/ StrangerStarts(p) \/ StrangerExits(p)
        PROVE  Doing'
    BY <2>6 DEF Wait, Reap, Match, RemoveMatched, Exit, StrangerStarts, StrangerExits
  <2>7. CASE Crash
    BY <2>7 DEF Crash
  <2>8. CASE UNCHANGED vars
    BY <2>8 DEF vars
  <2> QED
    BY <2>1, <2>2, <2>3, <2>4, <2>5, <2>6, <2>7, <2>8 DEF Next, Run
<1> QED
  BY <1>1, <1>2, PidfileTypeCorrect, PTL DEF Spec, Safe

-----------------------------------------------------------------------------
(* The inductive invariant of the pidfile.  While calm, one goroutine      *)
(* operates at a time, and what the others and the waiting goroutines hold *)
(* in hand can only remove a pid that is no longer that of sing-box.       *)

OneOperates ==
  \A t, u \in Threads : Operating(t) /\ Operating(u) => t = u

Runs(p) == proc[p] = "sing-box"

(* The sing-box that runs is the one in the pidfile, unless its pid is     *)
(* about to be written.                                                    *)
Named == (\A t \in Threads : pc[t] # "write") => \A p \in Pids : Runs(p) => pidfile = p

(* What an operation knows at each of its steps.                           *)
Known ==
  \A t \in Threads :
    /\ pc[t] = "write" => pidfile = NoPid /\ \A p \in Pids : Runs(p) => pid[t] = p
    /\ pc[t] = "spawn" => pidfile = NoPid /\ \A p \in Pids : ~Runs(p)
    /\ pc[t] = "unlink" => \A p \in Pids : ~Runs(p)
    /\ pc[t] \in {"term", "await", "kill"} => \A p \in Pids : Runs(p) => pid[t] = p
    /\ pc[t] \in {"term", "await", "kill", "hup"} => proc[pid[t]] # "stranger"

(* A removal that is on its way removes nothing that names sing-box.       *)
Stale ==
  /\ \A t \in Threads :
       /\ pc[t] \in {"probe", "drop"} => pidfile \in {pid[t], NoPid}
       /\ pc[t] = "drop" => ~Runs(pid[t])
  /\ \A p \in Pids :
       /\ <<p, "drop">> \in waiters => pidfile \in {p, NoPid}
       /\ <<p, "match">> \in waiters \/ <<p, "drop">> \in waiters => ~Runs(p)

Tracked == calm => OneOperates /\ Named /\ Known /\ Stale

(* calm is never set again.                                                *)
LEMMA CalmEnds == Flags /\ calm' /\ [Next]_vars => calm
BY DEF Flags, Next, Run, Wait, Open, Probe, Drop, NotRunning, Running, Spawn, WritePid,
       Settle,
       Term, Await, Kill, Unlink, Hup, Reap, Match, RemoveMatched, Exit, StrangerStarts,
       StrangerExits, Crash, Accept, Tick, vars

Others(t) == \A u \in Threads : u # t => pc'[u] = pc[u] /\ pid'[u] = pid[u] /\ req'[u] = req[u]

(* Every step keeps track of sing-box.  Under each action, the first step  *)
(* says what it does to the goroutine that takes it, and when.             *)
LEMMA TrackedStep == TypeOK /\ Doing /\ Tracked /\ [Next]_vars => Tracked'
<1> SUFFICES ASSUME TypeOK, Doing, Tracked, [Next]_vars, calm'
             PROVE  (OneOperates /\ Named /\ Known /\ Stale)'
  BY DEF Tracked
<1>a. OneOperates /\ Named /\ Known /\ Stale
  BY CalmEnds, TypeParts DEF Tracked
<1>b. Files /\ Hands /\ Jobs
  BY TypeParts
<1>c. NoPid \notin Pids
  BY PidfileConstants DEF PidfileConstants
<1>1. ASSUME NEW t \in Threads, Open(t)
      PROVE  (OneOperates /\ Named /\ Known /\ Stale)'
  <2>1. /\ Others(t) /\ pc[t] = "open" /\ UNCHANGED <<pidfile, proc, waiters>>
        /\ \/ pc'[t] = "idle" /\ req'[t] = NoRequest
           \/ pidfile = NoPid /\ pc'[t] = "spawn" /\ req[t] = "start" /\ req'[t] = req[t]
           \/ pidfile = NoPid /\ pc'[t] = "unlink" /\ req[t] = "stop" /\ req'[t] = req[t]
           \/ pc'[t] = "open" /\ ~Overlaps(t)
           \/ pc'[t] = "probe" /\ pid'[t] = pidfile /\ req'[t] = req[t]
    BY <1>1, <1>b DEF Files, Hands, Jobs, Goto, Finish, Open, NotRunning, Others
  <2>2. OneOperates'
    BY <2>1, <1>a, <1>b DEF OneOperates, Operating, Operations, NoRequest, Hands,
           Others, Overlaps
  <2>3. Named'
    BY <2>1, <1>a, <1>b, <1>c DEF Files, Hands, Doing, OneOperates, Operating,
           Operations, Named, Known, Stale, Runs, Others, Holding, Overlaps
  <2>4. Known'
    BY <2>1, <1>a, <1>b, <1>c DEF Files, Hands, Doing, OneOperates, Operating,
           Operations, Named, Known, Stale, Runs, Others, Holding, Overlaps
  <2>5. Stale'
    BY <2>1, <1>a, <1>b, <1>c DEF Files, Hands, Doing, OneOperates, Operating,
           Operations, Named, Known, Stale, Runs, Others, Holding, Overlaps
  <2> QED
    BY <2>2, <2>3, <2>4, <2>5
<1>2. ASSUME NEW t \in Threads, Probe(t)
      PROVE  (OneOperates /\ Named /\ Known /\ Stale)'
  <2>1. /\ Others(t) /\ pc[t] = "probe" /\ UNCHANGED <<pidfile, proc, waiters>>
        /\ \/ pc'[t] = "idle" /\ req'[t] = NoRequest
           \/ /\ pc'[t] \in {"term", "hup"} /\ pid'[t] = pid[t] /\ req'[t] = req[t]
              /\ req[t] \in Operations /\ Runs(pid[t])
           \/ pc'[t] = "drop" /\ pid'[t] = pid[t] /\ req'[t] = req[t] /\ ~Runs(pid[t])
    BY <1>2, <1>b DEF Files, Hands, Jobs, Goto, Finish, Probe, Running, Ours, Alive,
           Runs, Others, Operations
  <2>2. OneOperates'
    BY <2>1, <1>a, <1>b DEF OneOperates, Operating, Operations, NoRequest, Hands, Others
  <2>3. Named'
    BY <2>1, <1>a, <1>b, <1>c DEF Files, Hands, Doing, OneOperates, Operating,
           Operations, Named, Known, Stale, Runs, Others, Holding
  <2>4. Known'
    BY <2>1, <1>a, <1>b, <1>c DEF Files, Hands, Doing, OneOperates, Operating,
           Operations, Named, Known, Stale, Runs, Others, Holding
  <2>5. Stale'
    BY <2>1, <1>a, <1>b, <1>c DEF Files, Hands, Doing, OneOperates, Operating,
           Operations, Named, Known, Stale, Runs, Others, Holding
  <2> QED
    BY <2>2, <2>3, <2>4, <2>5
<1>3. ASSUME NEW t \in Threads, Drop(t)
      PROVE  (OneOperates /\ Named /\ Known /\ Stale)'
  <2>1. /\ Others(t) /\ pc[t] = "drop" /\ pidfile' = NoPid /\ UNCHANGED <<proc, waiters>>
        /\ \/ pc'[t] = "idle" /\ req'[t] = NoRequest
           \/ pc'[t] \in {"spawn", "unlink"} /\ req[t] \in Operations /\ req'[t] = req[t]
           \/ pc'[t] = "open" /\ ~Overlaps(t)
    BY <1>3, <1>b DEF Files, Hands, Jobs, Goto, Finish, Drop, NotRunning, Others, Operations
  <2>2. OneOperates'
    BY <2>1, <1>a, <1>b DEF OneOperates, Operating, Operations, NoRequest, Hands,
           Others, Overlaps
  <2>3. Named'
    BY <2>1, <1>a, <1>b, <1>c DEF Files, Hands, Doing, OneOperates, Operating,
           Operations, Named, Known, Stale, Runs, Others, Holding, Overlaps
  <2>4. Known'
    BY <2>1, <1>a, <1>b, <1>c DEF Files, Hands, Doing, OneOperates, Operating,
           Operations, Named, Known, Stale, Runs, Others, Holding, Overlaps
  <2>5. Stale'
    BY <2>1, <1>a, <1>b, <1>c DEF Files, Hands, Doing, OneOperates, Operating,
           Operations, Named, Known, Stale, Runs, Others, Holding, Overlaps
  <2> QED
    BY <2>2, <2>3, <2>4, <2>5
<1>4. ASSUME NEW t \in Threads, Spawn(t)
      PROVE  (OneOperates /\ Named /\ Known /\ Stale)'
  <2>1. /\ Others(t) /\ pc[t] = "spawn" /\ UNCHANGED <<pidfile, waiters>>
        /\ \/ pc'[t] = "idle" /\ req'[t] = NoRequest /\ UNCHANGED proc
           \/ \E p \in Pids :
                /\ pc'[t] = "write" /\ pid'[t] = p /\ req'[t] = req[t] 
                /\ \A u \in Threads : pid[u] # p
                /\ <<p, "match">> \notin waiters /\ <<p, "drop">> \notin waiters
                /\ \A q \in Pids : proc'[q] = IF q = p THEN "sing-box" ELSE proc[q]
    <3>1. /\ Others(t) /\ pc[t] = "spawn" /\ UNCHANGED <<pidfile, waiters>>
      BY <1>4, <1>b DEF Hands, Jobs, Goto, Finish, Spawn, Others
    <3>2. CASE Finish(t) /\ UNCHANGED <<proc, calm>>
      <4>1. pc'[t] = "idle" /\ req'[t] = NoRequest /\ UNCHANGED proc
        BY <3>2, <1>b DEF Hands, Jobs, Goto, Finish
      <4> QED
        BY <3>1, <4>1
    <3>3. ASSUME NEW p \in Free,
                 proc' = [proc EXCEPT ![p] = "sing-box"], Goto(t, "write", p),
                 calm' = (calm /\ ~InHand(p)), UNCHANGED req
          PROVE  <2>1!2!2
      <4>1. p \in Pids /\ pc'[t] = "write" /\ pid'[t] = p /\ req'[t] = req[t]
        BY <3>3, <1>b DEF Hands, Goto, Free
      <4>2. /\ \A u \in Threads : pid[u] # p
            /\ <<p, "match">> \notin waiters /\ <<p, "drop">> \notin waiters
        BY <3>3 DEF InHand
      <4>3. \A q \in Pids : proc'[q] = IF q = p THEN "sing-box" ELSE proc[q]
        BY <3>3, <1>b DEF Files
      <4> QED
        BY <4>1, <4>2, <4>3
    <3> QED
      BY <1>4, <3>1, <3>2, <3>3 DEF Spawn
  <2>2. OneOperates'
    BY <2>1, <1>a, <1>b DEF OneOperates, Operating, Operations, NoRequest, Hands, Others
  <2>3. Named'
    BY <2>1, <1>a, <1>b, <1>c DEF Files, Hands, Doing, OneOperates, Operating,
           Operations, Named, Known, Stale, Runs, Others, Holding
  <2>4. \A u \in Threads : u # t => ~Operating(u)
    BY <2>1, <1>a, <1>b DEF Doing, OneOperates, Operating, Operations
  <2>5. pidfile = NoPid /\ \A p \in Pids : ~Runs(p)
    BY <2>1, <1>a DEF Known
  <2>6. CASE pc'[t] = "idle" /\ req'[t] = NoRequest /\ UNCHANGED proc
    <3>1. Known'
      BY <2>1, <2>6, <1>a DEF Known, Runs, Others
    <3>2. Stale'
      BY <2>1, <2>6, <1>a DEF Stale, Runs, Others
    <3> QED
      BY <2>2, <2>3, <3>1, <3>2
  <2>7. ASSUME NEW p \in Pids,
               pc'[t] = "write" /\ pid'[t] = p,
               \A u \in Threads : pid[u] # p,
               <<p, "match">> \notin waiters /\ <<p, "drop">> \notin waiters,
               \A q \in Pids : proc'[q] = IF q = p THEN "sing-box" ELSE proc[q]
        PROVE  (OneOperates /\ Named /\ Known /\ Stale)'
    <3>1. Known'
      BY <2>1, <2>4, <2>5, <2>7, <1>a, <1>b DEF Known, Doing, Operating, Operations,
             Runs, Others
    <3>2. Stale'
      BY <2>1, <2>5, <2>7, <1>a, <1>b, <1>c DEF Files, Hands, Holding, Stale, Runs, Others
    <3> QED
      BY <2>2, <2>3, <3>1, <3>2
  <2> QED
    BY <2>1, <2>6, <2>7
<1>5. ASSUME NEW t \in Threads, WritePid(t)
      PROVE  (OneOperates /\ Named /\ Known /\ Stale)'
  <2>1. /\ Others(t) /\ pc[t] = "write"
        /\ \/ /\ pc'[t] = "settle" /\ pid'[t] = pid[t] /\ req'[t] = req[t]
              /\ pidfile' = pid[t] /\ proc' = proc /\ ~RemovalPending
              /\ \A p \in Pids :
                   /\ <<p, "match">> \in waiters' => <<p, "match">> \in waiters
                   /\ <<p, "drop">> \in waiters' => <<p, "drop">> \in waiters
           \/ /\ pc'[t] = "idle" /\ req'[t] = NoRequest /\ UNCHANGED <<pidfile, waiters>>
              /\ \A q \in Pids : proc'[q] = IF q = pid[t] THEN "zombie" ELSE proc[q]
    BY <1>5, <1>b DEF Files, Hands, Jobs, Goto, Finish, WritePid, Others
  <2>2. OneOperates'
    BY <2>1, <1>a, <1>b DEF OneOperates, Operating, Operations, NoRequest, Hands,
           Others, RemovalPending, Removing
  <2>3. Named'
    BY <2>1, <1>a, <1>b, <1>c DEF Files, Hands, Doing, OneOperates, Operating,
           Operations, Named, Known, Stale, Runs, Others, Holding, RemovalPending,
           Removing
  <2>4. Known'
    BY <2>1, <1>a, <1>b, <1>c DEF Files, Hands, Doing, OneOperates, Operating,
           Operations, Named, Known, Stale, Runs, Others, Holding, RemovalPending,
           Removing
  <2>5. ASSUME pc'[t] = "settle" PROVE Stale'
    <3>1. /\ \A u \in Threads : pc'[u] \notin {"probe", "drop"}
          /\ \A p \in Pids : <<p, "drop">> \notin waiters'
      BY <2>1, <2>5 DEF Others, RemovalPending, Removing
    <3>2. UNCHANGED proc /\ \A p \in Pids : <<p, "match">> \in waiters' => <<p, "match">> \in waiters
      BY <2>1, <2>5
    <3>3. \A p \in Pids : <<p, "match">> \in waiters' => ~Runs(p)'
      BY <3>2, <1>a DEF Stale, Runs
    <3> QED
      BY <3>1, <3>3 DEF Stale, Runs
  <2>6. ASSUME pc'[t] = "idle" PROVE Stale'
    <3>1. UNCHANGED <<pidfile, waiters>> /\ \A q \in Pids : proc'[q] \in {proc[q], "zombie"}
      BY <2>1, <2>6
    <3>2. \A p \in Pids : ~Runs(p) => ~Runs(p)'
      BY <3>1 DEF Runs
    <3>3. \A u \in Threads : pc'[u] \in {"probe", "drop"} => pc'[u] = pc[u] /\ pid'[u] = pid[u] /\ pid[u] \in Pids
      BY <2>1, <2>6, <1>b DEF Others, Hands, Holding
    <3> QED
      BY <3>1, <3>2, <3>3, <1>a DEF Stale, Runs
  <2>7. Stale'
    BY <2>1, <2>5, <2>6
  <2> QED
    BY <2>2, <2>3, <2>4, <2>7
<1>6. ASSUME NEW t \in Threads, Settle(t)
      PROVE  (OneOperates /\ Named /\ Known /\ Stale)'
  <2>1. /\ Others(t) /\ pc[t] = "settle" /\ UNCHANGED <<pidfile, proc, waiters>>
        /\ pc'[t] = "idle" /\ req'[t] = NoRequest
    BY <1>6, <1>b DEF Files, Hands, Jobs, Goto, Finish, Settle, Others
  <2>2. OneOperates'
    BY <2>1, <1>a, <1>b DEF OneOperates, Operating, Operations, NoRequest, Hands, Others
  <2>3. Named'
    BY <2>1, <1>a, <1>b, <1>c DEF Files, Hands, Doing, OneOperates, Operating,
           Operations, Named, Known, Stale, Runs, Others, Holding
  <2>4. Known'
    BY <2>1, <1>a, <1>b, <1>c DEF Files, Hands, Doing, OneOperates, Operating,
           Operations, Named, Known, Stale, Runs, Others, Holding
  <2>5. Stale'
    BY <2>1, <1>a, <1>b, <1>c DEF Files, Hands, Doing, OneOperates, Operating,
           Operations, Named, Known, Stale, Runs, Others, Holding
  <2> QED
    BY <2>2, <2>3, <2>4, <2>5
<1>7. ASSUME NEW t \in Threads, Term(t) \/ Await(t)
      PROVE  (OneOperates /\ Named /\ Known /\ Stale)'
  <2>1. /\ Others(t) /\ UNCHANGED <<pidfile, proc, waiters>>
        /\ pc[t] \in {"term", "await"} /\ req'[t] = req[t]
        /\ \/ pc'[t] \in {"await", "kill"} /\ pid'[t] = pid[t]
           \/ pc'[t] = "unlink" /\ ~Runs(pid[t])
    BY <1>7, <1>b DEF Files, Hands, Jobs, Goto, Finish, Term, Await, Alive, Runs, Others
  <2>2. OneOperates'
    BY <2>1, <1>a, <1>b DEF OneOperates, Operating, Operations, NoRequest, Hands, Others
  <2>3. Named'
    BY <2>1, <1>a, <1>b, <1>c DEF Files, Hands, Doing, OneOperates, Operating,
           Operations, Named, Known, Stale, Runs, Others, Holding
  <2>4. Known'
    BY <2>1, <1>a, <1>b, <1>c DEF Files, Hands, Doing, OneOperates, Operating,
           Operations, Named, Known, Stale, Runs, Others, Holding
  <2>5. Stale'
    BY <2>1, <1>a, <1>b, <1>c DEF Files, Hands, Doing, OneOperates, Operating,
           Operations, Named, Known, Stale, Runs, Others, Holding
  <2> QED
    BY <2>2, <2>3, <2>4, <2>5
<1>8. ASSUME NEW t \in Threads, Kill(t)
      PROVE  (OneOperates /\ Named /\ Known /\ Stale)'
  <2>1. /\ Others(t) /\ pc[t] = "kill" /\ pc'[t] = "unlink" /\ req'[t] = req[t]
        /\ UNCHANGED <<pidfile, waiters>>
        /\ \A p \in Pids : proc'[p] \in {proc[p], "none", "zombie"}
        /\ proc'[pid[t]] # "sing-box"
    BY <1>8, <1>b DEF Files, Hands, Jobs, Goto, Finish, Kill, Corpse, Alive, Runs,
           Others, Holding
  <2>2. OneOperates'
    BY <2>1, <1>a, <1>b DEF OneOperates, Operating, Operations, NoRequest, Hands, Others
  <2>3. Named'
    BY <2>1, <1>a, <1>b, <1>c DEF Files, Hands, Doing, OneOperates, Operating,
           Operations, Named, Known, Stale, Runs, Others, Holding
  <2>4. Known'
    BY <2>1, <1>a, <1>b, <1>c DEF Files, Hands, Doing, OneOperates, Operating,
           Operations, Named, Known, Stale, Runs, Others, Holding
  <2>5. Stale'
    BY <2>1, <1>a, <1>b, <1>c DEF Files, Hands, Doing, OneOperates, Operating,
           Operations, Named, Known, Stale, Runs, Others, Holding
  <2> QED
    BY <2>2, <2>3, <2>4, <2>5
<1>9. ASSUME NEW t \in Threads, Unlink(t)
      PROVE  (OneOperates /\ Named /\ Known /\ Stale)'
  <2>1. /\ Others(t) /\ pc[t] = "unlink" /\ pidfile' = NoPid /\ UNCHANGED <<proc, waiters>>
        /\ pc'[t] = "idle" /\ req'[t] = NoRequest
    BY <1>9, <1>b DEF Files, Hands, Jobs, Goto, Finish, Unlink, Others
  <2>2. OneOperates'
    BY <2>1, <1>a, <1>b DEF OneOperates, Operating, Operations, NoRequest, Hands, Others
  <2>3. Named'
    BY <2>1, <1>a, <1>b, <1>c DEF Files, Hands, Doing, OneOperates, Operating,
           Operations, Named, Known, Stale, Runs, Others, Holding
  <2>4. Known'
    BY <2>1, <1>a, <1>b, <1>c DEF Files, Hands, Doing, OneOperates, Operating,
           Operations, Named, Known, Stale, Runs, Others, Holding
  <2>5. Stale'
    BY <2>1, <1>a, <1>b, <1>c DEF Files, Hands, Doing, OneOperates, Operating,
           Operations, Named, Known, Stale, Runs, Others, Holding
  <2> QED
    BY <2>2, <2>3, <2>4, <2>5
<1>10. ASSUME NEW t \in Threads, Hup(t)
       PROVE  (OneOperates /\ Named /\ Known /\ Stale)'
  <2>1. /\ Others(t) /\ pc[t] = "hup" /\ UNCHANGED <<pidfile, proc, waiters>>
        /\ pc'[t] = "idle" /\ req'[t] = NoRequest
    BY <1>10, <1>b DEF Files, Hands, Jobs, Goto, Finish, Hup, Others
  <2>2. OneOperates'
    BY <2>1, <1>a, <1>b DEF OneOperates, Operating, Operations, NoRequest, Hands, Others
  <2>3. Named'
    BY <2>1, <1>a, <1>b, <1>c DEF Files, Hands, Doing, OneOperates, Operating,
           Operations, Named, Known, Stale, Runs, Others, Holding
  <2>4. Known'
    BY <2>1, <1>a, <1>b, <1>c DEF Files, Hands, Doing, OneOperates, Operating,
           Operations, Named, Known, Stale, Runs, Others, Holding
  <2>5. Stale'
    BY <2>1, <1>a, <1>b, <1>c DEF Files, Hands, Doing, OneOperates, Operating,
           Operations, Named, Known, Stale, Runs, Others, Holding
  <2> QED
    BY <2>2, <2>3, <2>4, <2>5
<1>11. ASSUME NEW t \in Threads, NEW r \in Requests, Accept(t, r)
       PROVE  (OneOperates /\ Named /\ Known /\ Stale)'
  <2>1. /\ Others(t) /\ pc[t] = "idle" /\ pc'[t] = "open" /\ UNCHANGED <<pidfile, proc, waiters>>
        /\ req'[t] = r /\ (r \in Operations => ~Overlaps(t))
    BY <1>11, <1>b DEF Files, Hands, Jobs, Goto, Finish, Accept, Others
  <2>2. OneOperates'
    BY <2>1, <1>a, <1>b DEF OneOperates, Operating, Operations, NoRequest, Hands,
           Others, Overlaps
  <2>3. Named'
    BY <2>1, <1>a, <1>b, <1>c DEF Files, Hands, Doing, OneOperates, Operating,
           Operations, Named, Known, Stale, Runs, Others, Holding, Overlaps
  <2>4. Known'
    BY <2>1, <1>a, <1>b, <1>c DEF Files, Hands, Doing, OneOperates, Operating,
           Operations, Named, Known, Stale, Runs, Others, Holding, Overlaps
  <2>5. Stale'
    BY <2>1, <1>a, <1>b, <1>c DEF Files, Hands, Doing, OneOperates, Operating,
           Operations, Named, Known, Stale, Runs, Others, Holding, Overlaps
  <2> QED
    BY <2>2, <2>3, <2>4, <2>5
<1>12. CASE Tick
  <2>1. /\ Others(Loop) /\ Loop \in Threads /\ pc[Loop] = "idle" /\ pc'[Loop] = "open" /\ UNCHANGED <<pidfile, proc, waiters>>
        /\ req'[Loop] = "monitor"
    BY <1>12, <1>b DEF Files, Hands, Jobs, Goto, Finish, Tick, Others, Threads
  <2>2. OneOperates'
    BY <2>1, <1>a, <1>b DEF OneOperates, Operating, Operations, NoRequest, Hands, Others
  <2>3. Named'
    BY <2>1, <1>a, <1>b, <1>c DEF Files, Hands, Doing, OneOperates, Operating,
           Operations, Named, Known, Stale, Runs, Others, Holding
  <2>4. Known'
    BY <2>1, <1>a, <1>b, <1>c DEF Files, Hands, Doing, OneOperates, Operating,
           Operations, Named, Known, Stale, Runs, Others, Holding
  <2>5. Stale'
    BY <2>1, <1>a, <1>b, <1>c DEF Files, Hands, Doing, OneOperates, Operating,
           Operations, Named, Known, Stale, Runs, Others, Holding
  <2> QED
    BY <2>2, <2>3, <2>4, <2>5
<1>13. ASSUME NEW p \in Pids, Reap(p)
       PROVE  (OneOperates /\ Named /\ Known /\ Stale)'
  <2>1. /\ UNCHANGED <<pidfile, pc, pid, req>>
        /\ proc[p] = "zombie" /\ \A q \in Pids : proc'[q] = IF q = p THEN "none" ELSE proc[q]
        /\ \A q \in Pids :
             /\ <<q, "match">> \in waiters' => q = p \/ <<q, "match">> \in waiters
             /\ <<q, "drop">> \in waiters' => <<q, "drop">> \in waiters
    BY <1>13, <1>b DEF Files, Hands, Jobs, Goto, Finish, Reap
  <2>2. OneOperates'
    BY <2>1, <1>a, <1>b DEF OneOperates, Operating, Operations, NoRequest, Hands, Others
  <2>3. Named'
    BY <2>1, <1>a, <1>b, <1>c DEF Files, Hands, Doing, OneOperates, Operating,
           Operations, Named, Known, Stale, Runs, Others, Holding
  <2>4. Known'
    BY <2>1, <1>a, <1>b, <1>c DEF Files, Hands, Doing, OneOperates, Operating,
           Operations, Named, Known, Stale, Runs, Others, Holding
  <2>5. Stale'
    BY <2>1, <1>a, <1>b, <1>c DEF Files, Hands, Doing, OneOperates, Operating,
           Operations, Named, Known, Stale, Runs, Others, Holding
  <2> QED
    BY <2>2, <2>3, <2>4, <2>5
<1>14. ASSUME NEW p \in Pids, Match(p)
       PROVE  (OneOperates /\ Named /\ Known /\ Stale)'
  <2>1. /\ UNCHANGED <<pidfile, proc, pc, pid, req>> /\ <<p, "match">> \in waiters
        /\ \A q \in Pids :
             /\ <<q, "match">> \in waiters' => <<q, "match">> \in waiters
             /\ <<q, "drop">> \in waiters' => (q = p /\ pidfile = p) \/ <<q, "drop">> \in waiters
    BY <1>14, <1>b DEF Files, Hands, Jobs, Goto, Finish, Match
  <2>2. OneOperates'
    BY <2>1, <1>a, <1>b DEF OneOperates, Operating, Operations, NoRequest, Hands, Others
  <2>3. Named'
    BY <2>1, <1>a, <1>b, <1>c DEF Files, Hands, Doing, OneOperates, Operating,
           Operations, Named, Known, Stale, Runs, Others, Holding
  <2>4. Known'
    BY <2>1, <1>a, <1>b, <1>c DEF Files, Hands, Doing, OneOperates, Operating,
           Operations, Named, Known, Stale, Runs, Others, Holding
  <2>5. Stale'
    BY <2>1, <1>a, <1>b, <1>c DEF Files, Hands, Doing, OneOperates, Operating,
           Operations, Named, Known, Stale, Runs, Others, Holding
  <2> QED
    BY <2>2, <2>3, <2>4, <2>5
<1>15. ASSUME NEW p \in Pids, RemoveMatched(p)
       PROVE  (OneOperates /\ Named /\ Known /\ Stale)'
  <2>1. /\ UNCHANGED <<proc, pc, pid, req>> /\ <<p, "drop">> \in waiters /\ pidfile' = NoPid
        /\ \A q \in Pids :
             /\ <<q, "match">> \in waiters' => <<q, "match">> \in waiters
             /\ <<q, "drop">> \in waiters' => <<q, "drop">> \in waiters
    BY <1>15, <1>b DEF Files, Hands, Jobs, Goto, Finish, RemoveMatched
  <2>2. OneOperates'
    BY <2>1, <1>a, <1>b DEF OneOperates, Operating, Operations, NoRequest, Hands, Others
  <2>3. Named'
    BY <2>1, <1>a, <1>b, <1>c DEF Files, Hands, Doing, OneOperates, Operating,
           Operations, Named, Known, Stale, Runs, Others, Holding
  <2>4. Known'
    BY <2>1, <1>a, <1>b, <1>c DEF Files, Hands, Doing, OneOperates, Operating,
           Operations, Named, Known, Stale, Runs, Others, Holding
  <2>5. Stale'
    BY <2>1, <1>a, <1>b, <1>c DEF Files, Hands, Doing, OneOperates, Operating,
           Operations, Named, Known, Stale, Runs, Others, Holding
  <2> QED
    BY <2>2, <2>3, <2>4, <2>5
<1>16. ASSUME NEW p \in Pids, Exit(p) \/ StrangerStarts(p) \/ StrangerExits(p)
       PROVE  (OneOperates /\ Named /\ Known /\ Stale)'
  <2>1. /\ UNCHANGED <<pc, pid, req, pidfile, waiters>>
        /\ \A q \in Pids : q # p => proc'[q] = proc[q]
        /\ ~Runs(p)' /\ (proc'[p] = "stranger" => ~InHand(p))
    BY <1>16, <1>b DEF Files, Hands, Jobs, Goto, Finish, Exit, StrangerStarts,
           StrangerExits, Free, Strangers, SingBoxes, Corpse, Runs
  <2>2. OneOperates'
    BY <2>1, <1>a, <1>b DEF OneOperates, Operating, Operations, NoRequest, Hands,
           Others, InHand
  <2>3. Named'
    BY <2>1, <1>a, <1>b, <1>c DEF Files, Hands, Doing, OneOperates, Operating,
           Operations, Named, Known, Stale, Runs, Others, Holding, InHand
  <2>4. Known'
    BY <2>1, <1>a, <1>b, <1>c DEF Files, Hands, Doing, OneOperates, Operating,
           Operations, Named, Known, Stale, Runs, Others, Holding, InHand
  <2>5. Stale'
    BY <2>1, <1>a, <1>b, <1>c DEF Files, Hands, Doing, OneOperates, Operating,
           Operations, Named, Known, Stale, Runs, Others, Holding, InHand
  <2> QED
    BY <2>2, <2>3, <2>4, <2>5
<1>17. CASE Crash
  <2>1. /\ \A t \in Threads : pc'[t] = "idle" /\ req'[t] = NoRequest /\ ~Operating(t)
        /\ waiters' = {} /\ pidfile' = pidfile
        /\ \A p \in Pids : Runs(p)' => Runs(p)
    BY <1>17, <1>b DEF Files, Hands, Jobs, Goto, Finish, Crash, Runs
  <2>2. OneOperates'
    BY <2>1, <1>a, <1>b DEF OneOperates, Operating, Operations, NoRequest, Hands, Others
  <2>3. Named'
    BY <2>1, <1>a, <1>b, <1>c DEF Files, Hands, Doing, OneOperates, Operating,
           Operations, Named, Known, Stale, Runs, Others, Holding
  <2>4. Known'
    BY <2>1, <1>a, <1>b, <1>c DEF Files, Hands, Doing, OneOperates, Operating,
           Operations, Named, Known, Stale, Runs, Others, Holding
  <2>5. Stale'
    BY <2>1, <1>a, <1>b, <1>c DEF Files, Hands, Doing, OneOperates, Operating,
           Operations, Named, Known, Stale, Runs, Others, Holding
  <2> QED
    BY <2>2, <2>3, <2>4, <2>5
<1>18. CASE UNCHANGED vars
  <2>1. UNCHANGED <<pidfile, proc, waiters, pc, pid, req>>
    BY <1>18, <1>b DEF Files, Hands, Jobs, Goto, Finish, vars
  <2>2. OneOperates'
    BY <2>1, <1>a, <1>b DEF OneOperates, Operating, Operations, NoRequest, Hands, Others
  <2>3. Named'
    BY <2>1, <1>a, <1>b, <1>c DEF Files, Hands, Doing, OneOperates, Operating,
           Operations, Named, Known, Stale, Runs, Others, Holding
  <2>4. Known'
    BY <2>1, <1>a, <1>b, <1>c DEF Files, Hands, Doing, OneOperates, Operating,
           Operations, Named, Known, Stale, Runs, Others, Holding
  <2>5. Stale'
    BY <2>1, <1>a, <1>b, <1>c DEF Files, Hands, Doing, OneOperates, Operating,
           Operations, Named, Known, Stale, Runs, Others, Holding
  <2> QED
    BY <2>2, <2>3, <2>4, <2>5
<1> QED
  BY <1>1, <1>2, <1>3, <1>4, <1>5, <1>6, <1>7, <1>8, <1>9, <1>10, <1>11, <1>12, <1>13, <1>14, <1>15, <1>16, <1>17, <1>18
     DEF Next, Run, Wait

LEMMA TrackedInit == Init => Tracked
BY DEF Init, Tracked, OneOperates, Named, Known, Stale, Runs, Operating, Operations,
       NoRequest

(* The manager keeps track of sing-box for ever.                           *)
LEMMA TrackedCorrect == Spec => []Tracked
BY TrackedInit, TrackedStep, DoingCorrect, PidfileTypeCorrect, PTL DEF Spec, Safe

-----------------------------------------------------------------------------
(* While calm, a sing-box that runs is the one the pidfile names, or its   *)
(* pid is about to be written.                                             *)
THEOREM RunningNamed == Spec => []RunningIsNamed
<1>1. Tracked => RunningIsNamed
  BY DEF Tracked, Named, Known, Runs, RunningIsNamed, SingBoxes
<1> QED
  BY <1>1, TrackedCorrect, PTL

(* While calm, two sing-box processes never run at a time.                 *)
THEOREM NeverTwo == Spec => []AtMostOne
<1>1. Tracked => AtMostOne
  BY DEF Tracked, Named, Known, Runs, AtMostOne, SingBoxes
<1> QED
  BY <1>1, TrackedCorrect, PTL

(* While calm, no stranger is ever signalled.                              *)
THEOREM StrangersUntouched == Spec => []StrangersSpared
<1>1. TypeOK /\ Tracked => StrangersSpared
  BY DEF Tracked, Known, StrangersSpared, Strangers
<1> QED
  BY <1>1, TrackedCorrect, PidfileTypeCorrect, PTL

-----------------------------------------------------------------------------
(* The policy routes.  The commands of the two operations are taken apart  *)
(* once, by their places, and the rest of the argument is about places.    *)
(* FewDuplicates is inductive with the type invariant.  Heals and          *)
(* BoundSuffices rest on Undisturbed: what an operation that runs alone    *)
(* has done by each of its commands, and how many copies its loop may      *)
(* still find.                                                             *)

(* Where each command stands in the two programs.                          *)
RouteAdd(f) == IF f = "-4" THEN 1 ELSE 2
ApplyDel(f) == IF f = "-4" THEN 3 ELSE 5
RuleAdd(f) == IF f = "-4" THEN 4 ELSE 6
CleanupDel(f) == IF f = "-4" THEN 1 ELSE 2
RouteDel(f) == IF f = "-4" THEN 3 ELSE 4

LEMMA ApplyCommands ==
  /\ Len(Apply) = 6
  /\ \A i \in 1..6, f \in Families :
       /\ Apply[i] = <<"route add", f>> <=> i = RouteAdd(f)
       /\ Apply[i] = <<"rule del", f>> <=> i = ApplyDel(f)
       /\ Apply[i] = <<"rule add", f>> <=> i = RuleAdd(f)
       /\ Apply[i] # <<"route del", f>>
<1>1. Len(Apply) = 6
  BY DEF Apply
<1>2. ASSUME NEW c, NEW f
      PROVE  /\ Apply[1] = <<c, f>> <=> c = "route add" /\ f = "-4"
             /\ Apply[2] = <<c, f>> <=> c = "route add" /\ f = "-6"
             /\ Apply[3] = <<c, f>> <=> c = "rule del" /\ f = "-4"
             /\ Apply[4] = <<c, f>> <=> c = "rule add" /\ f = "-4"
             /\ Apply[5] = <<c, f>> <=> c = "rule del" /\ f = "-6"
             /\ Apply[6] = <<c, f>> <=> c = "rule add" /\ f = "-6"
  <2>1. /\ Apply[1] = <<"route add", "-4">> /\ Apply[2] = <<"route add", "-6">>
        /\ Apply[3] = <<"rule del", "-4">> /\ Apply[4] = <<"rule add", "-4">>
        /\ Apply[5] = <<"rule del", "-6">> /\ Apply[6] = <<"rule add", "-6">>
    BY DEF Apply
  <2>2. /\ <<"route add", "-4">> = <<c, f>> <=> c = "route add" /\ f = "-4"
        /\ <<"route add", "-6">> = <<c, f>> <=> c = "route add" /\ f = "-6"
        /\ <<"rule del", "-4">> = <<c, f>> <=> c = "rule del" /\ f = "-4"
        /\ <<"rule add", "-4">> = <<c, f>> <=> c = "rule add" /\ f = "-4"
        /\ <<"rule del", "-6">> = <<c, f>> <=> c = "rule del" /\ f = "-6"
        /\ <<"rule add", "-6">> = <<c, f>> <=> c = "rule add" /\ f = "-6"
    OBVIOUS
  <2> QED
    BY <2>1, <2>2
<1>3. ASSUME NEW i \in 1..6, NEW f \in Families
      PROVE  /\ Apply[i] = <<"route add", f>> <=> i = RouteAdd(f)
             /\ Apply[i] = <<"rule del", f>> <=> i = ApplyDel(f)
             /\ Apply[i] = <<"rule add", f>> <=> i = RuleAdd(f)
             /\ Apply[i] # <<"route del", f>>
  <2>1. i = 1 \/ i = 2 \/ i = 3 \/ i = 4 \/ i = 5 \/ i = 6
    OBVIOUS
  <2>2. f = "-4" \/ f = "-6"
    BY DEF Families
  <2> USE DEF RouteAdd, ApplyDel, RuleAdd
  <2>3. CASE i = 1
    <3>1. CASE f = "-4"  BY <1>2, <2>3, <3>1, ZenonT(40)
    <3>2. CASE f = "-6"  BY <1>2, <2>3, <3>2, ZenonT(40)
    <3> QED  BY <2>2, <3>1, <3>2
  <2>4. CASE i = 2
    <3>1. CASE f = "-4"  BY <1>2, <2>4, <3>1, ZenonT(40)
    <3>2. CASE f = "-6"  BY <1>2, <2>4, <3>2, ZenonT(40)
    <3> QED  BY <2>2, <3>1, <3>2
  <2>5. CASE i = 3
    <3>1. CASE f = "-4"  BY <1>2, <2>5, <3>1, ZenonT(40)
    <3>2. CASE f = "-6"  BY <1>2, <2>5, <3>2, ZenonT(40)
    <3> QED  BY <2>2, <3>1, <3>2
  <2>6. CASE i = 4
    <3>1. CASE f = "-4"  BY <1>2, <2>6, <3>1, ZenonT(40)
    <3>2. CASE f = "-6"  BY <1>2, <2>6, <3>2, ZenonT(40)
    <3> QED  BY <2>2, <3>1, <3>2
  <2>7. CASE i = 5
    <3>1. CASE f = "-4"  BY <1>2, <2>7, <3>1, ZenonT(40)
    <3>2. CASE f = "-6"  BY <1>2, <2>7, <3>2, ZenonT(40)
    <3> QED  BY <2>2, <3>1, <3>2
  <2>8. CASE i = 6
    <3>1. CASE f = "-4"  BY <1>2, <2>8, <3>1, ZenonT(40)
    <3>2. CASE f = "-6"  BY <1>2, <2>8, <3>2, ZenonT(40)
    <3> QED  BY <2>2, <3>1, <3>2
  <2> QED
    BY <2>1, <2>3, <2>4, <2>5, <2>6, <2>7, <2>8
<1> QED
  BY <1>1, <1>3

LEMMA CleanupCommands ==
  /\ Len(Cleanup) = 4
  /\ \A i \in 1..4, f \in Families :
       /\ Cleanup[i] = <<"rule del", f>> <=> i = CleanupDel(f)
       /\ Cleanup[i] = <<"route del", f>> <=> i = RouteDel(f)
       /\ Cleanup[i] # <<"route add", f>>
       /\ Cleanup[i] # <<"rule add", f>>
<1>1. Len(Cleanup) = 4
  BY DEF Cleanup
<1>2. ASSUME NEW c, NEW f
      PROVE  /\ Cleanup[1] = <<c, f>> <=> c = "rule del" /\ f = "-4"
             /\ Cleanup[2] = <<c, f>> <=> c = "rule del" /\ f = "-6"
             /\ Cleanup[3] = <<c, f>> <=> c = "route del" /\ f = "-4"
             /\ Cleanup[4] = <<c, f>> <=> c = "route del" /\ f = "-6"
  <2>1. /\ Cleanup[1] = <<"rule del", "-4">> /\ Cleanup[2] = <<"rule del", "-6">>
        /\ Cleanup[3] = <<"route del", "-4">> /\ Cleanup[4] = <<"route del", "-6">>
    BY DEF Cleanup
  <2>2. /\ <<"rule del", "-4">> = <<c, f>> <=> c = "rule del" /\ f = "-4"
        /\ <<"rule del", "-6">> = <<c, f>> <=> c = "rule del" /\ f = "-6"
        /\ <<"route del", "-4">> = <<c, f>> <=> c = "route del" /\ f = "-4"
        /\ <<"route del", "-6">> = <<c, f>> <=> c = "route del" /\ f = "-6"
    OBVIOUS
  <2> QED
    BY <2>1, <2>2
<1>3. ASSUME NEW i \in 1..4, NEW f \in Families
      PROVE  /\ Cleanup[i] = <<"rule del", f>> <=> i = CleanupDel(f)
             /\ Cleanup[i] = <<"route del", f>> <=> i = RouteDel(f)
             /\ Cleanup[i] # <<"route add", f>>
             /\ Cleanup[i] # <<"rule add", f>>
  <2>1. i = 1 \/ i = 2 \/ i = 3 \/ i = 4
    OBVIOUS
  <2>2. f = "-4" \/ f = "-6"
    BY DEF Families
  <2> USE DEF CleanupDel, RouteDel
  <2>3. CASE i = 1
    <3>1. CASE f = "-4"  BY <1>2, <2>3, <3>1, ZenonT(40)
    <3>2. CASE f = "-6"  BY <1>2, <2>3, <3>2, ZenonT(40)
    <3> QED  BY <2>2, <3>1, <3>2
  <2>4. CASE i = 2
    <3>1. CASE f = "-4"  BY <1>2, <2>4, <3>1, ZenonT(40)
    <3>2. CASE f = "-6"  BY <1>2, <2>4, <3>2, ZenonT(40)
    <3> QED  BY <2>2, <3>1, <3>2
  <2>5. CASE i = 3
    <3>1. CASE f = "-4"  BY <1>2, <2>5, <3>1, ZenonT(40)
    <3>2. CASE f = "-6"  BY <1>2, <2>5, <3>2, ZenonT(40)
    <3> QED  BY <2>2, <3>1, <3>2
  <2>6. CASE i = 4
    <3>1. CASE f = "-4"  BY <1>2, <2>6, <3>1, ZenonT(40)
    <3>2. CASE f = "-6"  BY <1>2, <2>6, <3>2, ZenonT(40)
    <3> QED  BY <2>2, <3>1, <3>2
  <2> QED
    BY <2>1, <2>3, <2>4, <2>5, <2>6
<1> QED
  BY <1>1, <1>3

LEMMA ProgramsDiffer == Apply # <<>> /\ Cleanup # <<>> /\ Apply # Cleanup
<1>1. Len(Apply) = 6 /\ Len(Cleanup) = 4
  BY ApplyCommands, CleanupCommands
<1>2. Len(<<>>) = 0 /\ 6 # 0 /\ 4 # 0 /\ 6 # 4
  OBVIOUS
<1> QED
  BY <1>1, <1>2, Zenon

LEMMA ProgramLengths == \A p \in Programs : Len(p) \in {4, 6}
<1>1. Len(Apply) = 6 /\ Len(Cleanup) = 4
  BY ApplyCommands, CleanupCommands
<1> QED
  BY <1>1 DEF Programs

(* The program and the place of a goroutine at a command.                  *)
Place(t, p, i) == job[t] = p /\ at[t] = i

LEMMA Placed ==
  RouteTypeOK =>
    \A t \in Goroutines, f \in Families :
      /\ At(t, "route add", f) <=> Place(t, Apply, RouteAdd(f))
      /\ At(t, "rule del", f) <=> Place(t, Apply, ApplyDel(f)) \/ Place(t, Cleanup, CleanupDel(f))
      /\ At(t, "rule add", f) <=> Place(t, Apply, RuleAdd(f))
      /\ At(t, "route del", f) <=> Place(t, Cleanup, RouteDel(f))
<1> SUFFICES ASSUME RouteTypeOK, NEW t \in Goroutines, NEW f \in Families
    PROVE  /\ At(t, "route add", f) <=> Place(t, Apply, RouteAdd(f))
           /\ At(t, "rule del", f) <=>
                Place(t, Apply, ApplyDel(f)) \/ Place(t, Cleanup, CleanupDel(f))
           /\ At(t, "rule add", f) <=> Place(t, Apply, RuleAdd(f))
           /\ At(t, "route del", f) <=> Place(t, Cleanup, RouteDel(f))
  OBVIOUS
<1>1. CASE job[t] = Apply
  <2>1. t \in Busy /\ at[t] \in 1..6
    BY <1>1, ApplyCommands, ProgramsDiffer DEF RouteTypeOK, Busy
  <2> QED
    BY <1>1, <2>1, ApplyCommands, ProgramsDiffer DEF At, Place
<1>2. CASE job[t] = Cleanup
  <2>1. t \in Busy /\ at[t] \in 1..4
    BY <1>2, CleanupCommands, ProgramsDiffer DEF RouteTypeOK, Busy
  <2> QED
    BY <1>2, <2>1, CleanupCommands, ProgramsDiffer DEF At, Place
<1>3. CASE job[t] = <<>>
  BY <1>3, ProgramsDiffer DEF At, Place, Busy
<1> QED
  BY <1>1, <1>2, <1>3 DEF RouteTypeOK, Programs

PlacesRight ==
  \A t \in Goroutines, f \in Families :
    At(t, "rule del", f) <=> Place(t, Apply, ApplyDel(f)) \/ Place(t, Cleanup, CleanupDel(f))

LEMMA PlacedRight == RouteTypeOK => PlacesRight
BY Placed DEF PlacesRight

-----------------------------------------------------------------------------
(* What a step does to the goroutine that takes it.                        *)
OtherJobs(t) ==
  \A u \in Goroutines :
    u # t => job'[u] = job[u] /\ at'[u] = at[u] /\ tries'[u] = tries[u] /\ result'[u] = result[u]

Ended(t, outcome) ==
  /\ OtherJobs(t) /\ alone' = alone
  /\ job'[t] = <<>> /\ at'[t] = 0 /\ tries'[t] = 0 /\ result'[t] = outcome

Advanced(t) ==
  /\ OtherJobs(t) /\ alone' = alone
  /\ job'[t] = job[t] /\ at'[t] = at[t] + 1 /\ tries'[t] = 0 /\ result'[t] = result[t]

LEMMA Ends ==
  ASSUME RouteTypeOK, NEW t \in Goroutines, NEW outcome, End(t, outcome)
  PROVE  Ended(t, outcome)
BY DEF RouteTypeOK, End, Ended, OtherJobs

LEMMA Proceeds ==
  ASSUME RouteTypeOK, NEW t \in Goroutines, Proceed(t)
  PROVE  \/ at[t] = Len(job[t]) /\ Ended(t, "ok")
         \/ at[t] < Len(job[t]) /\ Advanced(t)
<1>1. CASE at[t] = Len(job[t]) /\ End(t, "ok")
  BY <1>1, Ends
<1>2. CASE at[t] < Len(job[t]) /\ ~End(t, "ok")
  BY <1>2 DEF Proceed, RouteTypeOK, Advanced, OtherJobs
<1> QED
  BY <1>1, <1>2 DEF Proceed, RouteTypeOK, End, Advanced, OtherJobs

-----------------------------------------------------------------------------
(* The type invariant, in the part of the kernel and that of the daemon.   *)
Kernel == route \in [Families -> BOOLEAN] /\ rules \in [Families -> Nat]

RouteJobs ==
  /\ job \in [Goroutines -> Programs \cup {<<>>}]
  /\ at \in [Goroutines -> 0..6]
  /\ \A t \in Goroutines : IF t \in Busy THEN at[t] \in 1..Len(job[t]) ELSE at[t] = 0
  /\ tries \in [Goroutines -> 0..(MaxDeletes - 1)]

RouteHistory ==
  /\ alone \in [Goroutines -> BOOLEAN]
  /\ result \in [Goroutines -> {"ok", "failed", "too many", "cut off"}]

LEMMA RouteTypeParts == RouteTypeOK <=> Kernel /\ RouteJobs /\ RouteHistory
BY DEF RouteTypeOK, Kernel, RouteJobs, RouteHistory

LEMMA KernelStep == Kernel /\ [RouteNext]_routeVars => Kernel'
<1> SUFFICES ASSUME Kernel, [RouteNext]_routeVars
             PROVE  Kernel'
  OBVIOUS
<1> USE DEF Kernel
<1>1. ASSUME NEW t \in Goroutines, NEW f \in Families, AddRoute(t, f) \/ DeleteRoute(t, f)
      PROVE  Kernel'
  BY <1>1 DEF AddRoute, DeleteRoute
<1>2. ASSUME NEW t \in Goroutines, NEW f \in Families, DeleteRule(t, f) \/ AddRule(t, f)
      PROVE  Kernel'
  <2>1. /\ route' = route
        /\ \/ rules' = rules
           \/ rules[f] > 0 /\ rules' = [rules EXCEPT ![f] = @ - 1]
           \/ rules' = [rules EXCEPT ![f] = @ + 1]
    BY <1>2 DEF DeleteRule, AddRule
  <2> QED
    BY <2>1
<1>3. ASSUME NEW t \in Goroutines, Fail(t) \/ \E p \in Programs : Begin(t, p)
      PROVE  Kernel'
  BY <1>3 DEF Fail, Begin
<1>4. CASE RouteCrash
  BY <1>4 DEF RouteCrash
<1>5. CASE UNCHANGED routeVars
  BY <1>5 DEF routeVars
<1> QED
  BY <1>1, <1>2, <1>3, <1>4, <1>5 DEF RouteNext, Command

LEMMA RouteHistoryStep == RouteHistory /\ [RouteNext]_routeVars => RouteHistory'
<1> SUFFICES ASSUME RouteHistory, [RouteNext]_routeVars
             PROVE  RouteHistory'
  OBVIOUS
<1> USE DEF RouteHistory, End, Proceed
<1>1. ASSUME NEW t \in Goroutines, NEW f \in Families, AddRoute(t, f) \/ DeleteRoute(t, f)
      PROVE  RouteHistory'
  BY <1>1 DEF AddRoute, DeleteRoute
<1>2. ASSUME NEW t \in Goroutines, NEW f \in Families, DeleteRule(t, f) \/ AddRule(t, f)
      PROVE  RouteHistory'
  BY <1>2 DEF DeleteRule, AddRule
<1>3. ASSUME NEW t \in Goroutines, Fail(t)
      PROVE  RouteHistory'
  BY <1>3 DEF Fail
<1>4. ASSUME NEW t \in Goroutines, NEW p \in Programs, Begin(t, p)
      PROVE  RouteHistory'
  BY <1>4 DEF Begin
<1>5. CASE RouteCrash
  BY <1>5 DEF RouteCrash
<1>6. CASE UNCHANGED routeVars
  BY <1>6 DEF routeVars
<1> QED
  BY <1>1, <1>2, <1>3, <1>4, <1>5, <1>6 DEF RouteNext, Command

(* Ending, or going on with the next command, keeps the place in bounds.   *)
LEMMA RouteJobsEnd == ASSUME RouteJobs, NEW t \in Goroutines, NEW o, End(t, o) PROVE RouteJobs'
<1>1. MaxDeletes \in Nat \ {0}
  BY RoutesConstants DEF RoutesConstants
<1>2. \A u \in Goroutines : u \in Busy' <=> u \in Busy /\ u # t
  BY DEF End, Busy, RouteJobs
<1> QED
  BY <1>1, <1>2 DEF End, RouteJobs

LEMMA RouteJobsProceed == ASSUME RouteJobs, NEW t \in Busy, Proceed(t) PROVE RouteJobs'
<1>1. MaxDeletes \in Nat \ {0}
  BY RoutesConstants DEF RoutesConstants
<1>2. CASE at[t] = Len(job[t]) /\ End(t, "ok")
  BY <1>2, RouteJobsEnd DEF Busy
<1>3. CASE at[t] < Len(job[t]) /\ at' = [at EXCEPT ![t] = @ + 1] /\ tries' = [tries EXCEPT ![t] = 0]
           /\ UNCHANGED job
  <2>1. Busy' = Busy
    BY <1>3 DEF Busy
  <2>2. t \in Goroutines /\ job[t] \in Programs /\ Len(job[t]) \in {4, 6}
    <3>1. t \in Goroutines /\ job[t] # <<>>
      BY DEF Busy
    <3>2. job[t] \in Programs
      BY <3>1 DEF RouteJobs
    <3> QED
      BY <3>1, <3>2, ProgramLengths
  <2>3. at[t] \in 1..Len(job[t])
    BY <2>2 DEF RouteJobs, Busy
  <2>4. at[t] + 1 \in 1..Len(job[t]) /\ at[t] + 1 \in 0..6
    <3>1. Len(job[t]) = 4 \/ Len(job[t]) = 6
      BY <2>2
    <3>2. at[t] \in 0..6 /\ at[t] >= 1
      BY <2>2, <2>3, <3>1 DEF RouteJobs
    <3>3. at[t] < Len(job[t])
      BY <1>3
    <3> DEFINE i == at[t]  n == Len(job[t])
    <3>4. i + 1 \in 1..n /\ i + 1 \in 0..6
      <4>1. (n = 4 \/ n = 6) /\ i \in 0..6 /\ i >= 1 /\ i < n
        BY <3>1, <3>2, <3>3
      <4> HIDE DEF i, n
      <4> QED
        BY <4>1
    <3> QED
      BY <3>4
  <2>5. at' \in [Goroutines -> 0..6]
    BY <1>3, <2>4 DEF RouteJobs
  <2>7. tries' \in [Goroutines -> 0..(MaxDeletes - 1)]
    <3>1. 0 \in 0..(MaxDeletes - 1)
      BY <1>1
    <3> QED
      BY <1>3, <3>1 DEF RouteJobs
  <2>6. \A u \in Goroutines : IF u \in Busy' THEN at'[u] \in 1..Len(job'[u]) ELSE at'[u] = 0
    BY <1>3, <2>1, <2>2, <2>4 DEF RouteJobs
  <2> QED
    BY <1>3, <2>5, <2>6, <2>7 DEF RouteJobs
<1> QED
  BY <1>2, <1>3 DEF Proceed

LEMMA RouteJobsStep == RouteJobs /\ [RouteNext]_routeVars => RouteJobs'
<1> SUFFICES ASSUME RouteJobs, [RouteNext]_routeVars
             PROVE  RouteJobs'
  OBVIOUS
<1>0. MaxDeletes \in Nat \ {0}
  BY RoutesConstants DEF RoutesConstants
<1>1. ASSUME NEW t \in Goroutines, NEW f \in Families,
             AddRoute(t, f) \/ DeleteRoute(t, f) \/ AddRule(t, f)
      PROVE  RouteJobs'
  <2>1. t \in Busy /\ Proceed(t)
    BY <1>1 DEF AddRoute, DeleteRoute, AddRule, At
  <2> QED
    BY <2>1, RouteJobsProceed
<1>2. ASSUME NEW t \in Goroutines, NEW f \in Families, DeleteRule(t, f)
      PROVE  RouteJobs'
  <2>1. CASE Proceed(t)
    BY <1>2, <2>1, RouteJobsProceed DEF DeleteRule, At
  <2>2. CASE End(t, "too many")
    BY <2>2, RouteJobsEnd
  <2>3. CASE /\ tries[t] + 1 < MaxDeletes /\ tries' = [tries EXCEPT ![t] = @ + 1]
             /\ UNCHANGED <<job, at>>
    <3>1. Busy' = Busy
      BY <2>3 DEF Busy
    <3> QED
      BY <1>0, <2>3, <3>1 DEF RouteJobs
  <2> QED
    BY <1>2, <2>1, <2>2, <2>3 DEF DeleteRule
<1>3. ASSUME NEW t \in Goroutines, Fail(t)
      PROVE  RouteJobs'
  BY <1>3, RouteJobsEnd DEF Fail
<1>4. ASSUME NEW t \in Goroutines, NEW p \in Programs, Begin(t, p)
      PROVE  RouteJobs'
  <2>1. p # <<>> /\ 1 \in 1..Len(p)
    <3>1. p = Apply \/ p = Cleanup
      BY DEF Programs
    <3>2. p # <<>> /\ Len(p) \in {4, 6}
      BY <3>1, ApplyCommands, CleanupCommands, ProgramsDiffer
    <3> QED
      BY <3>2
  <2>2. \A u \in Goroutines : u \in Busy' <=> u \in Busy \/ u = t
    BY <1>4, <2>1 DEF Begin, Busy, RouteJobs
  <2>3. at' \in [Goroutines -> 0..6] /\ tries' \in [Goroutines -> 0..(MaxDeletes - 1)]
    BY <1>0, <1>4 DEF Begin, RouteJobs
  <2>4. \A u \in Goroutines : IF u \in Busy' THEN at'[u] \in 1..Len(job'[u]) ELSE at'[u] = 0
    BY <1>4, <2>1, <2>2 DEF Begin, RouteJobs
  <2>5. job' \in [Goroutines -> Programs \cup {<<>>}]
    BY <1>4 DEF Begin, RouteJobs
  <2> QED
    BY <2>3, <2>4, <2>5 DEF RouteJobs
<1>5. CASE RouteCrash
  <2>1. \A t \in Goroutines : job'[t] = <<>> /\ at'[t] = 0
    BY <1>5 DEF RouteCrash
  <2>2. Busy' = {}
    BY <2>1 DEF Busy
  <2>3. /\ job' \in [Goroutines -> Programs \cup {<<>>}]
        /\ at' \in [Goroutines -> 0..6]
    <3>1. 0 \in 0..6 /\ <<>> \in Programs \cup {<<>>}
      OBVIOUS
    <3>2. job' = [t \in Goroutines |-> <<>>] /\ at' = [t \in Goroutines |-> 0]
      BY <1>5 DEF RouteCrash
    <3> QED
      BY <3>1, <3>2, Zenon
  <2>4. tries' \in [Goroutines -> 0..(MaxDeletes - 1)]
    <3>1. 0 \in 0..(MaxDeletes - 1)
      BY <1>0
    <3> QED
      BY <1>5, <3>1 DEF RouteCrash
  <2>5. \A t \in Goroutines : IF t \in Busy' THEN at'[t] \in 1..Len(job'[t]) ELSE at'[t] = 0
    BY <2>1, <2>2, Zenon
  <2> QED
    BY <2>3, <2>4, <2>5 DEF RouteJobs
<1>6. CASE UNCHANGED routeVars
  BY <1>6 DEF routeVars, RouteJobs, Busy
<1> QED
  BY <1>1, <1>2, <1>3, <1>4, <1>5, <1>6 DEF RouteNext, Command

(* Every variable keeps its type, and a goroutine is at a command of its   *)
(* program exactly while it has one.                                       *)
THEOREM RouteTypeCorrect == RouteSpec => []RouteTypeOK
<1>1. RouteInit => RouteTypeOK
  BY RoutesConstants DEF RoutesConstants, RouteInit, RouteTypeOK, Busy
<1>2. RouteTypeOK /\ [RouteNext]_routeVars => RouteTypeOK'
  BY RouteTypeParts, KernelStep, RouteJobsStep, RouteHistoryStep, PTL
<1> QED
  BY <1>1, <1>2, PTL DEF RouteSpec

-----------------------------------------------------------------------------
(* The goroutines about to add a rule, by their place.                     *)
AddersAt == \A f \in Families : Adders(f) = {t \in Goroutines : Place(t, Apply, RuleAdd(f))}

LEMMA AddersPlaced == RouteTypeOK => AddersAt
BY Placed DEF Adders, AddersAt

LEMMA Places ==
  \A f \in Families :
    /\ RouteAdd(f) \in 1..2 /\ ApplyDel(f) \in {3, 5} /\ RuleAdd(f) \in {4, 6}
    /\ CleanupDel(f) \in 1..2 /\ RouteDel(f) \in 3..4
    /\ RuleAdd(f) = ApplyDel(f) + 1
    /\ \A g \in Families : ApplyDel(f) = ApplyDel(g) => f = g
<1> SUFFICES ASSUME NEW f \in Families
             PROVE  /\ RouteAdd(f) \in 1..2 /\ ApplyDel(f) \in {3, 5} /\ RuleAdd(f) \in {4, 6}
                    /\ CleanupDel(f) \in 1..2 /\ RouteDel(f) \in 3..4
                    /\ RuleAdd(f) = ApplyDel(f) + 1
                    /\ \A g \in Families : ApplyDel(f) = ApplyDel(g) => f = g
  OBVIOUS
<1>1. (f = "-4" \/ f = "-6") /\ \A g \in Families : g = "-4" \/ g = "-6"
  BY DEF Families
<1> QED
  BY <1>1 DEF RouteAdd, ApplyDel, RuleAdd, CleanupDel, RouteDel

(* A goroutine that goes on is about to add a rule only when the command   *)
(* it leaves is the deletion before it.                                    *)
LEMMA Moves ==
  ASSUME RouteTypeOK, RouteTypeOK', NEW t \in Goroutines, NEW f \in Families,
         \/ \E o : Ended(t, o)
         \/ Advanced(t) /\ ~Place(t, Apply, ApplyDel(f))
  PROVE  Adders(f)' \subseteq Adders(f) \ {t}
<1>1. AddersAt /\ AddersAt'
  BY AddersPlaced, PTL
<1>2. /\ Adders(f) = {u \in Goroutines : Place(u, Apply, RuleAdd(f))}
      /\ Adders(f)' = {u \in Goroutines : Place(u, Apply, RuleAdd(f))'}
  BY <1>1 DEF AddersAt
<1>3. \A u \in Goroutines : u # t => (Place(u, Apply, RuleAdd(f))' <=> Place(u, Apply, RuleAdd(f)))
  BY DEF Ended, Advanced, OtherJobs, Place
<1>4. ~Place(t, Apply, RuleAdd(f))'
  <2>1. CASE \E o : Ended(t, o)
    BY <2>1, ProgramsDiffer DEF Ended, Place
  <2>2. CASE Advanced(t) /\ ~Place(t, Apply, ApplyDel(f))
    <3>1. at[t] \in 0..6
      BY DEF RouteTypeOK
    <3>2. at[t] + 1 = RuleAdd(f) => at[t] = ApplyDel(f)
      BY <3>1, Places
    <3> QED
      BY <2>2, <3>2 DEF Advanced, Place
  <2> QED
    BY <2>1, <2>2
<1> QED
  BY <1>2, <1>3, <1>4, Zenon

(* What a step does to the rules of a family and to those about to add     *)
(* one.                                                                    *)
Shift(f) ==
  \/ rules'[f] <= rules[f] /\ Adders(f)' \subseteq Adders(f)
  \/ rules'[f] = 0 /\ Adders(f)' \subseteq Goroutines
  \/ \E t \in Adders(f) : rules'[f] = rules[f] + 1 /\ Adders(f)' \subseteq Adders(f) \ {t}

LEMMA Shifts ==
  ASSUME RouteTypeOK, RouteTypeOK', [RouteNext]_routeVars, NEW f \in Families
  PROVE  Shift(f)
<1>0. rules[f] \in Nat /\ rules'[f] \in Nat
  BY DEF RouteTypeOK
<1>1. ASSUME NEW t \in Goroutines, NEW g \in Families, AddRoute(t, g)
      PROVE  Shift(f)
  <2>1. Proceed(t) /\ rules' = rules /\ Place(t, Apply, RouteAdd(g))
    BY <1>1, Placed DEF AddRoute
  <2>2. ~Place(t, Apply, ApplyDel(f))
    BY <2>1, Places DEF Place
  <2>3. Adders(f)' \subseteq Adders(f) \ {t}
    BY <2>1, <2>2, Proceeds, Moves
  <2> QED
    BY <1>0, <2>1, <2>3 DEF Shift
<1>2. ASSUME NEW t \in Goroutines, NEW g \in Families, DeleteRoute(t, g)
      PROVE  Shift(f)
  <2>1. Proceed(t) /\ rules' = rules /\ Place(t, Cleanup, RouteDel(g))
    BY <1>2, Placed DEF DeleteRoute
  <2>2. ~Place(t, Apply, ApplyDel(f))
    BY <2>1, ProgramsDiffer DEF Place
  <2>3. Adders(f)' \subseteq Adders(f) \ {t}
    BY <2>1, <2>2, Proceeds, Moves
  <2> QED
    BY <1>0, <2>1, <2>3 DEF Shift
<1>3. ASSUME NEW t \in Goroutines, NEW g \in Families, AddRule(t, g)
      PROVE  Shift(f)
  <2>1. Proceed(t) /\ Place(t, Apply, RuleAdd(g)) /\ t \in Adders(g)
    BY <1>3, Placed DEF AddRule, Adders
  <2>2. ~Place(t, Apply, ApplyDel(f))
    BY <2>1, Places DEF Place
  <2>3. Adders(f)' \subseteq Adders(f) \ {t}
    BY <2>1, <2>2, Proceeds, Moves
  <2>4. CASE f = g
    <3>1. rules'[f] = rules[f] + 1 \/ rules'[f] = rules[f]
      BY <1>3, <2>4 DEF AddRule, RouteTypeOK
    <3> QED
      BY <1>0, <2>1, <2>3, <2>4, <3>1 DEF Shift
  <2>5. CASE f # g
    <3>1. rules'[f] = rules[f]
      BY <1>3, <2>5 DEF AddRule, RouteTypeOK
    <3> QED
      BY <1>0, <2>3, <3>1 DEF Shift
  <2> QED
    BY <2>4, <2>5
<1>4. ASSUME NEW t \in Goroutines, NEW g \in Families, DeleteRule(t, g)
      PROVE  Shift(f)
  <2>1. rules'[f] <= rules[f]
    <3>1. rules' = rules \/ (rules[g] > 0 /\ rules' = [rules EXCEPT ![g] = @ - 1])
      BY <1>4 DEF DeleteRule
    <3>2. rules \in [Families -> Nat]
      BY DEF RouteTypeOK
    <3> QED
      BY <3>1, <3>2
  <2>2. CASE rules[g] = 0 /\ Proceed(t) /\ UNCHANGED rules
    <3>1. CASE f = g
      <4>1. rules'[f] = 0 /\ Adders(f)' \subseteq Goroutines
        BY <2>2, <3>1 DEF Adders
      <4> QED
        BY <4>1 DEF Shift
    <3>2. CASE f # g
      <4>1. ~Place(t, Apply, ApplyDel(f))
        <5>1. \/ Place(t, Apply, ApplyDel(g))
              \/ Place(t, Cleanup, CleanupDel(g))
          BY <1>4, Placed DEF DeleteRule
        <5> QED
          BY <3>2, <5>1, Places, ProgramsDiffer DEF Place
      <4>2. Adders(f)' \subseteq Adders(f) \ {t}
        BY <2>2, <4>1, Proceeds, Moves
      <4> QED
        BY <2>1, <4>2 DEF Shift
    <3> QED
      BY <3>1, <3>2
  <2>3. CASE End(t, "too many")
    <3>1. Adders(f)' \subseteq Adders(f) \ {t}
      BY <2>3, Ends, Moves
    <3> QED
      BY <2>1, <3>1 DEF Shift
  <2>4. CASE UNCHANGED <<job, at, alone, result>>
    <3>1. Adders(f)' = Adders(f)
      BY <2>4 DEF Adders, At, Busy
    <3> QED
      BY <2>1, <3>1 DEF Shift
  <2> QED
    BY <1>4, <2>2, <2>3, <2>4 DEF DeleteRule
<1>5. ASSUME NEW t \in Goroutines, Fail(t)
      PROVE  Shift(f)
  <2>1. rules' = rules /\ Adders(f)' \subseteq Adders(f) \ {t}
    BY <1>5, Ends, Moves DEF Fail
  <2> QED
    BY <1>0, <2>1 DEF Shift
<1>6. ASSUME NEW t \in Goroutines, NEW p \in Programs, Begin(t, p)
      PROVE  Shift(f)
  <2>1. AddersAt /\ AddersAt'
    BY AddersPlaced, PTL
  <2>2. /\ Adders(f) = {u \in Goroutines : Place(u, Apply, RuleAdd(f))}
        /\ Adders(f)' = {u \in Goroutines : Place(u, Apply, RuleAdd(f))'}
    BY <2>1 DEF AddersAt
  <2>3. at'[t] = 1 /\ \A u \in Goroutines : u # t => job'[u] = job[u] /\ at'[u] = at[u]
    BY <1>6 DEF Begin, RouteTypeOK
  <2>4. RuleAdd(f) # 1
    BY Places
  <2>5. rules' = rules
    BY <1>6 DEF Begin
  <2>6. Adders(f)' \subseteq Adders(f)
    BY <2>2, <2>3, <2>4 DEF Place
  <2> QED
    BY <1>0, <2>5, <2>6 DEF Shift
<1>7. CASE RouteCrash
  <2>1. rules' = rules /\ \A t \in Goroutines : job'[t] = <<>>
    BY <1>7 DEF RouteCrash
  <2>2. Adders(f)' = {}
    BY <2>1 DEF Adders, At, Busy
  <2> QED
    BY <1>0, <2>1, <2>2 DEF Shift
<1>8. CASE UNCHANGED routeVars
  <2>1. rules' = rules /\ Adders(f)' = Adders(f)
    BY <1>8 DEF routeVars, Adders, At, Busy
  <2> QED
    BY <1>0, <2>1 DEF Shift
<1> QED
  BY <1>1, <1>2, <1>3, <1>4, <1>5, <1>6, <1>7, <1>8 DEF RouteNext, Command

LEMMA FewStep ==
  ASSUME RouteTypeOK, RouteTypeOK', [RouteNext]_routeVars, FewDuplicates
  PROVE  FewDuplicates'
<1> SUFFICES ASSUME NEW f \in Families
             PROVE  rules'[f] + Cardinality(Adders(f)') <= Cardinality(Goroutines)
  BY DEF FewDuplicates
<1> DEFINE n == rules[f]  m == rules'[f]  A == Adders(f)  B == Adders(f)'  G == Goroutines
<1>1. n \in Nat /\ m \in Nat
  BY DEF RouteTypeOK
<1>2. Shift(f)
  BY Shifts
<1>3. IsFiniteSet(G) /\ A \subseteq G
  BY RoutesConstants DEF RoutesConstants, Adders
<1>4. IsFiniteSet(A) /\ Cardinality(A) \in Nat /\ Cardinality(G) \in Nat
  BY <1>3, FS_Subset, FS_CardinalityType
<1>5. n + Cardinality(A) <= Cardinality(G)
  BY DEF FewDuplicates
<1>6. CASE m <= n /\ B \subseteq A
  <2>1. Cardinality(B) <= Cardinality(A) /\ Cardinality(B) \in Nat
    BY <1>4, <1>6, FS_Subset, FS_CardinalityType
  <2> HIDE DEF n, m, A, B, G
  <2> QED
    BY <1>1, <1>4, <1>5, <1>6, <2>1 DEF m, B, G
<1>7. CASE m = 0 /\ B \subseteq G
  <2>1. Cardinality(B) <= Cardinality(G) /\ Cardinality(B) \in Nat
    BY <1>3, <1>7, FS_Subset, FS_CardinalityType
  <2> HIDE DEF n, m, A, B, G
  <2> QED
    BY <1>4, <1>7, <2>1 DEF m, B, G
<1>8. ASSUME NEW t \in A, m = n + 1, B \subseteq A \ {t}
      PROVE  rules'[f] + Cardinality(Adders(f)') <= Cardinality(Goroutines)
  <2>1. IsFiniteSet(A \ {t}) /\ Cardinality(A \ {t}) = Cardinality(A) - 1
    BY <1>4, FS_RemoveElement
  <2>2. Cardinality(B) <= Cardinality(A \ {t}) /\ Cardinality(B) \in Nat
    BY <1>8, <2>1, FS_Subset, FS_CardinalityType
  <2> HIDE DEF n, m, A, B, G
  <2> QED
    BY <1>1, <1>4, <1>5, <1>8, <2>1, <2>2 DEF m, B, G
<1> QED
  BY <1>2, <1>6, <1>7, <1>8 DEF Shift

RouteInv == RouteTypeOK /\ FewDuplicates

LEMMA RouteInvariant == RouteSpec => []RouteInv
<1>1. RouteInit => RouteInv
  <2> SUFFICES ASSUME RouteInit
               PROVE  RouteInv
    OBVIOUS
  <2>1. RouteTypeOK
    BY RoutesConstants DEF RoutesConstants, RouteInit, RouteTypeOK, Busy
  <2>2. Cardinality(Goroutines) \in Nat
    BY RoutesConstants, FS_CardinalityType DEF RoutesConstants
  <2>3. \A f \in Families : Adders(f) = {} /\ rules[f] = 0
    BY DEF RouteInit, Adders, At, Busy
  <2>4. FewDuplicates
    BY <2>2, <2>3, FS_EmptySet DEF FewDuplicates
  <2> QED
    BY <2>1, <2>4 DEF RouteInv
<1>2. RouteInv /\ RouteTypeOK' /\ [RouteNext]_routeVars => RouteInv'
  BY FewStep DEF RouteInv
<1> QED
  BY <1>1, <1>2, RouteTypeCorrect, PTL DEF RouteSpec

(* However many goroutines run the two operations, and however these fail, *)
(* overlap or are cut off, there are never more copies of the fwmark rule  *)
(* than goroutines.                                                        *)
THEOREM CopiesBounded == RouteSpec => []FewDuplicates
BY RouteInvariant, PTL DEF RouteInv

-----------------------------------------------------------------------------
(* What an operation that runs alone has done to family f, at its command  *)
(* i: r is the route and n the copies of the rule.                         *)
Applied(i, f, r, n) ==
  /\ i > RouteAdd(f) => r
  /\ i = RuleAdd(f) => n = 0
  /\ i > RuleAdd(f) => n = 1

Cleaned(i, f, r, n) ==
  /\ i > CleanupDel(f) => n = 0
  /\ i > RouteDel(f) => ~r

(* The deletions that are left to do and those done stay within bounds.    *)
Left(t, f) == At(t, "rule del", f) => rules[f] + tries[t] <= Cardinality(Goroutines)

Mending(t, f) ==
  /\ job[t] = Apply => Applied(at[t], f, route[f], rules[f])
  /\ job[t] = Cleanup => Cleaned(at[t], f, route[f], rules[f])
  /\ Left(t, f)

Undisturbed ==
  \A t \in Busy : alone[t] => Busy = {t} /\ \A f \in Families : Mending(t, f)

LEMMA StepAlone ==
  ASSUME RouteTypeOK, Undisturbed, NEW t \in Busy, OtherJobs(t), alone' = alone,
         (t \in Busy' /\ alone[t] /\ Busy = {t}) => \A f \in Families : Mending(t, f)'
  PROVE  Undisturbed'
<1> SUFFICES ASSUME NEW u \in Busy', alone'[u]
             PROVE  Busy' = {u} /\ \A f \in Families : Mending(u, f)'
  BY DEF Undisturbed
<1>1. u \in Busy
  BY DEF OtherJobs, Busy
<1>2. Busy = {u} /\ u = t
  BY <1>1 DEF Undisturbed
<1>3. Busy' = {u}
  BY <1>2 DEF OtherJobs, Busy
<1> QED
  BY <1>1, <1>2, <1>3

(* The order of the commands, and which of them are for one family.        *)
LEMMA Order ==
  ASSUME NEW f \in Families, NEW g \in Families
  PROVE  /\ RouteAdd(g) + 1 > RouteAdd(f) => f = g \/ RouteAdd(g) > RouteAdd(f)
         /\ RouteAdd(g) + 1 # RuleAdd(f) /\ ~(RouteAdd(g) + 1 > RuleAdd(f))
         /\ RouteDel(g) + 1 > RouteDel(f) => f = g \/ RouteDel(g) > RouteDel(f)
         /\ RouteDel(g) > CleanupDel(f)
         /\ RuleAdd(g) > RouteAdd(f) /\ RuleAdd(g) + 1 # RuleAdd(f)
         /\ RuleAdd(g) + 1 > RuleAdd(f) => f = g \/ RuleAdd(g) > RuleAdd(f)
         /\ ApplyDel(g) > RouteAdd(f) /\ ApplyDel(g) # RuleAdd(f)
         /\ ApplyDel(g) + 1 = RuleAdd(f) => f = g
         /\ ApplyDel(g) + 1 > RuleAdd(f) => f # g /\ ApplyDel(g) > RuleAdd(f)
         /\ ApplyDel(g) > RuleAdd(f) => f # g
         /\ CleanupDel(g) + 1 > CleanupDel(f) => f = g \/ CleanupDel(g) > CleanupDel(f)
         /\ CleanupDel(g) > CleanupDel(f) => f # g
         /\ ~(CleanupDel(g) + 1 > RouteDel(f)) /\ ~(CleanupDel(g) > RouteDel(f))
         /\ ApplyDel(f) = ApplyDel(g) => f = g
         /\ CleanupDel(f) = CleanupDel(g) => f = g
<1>1. (f = "-4" \/ f = "-6") /\ (g = "-4" \/ g = "-6")
  BY DEF Families
<1> USE DEF RouteAdd, ApplyDel, RuleAdd, CleanupDel, RouteDel
<1>2. CASE f = "-4" /\ g = "-4"  BY <1>2
<1>3. CASE f = "-4" /\ g = "-6"  BY <1>3
<1>4. CASE f = "-6" /\ g = "-4"  BY <1>4
<1>5. CASE f = "-6" /\ g = "-6"  BY <1>5
<1> QED
  BY <1>1, <1>2, <1>3, <1>4, <1>5

LEMMA LeftStart ==
  ASSUME NEW t, NEW f, tries'[t] = 0, rules'[f] \in Nat, rules'[f] <= Cardinality(Goroutines)
  PROVE  Left(t, f)'
<1>1. rules'[f] + tries'[t] <= Cardinality(Goroutines)
  OBVIOUS
<1> QED
  BY <1>1 DEF Left

(* Every kind of step, by what it leaves of an operation that runs alone.  *)
LEMMA UndisturbedStep ==
  ASSUME RouteTypeOK, RouteTypeOK', FewDuplicates', [RouteNext]_routeVars, Undisturbed
  PROVE  Undisturbed'
<1>0. PlacesRight /\ PlacesRight'
  BY PlacedRight, PTL
<1>a. Cardinality(Goroutines) \in Nat
  BY RoutesConstants, FS_CardinalityType DEF RoutesConstants
<1>b. \A t \in Goroutines : at[t] \in 0..6 /\ at'[t] \in 0..6 /\ tries[t] \in Nat /\ tries'[t] \in Nat
  <2>1. \A n \in 0..(MaxDeletes - 1) : n \in Nat
    OBVIOUS
  <2> QED
    BY <2>1 DEF RouteTypeOK
<1>c. \A f \in Families : rules[f] \in Nat /\ rules'[f] \in Nat /\ route[f] \in BOOLEAN
                          /\ route'[f] \in BOOLEAN
  BY DEF RouteTypeOK
<1>d. \A f \in Families : rules'[f] <= Cardinality(Goroutines)
  <2> SUFFICES ASSUME NEW f \in Families
               PROVE  rules'[f] <= Cardinality(Goroutines)
    OBVIOUS
  <2>1. IsFiniteSet(Adders(f)')
    BY RoutesConstants, FS_Subset DEF RoutesConstants, Adders
  <2>2. Cardinality(Adders(f)') \in Nat
    BY <2>1, FS_CardinalityType
  <2>3. rules'[f] + Cardinality(Adders(f)') <= Cardinality(Goroutines)
    BY DEF FewDuplicates
  <2> QED
    BY <1>a, <1>c, <2>2, <2>3
<1>1. ASSUME NEW t \in Goroutines, NEW g \in Families, AddRoute(t, g)
      PROVE  Undisturbed'
  <2>1. t \in Busy /\ Place(t, Apply, RouteAdd(g)) /\ rules' = rules
        /\ route' = [route EXCEPT ![g] = TRUE]
    BY <1>1, Placed DEF AddRoute, At
  <2>2. \/ \E o : Ended(t, o)
        \/ Advanced(t)
    BY <1>1, Proceeds DEF AddRoute
  <2>3. OtherJobs(t) /\ alone' = alone
    BY <2>2 DEF Ended, Advanced
  <2>4. ASSUME t \in Busy', alone[t], NEW f \in Families, Busy = {t}
        PROVE  Mending(t, f)'
    <3>1. job'[t] = Apply /\ at'[t] = RouteAdd(g) + 1 /\ tries'[t] = 0
      BY <2>1, <2>2, <2>4 DEF Ended, Advanced, Place, Busy
    <3>2. Applied(RouteAdd(g), f, route[f], rules[f])
      BY <2>1, <2>4 DEF Undisturbed, Mending, Place
    <3>3. (f = g => route'[f]) /\ (f # g => (route'[f] <=> route[f]))
      BY <1>c, <2>1 DEF RouteTypeOK
    <3>4. Applied(RouteAdd(g) + 1, f, route'[f], rules'[f])
      BY <2>1, <3>2, <3>3, Order DEF Applied
    <3>5. Left(t, f)'
      BY <1>c, <1>d, <3>1, LeftStart
    <3> QED
      BY <3>1, <3>4, <3>5, ProgramsDiffer DEF Mending
  <2> QED
    BY <2>1, <2>3, <2>4, StepAlone
<1>2. ASSUME NEW t \in Goroutines, NEW g \in Families, DeleteRoute(t, g)
      PROVE  Undisturbed'
  <2>1. t \in Busy /\ Place(t, Cleanup, RouteDel(g)) /\ rules' = rules
        /\ route' = [route EXCEPT ![g] = FALSE]
    BY <1>2, Placed DEF DeleteRoute, At
  <2>2. \/ \E o : Ended(t, o)
        \/ Advanced(t)
    BY <1>2, Proceeds DEF DeleteRoute
  <2>3. OtherJobs(t) /\ alone' = alone
    BY <2>2 DEF Ended, Advanced
  <2>4. ASSUME t \in Busy', alone[t], NEW f \in Families, Busy = {t}
        PROVE  Mending(t, f)'
    <3>1. job'[t] = Cleanup /\ at'[t] = RouteDel(g) + 1 /\ tries'[t] = 0
      BY <2>1, <2>2, <2>4 DEF Ended, Advanced, Place, Busy
    <3>2. Cleaned(RouteDel(g), f, route[f], rules[f])
      BY <2>1, <2>4 DEF Undisturbed, Mending, Place
    <3>3. (f = g => ~route'[f]) /\ (f # g => (route'[f] <=> route[f]))
      BY <1>c, <2>1 DEF RouteTypeOK
    <3>4. Cleaned(RouteDel(g) + 1, f, route'[f], rules'[f])
      BY <2>1, <3>2, <3>3, Order DEF Cleaned
    <3>5. Left(t, f)'
      BY <1>c, <1>d, <3>1, LeftStart
    <3> QED
      BY <3>1, <3>4, <3>5, ProgramsDiffer DEF Mending
  <2> QED
    BY <2>1, <2>3, <2>4, StepAlone
<1>3. ASSUME NEW t \in Goroutines, NEW g \in Families, AddRule(t, g)
      PROVE  Undisturbed'
  <2>1. /\ t \in Busy /\ Place(t, Apply, RuleAdd(g)) /\ route' = route
        /\ \/ rules' = [rules EXCEPT ![g] = @ + 1]
           \/ rules[g] > 0 /\ rules' = rules
    BY <1>3, Placed DEF AddRule, At
  <2>2. \/ \E o : Ended(t, o)
        \/ Advanced(t)
    BY <1>3, Proceeds DEF AddRule
  <2>3. OtherJobs(t) /\ alone' = alone
    BY <2>2 DEF Ended, Advanced
  <2>4. ASSUME t \in Busy', alone[t], NEW f \in Families, Busy = {t}
        PROVE  Mending(t, f)'
    <3>1. job'[t] = Apply /\ at'[t] = RuleAdd(g) + 1 /\ tries'[t] = 0
      BY <2>1, <2>2, <2>4 DEF Ended, Advanced, Place, Busy
    <3>2. /\ Applied(RuleAdd(g), f, route[f], rules[f])
          /\ Applied(RuleAdd(g), g, route[g], rules[g])
      BY <2>1, <2>4 DEF Undisturbed, Mending, Place
    <3>3. /\ rules'[g] = 1 /\ (f # g => rules'[f] = rules[f])
          /\ route'[f] = route[f]
      <4>1. rules[g] = 0 /\ rules \in [Families -> Nat]
        BY <3>2 DEF Applied, RouteTypeOK
      <4>2. rules' = [rules EXCEPT ![g] = @ + 1] /\ route' = route
        BY <2>1, <4>1
      <4> QED
        BY <4>1, <4>2
    <3>4. Applied(RuleAdd(g) + 1, f, route'[f], rules'[f])
      BY <3>2, <3>3, Order DEF Applied
    <3>5. Left(t, f)'
      BY <1>c, <1>d, <3>1, LeftStart
    <3> QED
      BY <3>1, <3>4, <3>5, ProgramsDiffer DEF Mending
  <2> QED
    BY <2>1, <2>3, <2>4, StepAlone
<1>4. ASSUME NEW t \in Goroutines, NEW g \in Families, DeleteRule(t, g)
      PROVE  Undisturbed'
  <2>1. /\ t \in Busy /\ At(t, "rule del", g) /\ route' = route
        /\ \/ Place(t, Apply, ApplyDel(g))
           \/ Place(t, Cleanup, CleanupDel(g))
    BY <1>4, Placed DEF DeleteRule, At
  <2>2. CASE rules[g] = 0 /\ Proceed(t) /\ rules' = rules
    <3>1. \/ \E o : Ended(t, o)
          \/ Advanced(t)
      BY <2>2, Proceeds
    <3>2. OtherJobs(t) /\ alone' = alone
      BY <3>1 DEF Ended, Advanced
    <3>3. ASSUME t \in Busy', alone[t], NEW f \in Families, Busy = {t}
          PROVE  Mending(t, f)'
      <4>1. job'[t] = job[t] /\ at'[t] = at[t] + 1 /\ tries'[t] = 0
        BY <3>1, <3>3 DEF Ended, Advanced, Busy
      <4>2. Left(t, f)'
        BY <1>c, <1>d, <4>1, LeftStart
      <4>3. Mending(t, f)
        BY <2>1, <3>3 DEF Undisturbed
      <4>4. CASE Place(t, Apply, ApplyDel(g))
        <5>1. Applied(ApplyDel(g), f, route[f], rules[f])
          BY <4>3, <4>4 DEF Mending, Place
        <5>2. Applied(ApplyDel(g) + 1, f, route'[f], rules'[f])
          BY <2>1, <2>2, <5>1, Order DEF Applied
        <5> QED
          BY <4>1, <4>2, <4>4, <5>2, ProgramsDiffer DEF Mending, Place
      <4>5. CASE Place(t, Cleanup, CleanupDel(g))
        <5>1. Cleaned(CleanupDel(g), f, route[f], rules[f])
          BY <4>3, <4>5 DEF Mending, Place
        <5>2. Cleaned(CleanupDel(g) + 1, f, route'[f], rules'[f])
          BY <2>1, <2>2, <5>1, Order DEF Cleaned
        <5> QED
          BY <4>1, <4>2, <4>5, <5>2, ProgramsDiffer DEF Mending, Place
      <4> QED
        BY <2>1, <4>4, <4>5
    <3> QED
      BY <2>1, <3>2, <3>3, StepAlone
  <2>3. CASE End(t, "too many")
    <3>1. OtherJobs(t) /\ alone' = alone /\ t \notin Busy'
      BY <2>3, Ends DEF Ended, Busy
    <3> QED
      BY <2>1, <3>1, StepAlone
  <2>4. CASE /\ rules[g] > 0 /\ rules' = [rules EXCEPT ![g] = @ - 1]
             /\ tries' = [tries EXCEPT ![t] = @ + 1]
             /\ UNCHANGED <<job, at, alone, result>>
    <3>1. OtherJobs(t) /\ alone' = alone
      BY <2>4 DEF OtherJobs, RouteTypeOK
    <3>2. ASSUME t \in Busy', alone[t], NEW f \in Families, Busy = {t}
          PROVE  Mending(t, f)'
      <4>1. job'[t] = job[t] /\ at'[t] = at[t] /\ tries'[t] = tries[t] + 1
        BY <2>4 DEF RouteTypeOK
      <4>2. Mending(t, f) /\ Mending(t, g)
        BY <2>1, <3>2 DEF Undisturbed
      <4>3. rules'[g] = rules[g] - 1 /\ (f # g => rules'[f] = rules[f])
        BY <2>4 DEF RouteTypeOK
      <4>4. Left(t, f)'
        <5>1. CASE f = g
          <6>1. rules[g] + tries[t] <= Cardinality(Goroutines)
            BY <2>1, <4>2 DEF Mending, Left
          <6>2. rules'[f] + tries'[t] <= Cardinality(Goroutines)
            BY <1>a, <1>b, <1>c, <4>1, <4>3, <5>1, <6>1
          <6> QED
            BY <6>2 DEF Left
        <5>2. CASE f # g
          <6>1. \/ Place(t, Apply, ApplyDel(f))'
                \/ Place(t, Cleanup, CleanupDel(f))'
                \/ ~At(t, "rule del", f)'
            BY <1>0 DEF PlacesRight
          <6>2. ~Place(t, Apply, ApplyDel(f))' /\ ~Place(t, Cleanup, CleanupDel(f))'
            BY <2>1, <4>1, <5>2, ProgramsDiffer, Order DEF Place
          <6> QED
            BY <6>1, <6>2 DEF Left
        <5> QED
          BY <5>1, <5>2
      <4>5. CASE Place(t, Apply, ApplyDel(g))
        <5>1. Applied(ApplyDel(g), f, route[f], rules[f])
          BY <4>2, <4>5 DEF Mending, Place
        <5>2. Applied(ApplyDel(g), f, route'[f], rules'[f])
          BY <2>1, <4>3, <5>1, Order DEF Applied
        <5> QED
          BY <4>1, <4>4, <4>5, <5>2, ProgramsDiffer DEF Mending, Place
      <4>6. CASE Place(t, Cleanup, CleanupDel(g))
        <5>1. Cleaned(CleanupDel(g), f, route[f], rules[f])
          BY <4>2, <4>6 DEF Mending, Place
        <5>2. Cleaned(CleanupDel(g), f, route'[f], rules'[f])
          BY <2>1, <4>3, <5>1, Order DEF Cleaned
        <5> QED
          BY <4>1, <4>4, <4>6, <5>2, ProgramsDiffer DEF Mending, Place
      <4> QED
        BY <2>1, <4>5, <4>6
    <3> QED
      BY <2>1, <3>1, <3>2, StepAlone
  <2> QED
    BY <1>4, <2>2, <2>3, <2>4 DEF DeleteRule
<1>5. ASSUME NEW t \in Goroutines, Fail(t)
      PROVE  Undisturbed'
  <2>1. t \in Busy /\ OtherJobs(t) /\ alone' = alone /\ t \notin Busy'
    BY <1>5, Ends DEF Fail, Ended, Busy
  <2> QED
    BY <2>1, StepAlone
<1>6. ASSUME NEW t \in Goroutines, NEW p \in Programs, Begin(t, p)
      PROVE  Undisturbed'
  <2>1. /\ job'[t] = p /\ at'[t] = 1 /\ tries'[t] = 0 /\ t \notin Busy
        /\ \A u \in Goroutines : u # t => job'[u] = job[u]
        /\ alone'[t] = (Busy = {})
        /\ \A u \in Goroutines : u # t /\ alone'[u] => u \notin Busy
    BY <1>6 DEF Begin, RouteTypeOK
  <2> SUFFICES ASSUME NEW u \in Busy', alone'[u]
               PROVE  Busy' = {u} /\ \A f \in Families : Mending(u, f)'
    BY DEF Undisturbed
  <2>2. u = t /\ Busy = {}
    BY <2>1 DEF Busy
  <2>3. Busy' = {t}
    BY <2>1, <2>2 DEF Busy
  <2>4. ASSUME NEW f \in Families
        PROVE  Mending(t, f)'
    <3>1. Left(t, f)'
      BY <1>c, <1>d, <2>1, LeftStart
    <3>2. Applied(1, f, route'[f], rules'[f]) /\ Cleaned(1, f, route'[f], rules'[f])
      BY Places DEF Applied, Cleaned
    <3> QED
      BY <2>1, <3>1, <3>2 DEF Mending
  <2> QED
    BY <2>2, <2>3, <2>4
<1>7. CASE RouteCrash
  <2>1. \A t \in Goroutines : job'[t] = <<>>
    BY <1>7 DEF RouteCrash
  <2> QED
    BY <2>1 DEF Undisturbed, Busy
<1>8. CASE UNCHANGED routeVars
  BY <1>8 DEF routeVars, Undisturbed, Mending, Left, At, Busy
<1> QED
  BY <1>1, <1>2, <1>3, <1>4, <1>5, <1>6, <1>7, <1>8 DEF RouteNext, Command

-----------------------------------------------------------------------------
(* A step that takes a goroutine's work away from it is its own, and by    *)
(* its outcome it is the last command, a loop that gave up, a failure or   *)
(* the crash.                                                              *)
Finishing(t) ==
  \/ \E f \in Families : Command(t, f) /\ at[t] = Len(job[t]) /\ Ended(t, "ok")
  \/ \E f \in Families : /\ At(t, "rule del", f) /\ rules[f] > 0 /\ tries[t] + 1 = MaxDeletes
                         /\ Ended(t, "too many")
  \/ result'[t] \in {"failed", "cut off"}

LEMMA Finishes ==
  ASSUME RouteTypeOK, [RouteNext]_routeVars, NEW t \in Busy, t \notin Busy'
  PROVE  Finishing(t)
<1>0. t \in Goroutines
  BY DEF Busy
<1>1. \A u \in Goroutines : OtherJobs(u) => u = t
  BY <1>0 DEF OtherJobs, Busy
<1>2. ASSUME NEW u \in Goroutines, NEW f \in Families, Proceed(u), Command(u, f)
      PROVE  Finishing(t)
  <2>1. OtherJobs(u)
    BY <1>2, Proceeds DEF Ended, Advanced
  <2>2. u = t
    BY <1>1, <2>1
  <2>3. at[t] = Len(job[t]) /\ Ended(t, "ok")
    BY <1>0, <1>2, <2>2, Proceeds DEF Advanced, Busy
  <2> QED
    BY <1>2, <2>2, <2>3 DEF Finishing
<1>3. ASSUME NEW u \in Goroutines, NEW f \in Families, Command(u, f)
      PROVE  Finishing(t)
  <2>1. CASE Proceed(u)
    BY <1>2, <1>3, <2>1
  <2>2. CASE ~Proceed(u)
    <3>1. DeleteRule(u, f)
      BY <1>3, <2>2 DEF Command, AddRoute, DeleteRoute, AddRule
    <3>2. CASE UNCHANGED <<job, at, alone, result>>
      BY <1>0, <3>2 DEF Busy
    <3>3. CASE /\ At(u, "rule del", f) /\ rules[f] > 0 /\ tries[u] + 1 = MaxDeletes
               /\ End(u, "too many")
      <4>1. Ended(u, "too many")
        BY <3>3, Ends
      <4>2. u = t
        BY <1>1, <4>1 DEF Ended
      <4> QED
        BY <3>3, <4>1, <4>2 DEF Finishing
    <3> QED
      BY <2>2, <3>1, <3>2, <3>3 DEF DeleteRule
  <2> QED
    BY <2>1, <2>2
<1>4. ASSUME NEW u \in Goroutines, Fail(u)
      PROVE  Finishing(t)
  <2>1. Ended(u, "failed")
    BY <1>4, Ends DEF Fail
  <2> QED
    BY <1>1, <2>1 DEF Ended, Finishing
<1>5. ASSUME NEW u \in Goroutines, NEW p \in Programs, Begin(u, p)
      PROVE  Finishing(t)
  <2>1. u # t /\ job'[t] = job[t]
    BY <1>0, <1>5 DEF Begin, RouteTypeOK
  <2> QED
    BY <1>0, <2>1 DEF Busy
<1>6. CASE RouteCrash
  BY <1>0, <1>6 DEF RouteCrash, Finishing
<1>7. CASE UNCHANGED routeVars
  BY <1>0, <1>7 DEF routeVars, Busy
<1> QED
  BY <1>3, <1>4, <1>5, <1>6, <1>7 DEF RouteNext

(* What Heals says of one goroutine in one step.                           *)
Healed(t) ==
  t \in Busy /\ t \notin Busy' /\ result'[t] = "ok" /\ alone[t] =>
    LET there == job[t] = Apply
    IN /\ rules' = [f \in Families |-> IF there THEN 1 ELSE 0]
       /\ route' = [f \in Families |-> there]

LEMMA LastCommands ==
  \A f \in Families :
    /\ 6 > RouteAdd(f) /\ 4 > CleanupDel(f)
    /\ RouteAdd(f) # 6 /\ ApplyDel(f) # 6 /\ CleanupDel(f) # 4
    /\ RuleAdd(f) = 6 <=> f = "-6"
    /\ RouteDel(f) = 4 <=> f = "-6"
    /\ f # "-6" => 6 > RuleAdd(f) /\ 4 > RouteDel(f)
BY DEF Families, RouteAdd, ApplyDel, RuleAdd, CleanupDel, RouteDel

(* What the last command of a program may be.                              *)
LEMMA AtTheEnd ==
  ASSUME RouteTypeOK, NEW t \in Goroutines, NEW g \in Families
  PROVE  /\ job[t] = Apply /\ at[t] = 6 =>
              /\ ~At(t, "route add", g) /\ ~At(t, "rule del", g) /\ ~At(t, "route del", g)
              /\ At(t, "rule add", g) => g = "-6"
         /\ job[t] = Cleanup /\ at[t] = 4 =>
              /\ ~At(t, "route add", g) /\ ~At(t, "rule del", g) /\ ~At(t, "rule add", g)
              /\ At(t, "route del", g) => g = "-6"
<1>1. /\ At(t, "route add", g) <=> Place(t, Apply, RouteAdd(g))
      /\ At(t, "rule del", g) <=> Place(t, Apply, ApplyDel(g)) \/ Place(t, Cleanup, CleanupDel(g))
      /\ At(t, "rule add", g) <=> Place(t, Apply, RuleAdd(g))
      /\ At(t, "route del", g) <=> Place(t, Cleanup, RouteDel(g))
  BY Placed
<1>2. /\ RouteAdd(g) # 6 /\ ApplyDel(g) # 6 /\ CleanupDel(g) # 4
      /\ RuleAdd(g) = 6 <=> g = "-6"
      /\ RouteDel(g) = 4 <=> g = "-6"
  BY LastCommands
<1>3. Apply # Cleanup
  BY ProgramsDiffer
<1> QED
  BY <1>1, <1>2, <1>3 DEF Place

LEMMA HealsStep ==
  ASSUME RouteTypeOK, Undisturbed, [RouteNext]_routeVars, NEW t \in Goroutines
  PROVE  Healed(t)
<1> SUFFICES ASSUME t \in Busy, t \notin Busy', result'[t] = "ok", alone[t]
             PROVE  LET there == job[t] = Apply
                    IN /\ rules' = [f \in Families |-> IF there THEN 1 ELSE 0]
                       /\ route' = [f \in Families |-> there]
  BY DEF Healed
<1>1. PICK g \in Families : Command(t, g) /\ at[t] = Len(job[t])
  BY Finishes DEF Finishing, Ended
<1>2. \A f \in Families : Mending(t, f)
  BY DEF Undisturbed
<1>3. "-6" \in Families /\ route \in [Families -> BOOLEAN] /\ rules \in [Families -> Nat]
  BY DEF RouteTypeOK, Families
<1>4. CASE job[t] = Apply
  <2>1. at[t] = 6
    BY <1>1, <1>4, ApplyCommands
  <2>2. AddRule(t, g) /\ g = "-6"
    <3>1. /\ ~At(t, "route add", g) /\ ~At(t, "rule del", g) /\ ~At(t, "route del", g)
          /\ At(t, "rule add", g) => g = "-6"
      BY <1>1, <1>4, <2>1, AtTheEnd
    <3>2. ~AddRoute(t, g) /\ ~DeleteRule(t, g) /\ ~DeleteRoute(t, g)
      BY <3>1 DEF AddRoute, DeleteRule, DeleteRoute
    <3>3. AddRule(t, g)
      BY <1>1, <3>2 DEF Command
    <3> QED
      BY <3>1, <3>3 DEF AddRule
  <2>3. \A f \in Families : Applied(6, f, route[f], rules[f])
    BY <1>2, <1>4, <2>1 DEF Mending
  <2>4. rules["-6"] = 0 /\ \A f \in Families : route[f] /\ (f # "-6" => rules[f] = 1)
    BY <1>3, <2>3, LastCommands DEF Applied
  <2>5. route' = route /\ rules' = [rules EXCEPT !["-6"] = @ + 1]
    <3>1. AddRule(t, "-6") /\ ~(rules["-6"] > 0)
      BY <2>2, <2>4
    <3> QED
      BY <3>1 DEF AddRule
  <2>6. rules' = [f \in Families |-> 1]
    <3>1. \A f \in Families : rules'[f] = 1
      BY <1>3, <2>4, <2>5
    <3>2. rules' \in [Families -> Nat]
      BY <1>3, <2>5
    <3> QED
      BY <3>1, <3>2
  <2>7. route' = [f \in Families |-> TRUE]
    BY <1>3, <2>4, <2>5
  <2> QED
    BY <1>4, <2>6, <2>7
<1>5. CASE job[t] = Cleanup
  <2>1. at[t] = 4
    BY <1>1, <1>5, CleanupCommands
  <2>2. DeleteRoute(t, g) /\ g = "-6"
    <3>1. /\ ~At(t, "route add", g) /\ ~At(t, "rule del", g) /\ ~At(t, "rule add", g)
          /\ At(t, "route del", g) => g = "-6"
      BY <1>1, <1>5, <2>1, AtTheEnd
    <3>2. ~AddRoute(t, g) /\ ~DeleteRule(t, g) /\ ~AddRule(t, g)
      BY <3>1 DEF AddRoute, DeleteRule, AddRule
    <3>3. DeleteRoute(t, g)
      BY <1>1, <3>2 DEF Command
    <3> QED
      BY <3>1, <3>3 DEF DeleteRoute
  <2>3. \A f \in Families : Cleaned(4, f, route[f], rules[f])
    BY <1>2, <1>5, <2>1 DEF Mending
  <2>4. \A f \in Families : rules[f] = 0 /\ (f # "-6" => ~route[f])
    BY <2>3, LastCommands DEF Cleaned
  <2>5. rules' = rules /\ route' = [route EXCEPT !["-6"] = FALSE]
    BY <2>2 DEF DeleteRoute
  <2>6. rules' = [f \in Families |-> 0]
    BY <1>3, <2>4, <2>5
  <2>7. route' = [f \in Families |-> FALSE]
    BY <1>3, <2>4, <2>5
  <2> QED
    BY <1>5, <2>6, <2>7, ProgramsDiffer
<1> QED
  BY <1>4, <1>5 DEF RouteTypeOK, Programs, Busy

(* What BoundSuffices says of one goroutine in one step.                   *)
Enough(t) == alone[t] /\ t \notin Busy' => result'[t] # "too many"

Few == Cardinality(Goroutines) < MaxDeletes

LEMMA NaturalTries ==
  RouteTypeOK =>
    /\ MaxDeletes \in Nat
    /\ \A f \in Families : rules[f] \in Nat
    /\ \A t \in Goroutines : tries[t] \in Int
<1>1. MaxDeletes \in Nat
  BY RoutesConstants DEF RoutesConstants
<1>2. \A n \in 0..(MaxDeletes - 1) : n \in Int
  OBVIOUS
<1> QED
  BY <1>1, <1>2 DEF RouteTypeOK

LEMMA TooMany ==
  ASSUME NEW n \in Nat, NEW k \in Int, NEW c \in Nat, NEW m \in Nat, n > 0, k + 1 = m, n + k <= c
  PROVE  ~(c < m)
OBVIOUS

LEMMA EnoughStep ==
  ASSUME RouteTypeOK, Undisturbed, [RouteNext]_routeVars, Few, NEW t \in Busy
  PROVE  Enough(t)
<1> SUFFICES ASSUME alone[t], t \notin Busy', result'[t] = "too many"
             PROVE  FALSE
  BY DEF Enough
<1>1. PICK f \in Families : At(t, "rule del", f) /\ rules[f] > 0 /\ tries[t] + 1 = MaxDeletes
  BY Finishes DEF Finishing, Ended
<1>2. rules[f] + tries[t] <= Cardinality(Goroutines)
  BY <1>1 DEF Undisturbed, Mending, Left
<1>3. rules[f] \in Nat /\ tries[t] \in Int /\ MaxDeletes \in Nat
  BY NaturalTries DEF Busy
<1>4. Cardinality(Goroutines) \in Nat
  BY RoutesConstants, FS_CardinalityType DEF RoutesConstants
<1> QED
  BY <1>1, <1>2, <1>3, <1>4, TooMany DEF Few

LEMMA UndisturbedAlways == RouteSpec => []Undisturbed
<1>1. RouteInit => Undisturbed
  BY DEF RouteInit, Undisturbed, Busy
<1>2. RouteTypeOK /\ RouteTypeOK' /\ FewDuplicates' /\ Undisturbed /\ [RouteNext]_routeVars
      => Undisturbed'
  <2> SUFFICES ASSUME RouteTypeOK, RouteTypeOK', FewDuplicates', Undisturbed, [RouteNext]_routeVars
               PROVE  Undisturbed'
    OBVIOUS
  <2> QED
    BY UndisturbedStep
<1> QED
  BY <1>1, <1>2, RouteTypeCorrect, CopiesBounded, PTL DEF RouteSpec

(* An operation that nothing else overlaps leaves exactly one rule and one *)
(* route per family, or none, whatever earlier operations left when they   *)
(* failed, overlapped or were cut off.                                     *)
THEOREM HealsAll == RouteSpec => Heals
<1>1. RouteTypeOK /\ Undisturbed /\ [RouteNext]_routeVars =>
        [\A t \in Goroutines :
           t \in Busy /\ t \notin Busy' /\ result'[t] = "ok" /\ alone[t] =>
             LET there == job[t] = Apply
             IN /\ rules' = [f \in Families |-> IF there THEN 1 ELSE 0]
                /\ route' = [f \in Families |-> there]]_routeVars
  BY HealsStep DEF Healed
<1> QED
  BY <1>1, RouteTypeCorrect, UndisturbedAlways, PTL DEF RouteSpec, Heals

(* The bounded loop of deletions never gives up for an operation that      *)
(* nothing overlaps, as long as fewer goroutines than its bound can have   *)
(* left copies behind.                                                     *)
THEOREM DeletionsSuffice == RouteSpec => BoundSuffices
<1>1. /\ RouteTypeOK /\ Undisturbed /\ [RouteNext]_routeVars
      => [Cardinality(Goroutines) < MaxDeletes => \A t \in Busy : Enough(t)]_routeVars
  BY EnoughStep DEF Few
<1>2. RouteSpec => [][Cardinality(Goroutines) < MaxDeletes => \A t \in Busy : Enough(t)]_routeVars
  BY <1>1, RouteTypeCorrect, UndisturbedAlways, PTL DEF RouteSpec
<1> QED
  BY <1>2 DEF BoundSuffices, Enough
=============================================================================
