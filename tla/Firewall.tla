------------------------------ MODULE Firewall ------------------------------
(***************************************************************************)
(* How the daemon changes the firewall: applyFirewall, the cleanups of a   *)
(* stop and of a teardown (internal/runtime/runtime.go), each in the steps *)
(* in which the include file, the live named sets and the loaded chains    *)
(* change, with a failure possible at each step.  One operation runs at a  *)
(* time here; Runtime has the overlaps.                                    *)
(*                                                                         *)
(* fw4 replaces the rules of a chain when it reloads but only adds to the  *)
(* elements of a named set (comment of ManagedSets).  Other services of    *)
(* the router reload fw4 whenever they like.                               *)
(***************************************************************************)
EXTENDS FirewallRules

CONSTANTS
  Settings,   \* transparent settings that can be saved
  NoSettings, \* no settings
  MaxEdits    \* bound on the number of times they are saved

ASSUME FirewallConstants ==
  /\ Settings \subseteq Configs
  /\ NoSettings \notin Configs
  /\ MaxEdits \in Nat

VARIABLES
  saved,    \* the transparent settings in the saved configuration
  include,  \* content of the include file
  chains,   \* the fragment whose chains the kernel has
  sets,     \* the elements the kernel has in the manager's sets
  job,      \* the operation under way: kind, settings, next step, next set
  written,  \* history: the operation that wrote the include
  loaded,   \* history: the operation whose chains the kernel has
  mixed,    \* history: the settings whose elements may be in the sets
  exact,    \* history: the kernel has what loaded asks for and nothing else
  edits     \* number of times the settings were saved

kernel == <<chains, sets>>
history == <<written, loaded, mixed, exact>>
vars == <<saved, include, kernel, job, history, edits>>

OpKinds == {"apply", "stop", "teardown"}
Operations == [kind : OpKinds, settings : Settings]
NoOperation == [kind |-> "none", settings |-> NoSettings]
Idle == [kind |-> "none", step |-> "idle", settings |-> NoSettings, next |-> 1]
Jobs == [kind : OpKinds, step : {"write", "flush", "load", "delete"},
         settings : Settings, next : 1..Len(ManagedSets)]
Doing == [kind |-> job.kind, settings |-> job.settings]

-----------------------------------------------------------------------------
(* What an operation writes, and what fw4 makes of it.                     *)

(* Defect: every stop is a full cleanup, kill switch or not.               *)
IncludeOfFull(op) == IF op.kind = "apply" THEN Render(op.settings) ELSE NoFragment

(* Apply, ApplyKillSwitch behind cleanupFirewall, and Cleanup.             *)
IncludeOf(op) ==
  IF op.kind = "apply" THEN Render(op.settings)
  ELSE IF op.kind = "stop" THEN RenderKillSwitch(op.settings)
  ELSE NoFragment

(* applyFirewall flushes the sets only for settings that proxy something;  *)
(* only cleanupFirewallFull deletes the objects of the manager.            *)
Flushes(op) == op.kind = "apply" /\ Active(op.settings)
Deletes(op) == op.kind = "teardown"
                 \/ (op.kind = "stop" /\ RenderKillSwitch(op.settings) = NoFragment)

(* A set keeps its elements and gets those of the include.                 *)
Merge == [tproxy |-> sets.tproxy \cup include.sets.tproxy,
          bypass |-> sets.bypass \cup include.sets.bypass,
          udpbypass |-> sets.udpbypass \cup include.sets.udpbypass,
          bdst |-> sets.bdst \cup include.sets.bdst]

(* The settings whose elements are in the include.                         *)
Written == IF include = NoFragment THEN {} ELSE {written.settings}

FW4Reload ==
  /\ chains' = include /\ loaded' = written
  /\ sets' = Merge /\ mixed' = mixed \cup Written

(* Nothing that matters is left over from before once op has loaded its    *)
(* include: op flushed the sets, loads no chain, or finds no other         *)
(* elements.                                                               *)
Reached(op) == \/ Flushes(op) \/ IncludeOf(op) = NoFragment
               \/ mixed \subseteq {op.settings}

-----------------------------------------------------------------------------
(* The operations.                                                         *)

(* The settings are saved while the daemon does nothing to the firewall.   *)
Save(c) ==
  /\ job = Idle
  /\ edits < MaxEdits /\ edits' = edits + 1
  /\ saved' = c
  /\ UNCHANGED <<include, kernel, job, history>>

Begin(kind) ==
  /\ job = Idle
  /\ job' = [kind |-> kind, step |-> "write", settings |-> saved, next |-> 1]
  /\ UNCHANGED <<saved, include, kernel, history, edits>>

(* The new include is renamed into place, or removed.                      *)
Write ==
  /\ job.step = "write"
  /\ include' = IncludeOf(Doing)
  /\ written' = Doing
  /\ job' = [job EXCEPT !.step = IF Flushes(Doing) THEN "flush" ELSE "load"]
  /\ UNCHANGED <<saved, kernel, loaded, mixed, exact, edits>>

(* Defect: only the sets of the devices that are proxied or bypassed.      *)
FlushFirstSets ==
  /\ job.step = "flush"
  /\ sets' = Flushed(sets, job.next)
  /\ IF job.next < 6
     THEN job' = [job EXCEPT !.next = @ + 1] /\ mixed' = mixed
     ELSE job' = [job EXCEPT !.step = "load"] /\ mixed' = {job.settings}
  /\ UNCHANGED <<saved, include, chains, written, loaded, exact, edits>>

(* flushManagerSets: nft flush set, one set after the other.               *)
FlushManagerSets ==
  /\ job.step = "flush"
  /\ sets' = Flushed(sets, job.next)
  /\ IF job.next < Len(ManagedSets)
     THEN job' = [job EXCEPT !.next = @ + 1] /\ mixed' = mixed
     ELSE job' = [job EXCEPT !.step = "load"] /\ mixed' = {job.settings}
  /\ UNCHANGED <<saved, include, chains, written, loaded, exact, edits>>

(* FirewallReload.                                                         *)
Load ==
  /\ job.step = "load"
  /\ FW4Reload
  /\ exact' = Reached(Doing)
  /\ job' = IF Deletes(Doing) THEN [job EXCEPT !.step = "delete"] ELSE Idle
  /\ UNCHANGED <<saved, include, written, edits>>

(* deleteManagerObjects: the chains are empty and nothing refers to a set; *)
(* a set that cannot be deleted stays with its elements, and nobody looks. *)
DeleteManagerObjects ==
  /\ job.step = "delete"
  /\ sets' \in {sets, Flushed(sets, job.next)}
  /\ mixed' = IF sets' = NoElements THEN {} ELSE mixed
  /\ job' = IF job.next < Len(ManagedSets) THEN [job EXCEPT !.next = @ + 1] ELSE Idle
  /\ UNCHANGED <<saved, include, chains, written, loaded, exact, edits>>

(* A step returns an error and the operation with it: the include cannot   *)
(* be written, the module or a route is refused, a set is not flushed, or  *)
(* fw4 rejects the rules and keeps the old ones.                           *)
Fail ==
  /\ job.step \in {"write", "flush", "load"}
  /\ job' = Idle
  /\ exact' = (exact /\ job.step = "write")
  /\ UNCHANGED <<saved, include, kernel, written, loaded, mixed, edits>>

(* Another service reloads fw4.                                            *)
OtherReload ==
  /\ FW4Reload
  /\ UNCHANGED <<saved, include, job, written, exact, edits>>

(* The router reboots: fw4 starts from the include, with empty sets.       *)
Reboot ==
  /\ job' = Idle
  /\ chains' = include /\ loaded' = written
  /\ sets' = include.sets /\ mixed' = Written
  /\ exact' = TRUE
  /\ UNCHANGED <<saved, include, written, edits>>

-----------------------------------------------------------------------------
Init ==
  /\ saved \in Settings
  /\ include = NoFragment
  /\ chains = NoFragment
  /\ sets = NoElements
  /\ job = Idle
  /\ written = NoOperation /\ loaded = NoOperation
  /\ mixed = {} /\ exact = TRUE
  /\ edits = 0

Operate == \E kind \in OpKinds : Begin(kind)

Step == Write \/ FlushManagerSets \/ Load \/ DeleteManagerObjects

Next ==
  \/ \E c \in Settings : Save(c)
  \/ Operate
  \/ Step
  \/ Fail
  \/ OtherReload
  \/ Reboot

Spec == Init /\ [][Next]_vars

-----------------------------------------------------------------------------
(* Properties.                                                             *)

TypeOK ==
  /\ saved \in Settings
  /\ include \in Fragments /\ chains \in Fragments
  /\ sets \in SetValues
  /\ \/ job = Idle
     \/ /\ job \in Jobs
        /\ job.step = "flush" => Flushes(Doing)
        /\ job.step = "delete" => Deletes(Doing)
  /\ {written, loaded} \subseteq Operations \cup {NoOperation}
  /\ mixed \subseteq Settings
  /\ exact \in BOOLEAN
  /\ edits \in 0..MaxEdits

(* After an apply that succeeded the LAN is treated as the settings say,   *)
(* packet by packet, whatever was configured, left half done, half flushed *)
(* or undeleted before, and however often fw4 is reloaded or the router    *)
(* boots after.                                                            *)
AppliedIsIntended ==
  job = Idle /\ exact /\ loaded.kind = "apply"
    => \A p \in Packets : Fate(chains, sets, p) = IF Active(loaded.settings)
                                                  THEN IntendedUp(loaded.settings, p)
                                                  ELSE Untouched(p)

(* After a stop, the kill switch blocks what is proxied otherwise and      *)
(* nothing else, and without it, or after a teardown, nothing at all is    *)
(* touched, whichever of the manager's sets could not be deleted.          *)
StoppedIsIntended ==
  job.step \in {"idle", "delete"} /\ exact /\ loaded.kind \in {"stop", "teardown"}
    => \A p \in Packets : Fate(chains, sets, p) = IF loaded.kind = "stop"
                                                  THEN IntendedDown(loaded.settings, p)
                                                  ELSE Untouched(p)

(* The chains of op close the kill switch over the whole LAN.              *)
Closes(op) == /\ op.kind \in {"apply", "stop"}
              /\ op.settings.default = "tproxy" /\ op.settings.kill

(* Where the LAN is proxied by default the kill switch never opens on the  *)
(* way from settings to settings: what is to be contained under every one  *)
(* of those whose elements may still be in the sets is never let out, with *)
(* any number of the sets flushed, after any number of operations that     *)
(* failed in between, with the include of one of them reloaded by another  *)
(* service.                                                                *)
ContainedThroughout ==
  Closes(loaded)
    => \A p \in Packets : (\A c \in mixed : Contained(c, p)) => Fate(chains, sets, p) # "direct"

(* A stop that succeeds blocks all that the kill switch has to contain:    *)
(* stale elements must be flushed before every reload (comment of          *)
(* ManagedSets), or a device lingers in the bypass set and gets out.       *)
StopBlocks ==
  [][Load /\ job.kind = "stop"
       => \A p \in Packets : Contained(job.settings, p) => Fate(chains', sets', p) = "blocked"]_vars
=============================================================================
