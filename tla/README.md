# A formal model of the sing-box manager for OpenWrt

TLA+ specifications of `singbox-managerd`, the daemon that keeps a sing-box
process, the nftables rules of the router and a UCI configuration in agreement.
The specifications are model-checked with TLC on small instances, and the
theorems of the `*Proofs` modules and of Iteration are checked with TLAPS for every instance.
Paths are relative to the repository; `main.go` is
`singbox-manager/src/cmd/singbox-managerd/main.go`, and `runtime.go`,
`firewall.go`, `edit.go` and so on are the files of `singbox-manager/src/internal`.

    tlc -workers 2 -config RuntimeOverlap.cfg MCRuntime    # one run
    tlapm PartsProofs.tla                                  # one module of proofs

- [1. The system](#1-the-system)
- [2. The modules](#2-the-modules)
- [3. What the runs check](#3-what-the-runs-check)
- [4. Fairness](#4-fairness)
- [5. What is proved](#5-what-is-proved)
- [6. Where the code does not do what it says](#6-where-the-code-does-not-do-what-it-says)
- [7. What is left out](#7-what-is-left-out)
- [8. Plan](#8-plan)

## 1. The system

The user interface (LuCI) and the command line talk to the daemon through rpcd
and a Unix socket, one request per connection. Every request is served by a
goroutine of its own. Beside them run the loop that supervises sing-box, three
schedulers (subscriptions, rule sets, health), and the goroutine that waits for
a signal. Almost nothing is locked: the one mutex they share protects the flags
of the supervisor. Files, processes and the kernel's firewall are used by all of
them.

| Component | State it keeps | Operations | Talks to | What is hard | What makes it correct |
|---|---|---|---|---|---|
| Runtime supervisor (`runtime.go` 64-71, 567-628) | `desired`, `monitorRunning`, the last configuration | enable, disable, the loop with its sleep and back-off | controller (restarts sing-box) | a loop on its way out meets an enable | one monitor at most, and one whenever the runtime is desired |
| Runtime controller (`runtime.go`) | pidfile, sing-box processes, generated document, include, policy routes | start, stop, restart, reload, teardown | supervisor, firewall, renderer, kernel | unlocked operations overlap; every command can fail; processes die, leave zombies and have their pids reused; crash and reboot at any step | a stop stays stopped; the process that runs is the one the pidfile names; the firewall agrees with it; the kill switch has no gap |
| Daemon lifecycle and requests (`main.go`) | the `enabled`, `paused` options of the file | RPC requests, boot, signal, `cleanup` | controller, store | a client times out while its request goes on; boot beside requests | requests return; the hold is respected |
| Service script (`init.d/singbox-managerd`) | whether the service is up | start, stop with a deadline, sweep | daemon, `cleanup` process | the daemon is killed in the middle of anything | a stopped service leaves nothing behind |
| Firewall rendering (`firewall.go`) | none | `Render`, `RenderKillSwitch` | fw4 (include file) | five chains whose order decides, in four variants | every packet is treated as the settings say |
| Firewall operations (`runtime.go` 280-373) | include, loaded chains, elements of named sets | apply, stop, teardown | fw4, other services that reload it | fw4 merges set elements; a failure half-way; a reload by somebody else | left-overs never change the fate of a packet |
| Schedulers and configuration requests (`main.go` 397-492, 624-1000) | what each goroutine has read | import, refresh, select, set and delete, health check | store, providers | a fetch takes long and the file changes meanwhile | the result of a fetch is applied to the file as it is; no source starves another |
| Configuration store (`edit.go`, `validate.go`) | `/etc/config/singbox-manager` | 24 edits, validation | everybody | read, change and rename without a lock | everything in the file can be deleted, imported nodes have their subscription, no update is lost |
| Renderer (`render.go`) | none | `Render` | store, files of rule sets | dozens of ways to disable, filter, rename and deselect | the document is closed and leads traffic where the configuration says |
| UCI parser and printer (`parser.go`, `edit.go` 625-1009) | none | parse, print | store | quoting; sections found by name or id, in any order | printing and parsing are inverse; an edit of the sections is the edit of the configuration that was meant |
| Subscription import (`subscription.go`) | none | fetch, parse, assign ids, due | schedulers, renderer | many formats, few of the fields in an id | what the provider lists is what sing-box dials |
| Rule-set download (`ruleset.go`) | files of rule sets | download, due | schedulers, renderer | replaced while sing-box reads | the old file survives a failure |
| Health checks (`health.go`, `urltest.go`) | a throwaway sing-box per check | probe, aggregate | schedulers, renderer | checks side by side, one bad node, deadlines, slots | a result was measured through the node it is shown for; every check ends |
| RPC client, LuCI views, packaging, status pages | none | | daemon | | |

## 2. The modules

    Supervisor ---+-- PartsProofs              ConfigEdits
        |         |                                | EXTENDS       | EXTENDS
        |     Pidfile, Routes                  EditedConfig     ConfigStore ---- ConfigProofs
        | INSTANCE                                 | INSTANCE      | EXTENDS
    Runtime                                    Sections         Refresh
        | EXTENDS                                  |
    Service --------- RuntimeProofs                +-- FileProofs
                                                   |
    Render                                     Import
        | EXTENDS
    Health -------+-- DocumentProofs           Uci ------------- UciProofs
                  |
              Probe                            FirewallRules
                                                   | EXTENDS
    Iteration                                  Firewall -------- FirewallProofs

A module of proofs extends the modules to its left. Iteration has the induction that proofs about loops need: DocumentProofs, UciProofs
and FileProofs instantiate it with the bodies of theirs.

| Instance | Modules it composes |
|---|---|
| MCRuntime, MCService, MCFirewall | Runtime, Service, Firewall |
| MCParts | Supervisor, Pidfile, Routes: the parts of `runtime.go` that Runtime takes in larger steps |
| MCConfig | Refresh, over ConfigStore |
| MCDocument | Render, Health and Probe: what is made of one saved configuration |
| MCConfigFile | Sections, Uci and Import: what is in the file, its text, and what a subscription puts into it |

The modules that MCParts, MCDocument and MCConfigFile put together share no variable (Render and Health
share the configuration). A behaviour of them all is any interleaving of a behaviour of each, so
their variable `part` says which one moves while the others rest, and nothing is lost by it.

`PROJECT.json` lists, for every definition, the lines of source it stands for.
Operators whose comment starts with "Defect:" are plausible bugs of the
definition that follows them. Nothing uses them in a specification: each is put in
its place to see that a property notices (see section 3).

### Supervisor

The struct `supervisor` and its mutex. Each of its critical sections is one
action: `EnableSupervisor`, `DisableSupervisor`, `Snapshot` (the look at
`desired` and the configuration), and `SupervisorStopped`, by which the loop
ends, or is succeeded when `desired` has been set again. `Spawn` is the `go` statement
behind a critical section that decided on it; `phase` says where a loop is: absent, asleep, at work with its
snapshot, or past the snapshot that made it return. What happens between the snapshot and the next sleep is one
`Continue`; the module Runtime puts the restart of sing-box there.

### Runtime

`Control` with its five actions, and the requests of `main.go` that call it.
One action is one effect that others can see: a file written, fw4 reloaded, a
signal sent, a process spawned, the pidfile written or removed, a critical
section. `pc` is the line each goroutine is at, `cfg` the configuration it
loaded, `pid` the process it has found. A request is: `Accept` (with `FirstEdit`, the edit of
the file that all but `stop`, `reload` and `cleanup` begin with), `TakeUp` (what comes behind it), `Load`,
then one of

- start: `Check`, `Validate`, `ApplyWrite`, `ApplyLoad`, `Spawn`,
  `WritePidfile`, `Settle`, `Enable`; a failure leads through
  `CleanupWrite`, `CleanupLoad`;
- stop and teardown: `Disable`, `Probe`, `Terminate`, `Await` (TERM, poll,
  KILL), `RemovePidfile`, `CleanupWrite`, `CleanupLoad`, and `Hold` behind a stop;
- reload: `ReloadProbe`, then either a start or validate, apply, `Hup`;
- the supervisor: `Wake` (snapshot), `LoopProbe`, and the steps of a start.

Each of these can fail where the code looks at an error or ignores one. `start` and `restart` go on although the hold could
not be lifted, the other requests return the error of their edit (`EditFails`). A file that cannot be loaded (`LoadFails`) ends a request, but a `stop`
still engages the hold, and the daemon boots without a supervisor. The hold behind a stop can fail unnoticed (`Hold`).
`Resume` is the second look at the file of a pause that is lifted.

`Die` and `Reap` are the sing-box processes and the goroutine in `cmd.Wait`;
`DaemonCrash` and `Reboot` cut everything short, and what survives differs: the processes
survive a crash, the files survive both, the fw4 ruleset is what fw4 loads from the include
at boot, the routes and `/var/run` are gone after a reboot.

The saved file is reduced to `enabled`, `paused` and the transparent mode: off,
tproxy, or tproxy with the kill switch. An edit of it is one step here; that it is not
one in the code is the subject of ConfigStore. The firewall is the name of what the include holds and
of what fw4 loaded last; the chains are the subject of Firewall.

`serial` records whether two operations have ever overlapped or been cut off. The
code is correct for operations that come one at a time in several respects in which
it is not for overlapping ones, and the properties that speak of `Settled`
states make this difference explicit. `exclusive` asks for less: only what may start sing-box has to be alone and
uncut, while stops, pauses and cleanups may overlap and be cut off at any step. `stopped` is set
when a stop or pause *went through* (it found the configuration, is over, and the hold is engaged) and cleared when the
runtime is asked for again. `abandoned` is set by a boot that finds the LAN diverted, or sing-box running, that nobody had stopped, and does not take it over.

`RunningPID` is one step here, a pid is not reused while something names it, and the routes are one
Boolean. Pidfile and Routes are the same code at the grain of its system calls.

### Pidfile

`RunningPID` as read, probe and removal, `startOnce` from the spawn to the end of its
250 ms, the poll and the kill of `stop`, the signal of `reload`, and the goroutine in `cmd.Wait` with
`removePIDFileIfMatches`. A pid goes to a stranger as soon as it is free, and a process that exited is a zombie
until it is waited for (`statusAlive` takes it for dead). `status` is a request that only
looks, and so may remove a pidfile beside an operation.

The history variable `calm` stays true as long as no two operations overlap, no crash cuts one off, no pid
is reused that a goroutine has in hand, and no pidfile is written between a look at the old one and the
removal that follows. The first two are the "one at a time" of Runtime; the other
two need a goroutine to sleep through a whole `sing-box check` or a full turn of the pid counter. Requests
for the status, deaths, zombies, reused pids that nobody has in hand and crashes of an idle daemon
leave it true.

### Routes

`applyTProxyRoutes`, `cleanupTProxyRoutes` and `deleteTProxyPolicyRules`, one step for each `ip` command. An
operation is the sequence of its commands and a place in it. Any command may
fail, the daemon may die between two of them, and a kernel that is given a rule again keeps a copy of it or refuses it.
`alone` says that nothing else has run since an operation began.

### Service

Runtime with the signal goroutine (a handler that runs the teardown), the end of
the daemon when that returns or when procd sends SIGKILL at `term_timeout`
(`Killed`), and the process that the init script runs afterwards
(`singbox-managerd cleanup`) as one more handler. The sing-box processes become
orphans of init when the daemon ends.

### FirewallRules

The rules as functions of the fragment that is loaded, the live set elements and
a packet: `TProxyChain`, `DNSRedirectChain` and `KillSwitchForwardChain` are the
chains rule by rule, `Fate` is the order of the hooks. The MAC, IPv4 and IPv6 sets of
a bucket are one set of (machine, kind of address); destinations are the classes
the rules tell apart (the router, multicast, reserved ranges, an office network that can be
pinned, the Internet). `IntendedUp` and `IntendedDown` say what the settings
mean without chains, sets or an order.

### Firewall

`applyFirewall`, `cleanupFirewall` and `cleanupFirewallFull` step by step over
what the kernel holds: write the include, flush the eleven sets one after the other, reload, delete the
objects, each with its failure; reloads by other services; reboots; changes of
the settings in between. A set whose deletion fails stays with its elements and nobody looks, as `deleteManagerObjects` ignores
the errors. fw4 replaces chains but merges set elements, as the comment of `ManagedSets` says.
One operation runs at a time. Four history variables say where the kernel is, in every state, half-way through an operation and after a
failure too: `written` and `loaded` are the operations whose include is on flash and whose chains are
in the kernel, `mixed` the settings whose elements may be in the sets, and `exact` whether the last operation got as far as it wanted to.

### ConfigEdits and ConfigStore

ConfigEdits is the file as a record of ids and references, `Valid` (what
`Validate` asks of references), and each edit of `edit.go` as an operator.
`Mutate`, `Found` and `Accepted` say what an edit makes of a configuration and whether it is
refused. ConfigStore is who makes them: a goroutine per request and the
three schedulers, each with the file it has read (`base`) and the edit it is about to make.
`Read` and `Write` are the two halves of `editConfig`; a refresh reads,
fetches, and edits. `serial` and `apart` record whether operations, or edits from read to write,
have overlapped.

There is one group, the active one. Rule sets are remote and enabled here (Render has the other kinds).
Names, URLs, credentials and health metadata are left out. An imported node has
the id of its subscription in its id, so it never collides with one entered by hand.

### Refresh

ConfigStore in the long run: the fairness under which the three schedulers are expected to bring
every source up to date, and `NobodyStarves`.

### EditedConfig and Sections

EditedConfig is the promise of `editConfig`: a configuration is edited as a whole or not at all. Sections has the
list of sections that the file is, with every edit of `edit.go` as it goes through that list: finding a section by type and name
or id, keeping or replacing it, inserting and dropping the entries of lists, removing the rules that have nothing left. `Read` is
`applySections`, in which the last section with an id counts. `ImplementsEdits` is the refinement: what `Read` shows of the file before
and after an edit is what `Mutate` of ConfigEdits describes, and an edit is refused when it is refused there.

It is stated for the files `Initial` and the edits `Requests` of which `SectionConstants` says:

- A file is `Tidy`: every section says something the reader of its type understands (`IsSection`; a rule set may be without an id, and a singleton may have its old name), the singletons `manager` and `group` exist, and no two sections
  of one type have one name or id (`Alike`). `Validate` and the reader check none of this. Without it, two sections with one id are edited in one place and read from
  the other (`edit.go` 526, 883), and ids of subscriptions that differ only in characters a section name cannot have share their nodes (`subscription.go` 571-585).
- No section name that is made of the id of one rule set (`sectionNameFromID`) is the id of another rule set. The code finds a rule set under either and
  prevents no such clash; this is an assumption about names, not a fact about the code.
- A file that is there at the start is valid, as nothing that fails to load is edited.

The edits keep a file tidy, so the first two are about what people write, not about what the daemon does.

### Uci

`tokenizeUCI`, `parseUCI`, `quoteUCI` and `renderUCI` over the characters they tell apart: space, hash,
quotes, backslash, line break, a letter, and the three keywords as a letter each. A behaviour starts with a text
written by hand and goes through edits with values that hold any of these.

### Import

From an entry of a subscription to the outbound that is dialled: `ParseURI` and `OutboundToNode` with their TLS and
transport, `AssignSource`, the way through the file (`nodeSection` leaves out what is empty, `readNode` fills it in), `Validate`, and
`renderNodeOutbound`. `Meant` says what an entry means without a node in between, so that the property compares two readings of
it. An entry has what a provider writes, not only what the code reads: the `alpn` and fingerprint of an encoded vmess link, the
service name of a grpc link, and, as `extra`, an option for which a node has no field (the plugin of Shadowsocks, the obfs of hysteria2, multiplexing).
`Unread` says which of these the code passes over; an entry that has one is `Dropped`, and is dialled as `Shortened`, the entry without them but with everything
else. `Misread` names the entries that the code is known to take for something else (section 6); these are dialled at the place and with the credentials
they list all the same.

### Render

`Document(c, files)` is what `Render` makes of configuration `c` when `files`
are the rule sets with a file at their path: which tags it defines and which it refers to. Entries are
ordered by id (`Rank`), as `sortNodes` and the sorted maps order them. A behaviour is one saved
configuration, with `Generate` and `Download` in any order. The rules of a configuration
are the enabled ones of the active group; the strategy `load-balance` is
rendered as `urltest` by the code and is that here.

### Health

`CheckNode`, `ProbeNode` and the roll-up of `health.go` over the configuration of Render: every result that the nodes can have is
enumerated, and what is reported of subscriptions and groups is compared with it, and with the document that is rendered from the same
configuration. How a node comes by its result is the subject of Probe.

### Probe

`ProbeNodes` and `BuildProbeConfig`: two checks side by side, each with a free port that somebody else may
bind first, a directory and a secret, the nodes that sing-box refuses, the tags that are taken, the slots of the semaphore,
the instance that dies, and the deadlines. The check of each node by itself (`precheckNodes`) is one step: its
goroutines write to slots of their own, and any of them may fail a good node (a file that is not written, the ten seconds of `sing-box check`).
`upset` keeps, for each check, the nodes for which or around which something failed.

## 3. What the runs check

| Run | Instance | Distinct states | Question and answer |
|---|---|---|---|
| `runtime_details` | Supervisor: 2 callers, 3 loops, 2 configurations. Pidfile: 1 handler and the loop, 2 pids, 1 stranger, 1 crash or failure. Routes: 2 goroutines | 1.1 million | The handover between loops: `OneMonitor`, `DesiredIsMonitored` (no lost wakeup). The pidfile: `RunningIsNamed`, `AtMostOne`, `StrangersSpared`, `Restored`. The routes: `FewDuplicates`, `Heals`, `BoundSuffices`. |
| `runtime_serial` | 1 handler, 3 requests of every kind, every mode, 1 failure, 1 death, 1 crash or reboot | 4.4 million | Operations that come one at a time: `StopsForGood`, `NoOrphan`, `NoBlackHole`, `DataPathAgrees` after any history. |
| `runtime_overlap` | 2 handlers and the loop, 2 requests, kill switch on, 1 failure, death, crash or reboot | 1.2 million | Every interleaving: `KillSwitchHasNoGap`; and `StopsForGood` for stops that overlap or are cut off. |
| `runtime_liveness` | 1 handler, 1 request, 1 failure, 2 deaths, 3 pids | 0.3 million | `SupervisorRestores`, and the supervisor implements Supervisor with its fairness (`SupervisorSpec`). |
| `service` | 1 handler with a start, the loop, signal goroutine, sweep; kill switch on, 1 failure, 1 restart of the service | 0.5 million | `DownIsClean`, `StopsEventually`. |
| `firewall` | 7 settings of 2 machines, 2 changes of settings, 11 sets, every packet | 0.6 million | `AppliedIsIntended`, `StoppedIsIntended`: nothing left over changes the fate of a packet; `ContainedThroughout`: with any part of the sets flushed, or after a failure, there is no gap in the kill switch. |
| `config_store` | 1 handler, 3 schedulers, 2 subscriptions, 10 edits besides imports, selections and refreshes, 1 request or crash and 1 interval, or 3 intervals | 0.1 million | `DeletesAccepted`, `NoOrphanNodes`, `NoLostUpdate`, `NobodyStarves`. |
| `document` | Render and Health: slices of all configurations with 3 nodes, 2 subscriptions, 2 servers, 2 rule sets, 1 rule of each kind. Probe: 2 checks of 2 nodes, 1 port, 1 slot | 0.8 million | `Closed`, `BootstrapsDirectly`, `SelectionIsServed`, `DirectIsLastResort`; `RollUpIsRight`, `HealthyGroupServes`; `OkIsMeasured`, `NoStranding`, `EveryCheckEnds`. |
| `config_file` | Sections: 3 edits out of some 40 on 2 files. Uci: 2 edits (`MaxWrites`) of 7 texts with 27 values. Import: some 600 answers in 3 formats | 0.04 million | `ImplementsEdits`, `RoundTrip`, `DialledAsProvided`. |
| `find_stop_race` | 1 handler, the loop, 1 death | | `StopStaysStopped` without "one at a time" is violated, see section 6. |
| `find_stale_sets` | 7 settings, 1 change | | `StopBlocks` is violated. |
| `find_hold_lost` | 1 handler, the health scheduler | | `HoldIsKept` is violated. |

What TLAPS proves for every instance is checked by TLC only where a property is stated with it: the type invariants, and
`FlagIsTruth` of Supervisor, are left to the proofs. So is the exhaustive run of the firewall over every setting of one
machine: `ApplyCorrect` and `StopCorrect` have every setting of any number of them.

Every property of a passing run is paired with a defect of a definition (under
"mutants" in `PROJECT.json`) that violates it under the same configuration:
forgetting to disable the supervisor, giving up before the process is dead,
flushing some of the sets, removing the pidfile before the process is gone, ending a loop without clearing its flag, editing the file that was read before the fetch, and so on.

### Bounds, and why they are enough

- *Supervisor.* Three loops are one that is there, one that is on its way out and one that is spawned. *Pidfile.* The
  operations of a request and of the loop are the two that can meet; with two pids one can be a stranger's or a
  zombie's while the other is free. A stranger has to leave before a spawn or a write fails (`OneTrouble`): the corpse of a sing-box
  whose pid could not be written is never waited for, and with both pids taken the model would run out
  of them, which the system does not. *Routes.* Two goroutines, and three deletions for the 64 of the code: `BoundSuffices` needs the bound
  to be above the number of goroutines, and is proved for any such pair.
- *Runtime, serial.* Requests one at a time have no memory but the state they
  leave, and three requests reach each pair of (state left by one, state left by the
  next) with a failure, a death or a restart of the daemon before, in or after
  each. Two pids are enough because a third process can only be started when
  the pidfile names none.
- *Runtime, overlapping.* Two requests and the loop are the three kinds of
  writers; the interesting overlaps are of two of them, with the third reading the
  result. `StopsForGood` is there for two stops that overlap, which take the pidfile and the process out of each other's hands; the histories it
speaks of are those in which a start had the daemon to itself. `OneMishap` keeps two failures, deaths or restarts out of the same
  behaviour, for the size alone; the loop is at work without any of them, since it starts sing-box at boot. Pids and handlers are interchangeable; the properties of
  that run are invariants and properties of steps, for which the symmetry is sound.
- *Runtime, liveness.* A pid is not reused while anything names it, so the number of
  deaths is below the number of pids, or the model would run out of them where
  the system does not. For the same reason this run has no crash of the daemon.
- *Service.* Whoever can put back what the teardown removes is a start, of a request or of the
  loop: both are at work when the signal comes, and the teardown is cut off at every step. The kill switch is the
  setting in which an ordinary stop leaves rules behind and a teardown must not.
- *Firewall.* Packets of different machines do not influence each other; two machines and settings that differ
  in one respect each show left-overs. Two changes of the settings reach a kernel that holds
  elements of two settings that are both gone, with any number of the sets flushed.
- *ConfigStore.* Two subscriptions, one of them selected from and attached to the group, with a
  DNS server, a DNS rule, a route rule and a rule set that refer to each other in the
  ways a delete has to undo; a request beside the schedulers is two or three
  overlapping edits. `Bounds` takes much from outside or a long time, not both: the races need an edit in between, and `NobodyStarves` needs
  a subscription that comes due again while the other one fails for ever. The edits that
  TLC does not try (those of a section that nothing refers to) are covered by the theorems, which are about every well-formed edit.
- *Render and Health.* The parts of a document are made from disjoint sections of the
  configuration, so each slice has every value of its sections and one value of the
  others: group and nodes; servers and DNS rules; rules and rule sets. Two of everything
  give an order and a clash; the health has a third, direct node. A check replaces the result of the one before, so one is enough.
- *Probe.* One port makes both checks choose the same one, one slot makes two nodes queue, and ids and tags are few enough for a tag to be taken by
  another node or by a built-in outbound.
- *Sections, Uci, Import.* Three edits are one that creates, one that changes and one that removes; the two files have every type of section,
  in two orders, with old names and without an id. The values of Uci are all of two characters that need care, and each one alone.
  The entries of Import are every combination of protocol, TLS block and transport, and pairs of those that
  share an id, are passed over, are incomplete, or have an option the code drops. `ImportConstants` keeps to what providers serve: the blocks of a document have the shapes that sing-box has,
  and a cipher, and what a link says of TLS, is a word the format knows. `Later` is what may be served afterwards. Neither is a bound of the proofs.

`CHECK_DEADLOCK FALSE` is given where the bounds let the system stop: when no
request, failure or tick is left, an idle daemon has nothing to do.

## 4. Fairness

- A goroutine that can go on does (`WF` of its steps): the Go scheduler is fair
  to goroutines that are ready, every sleep and poll of the code has an end, and each command
  the daemon runs is assumed to return. A request is never forced to arrive.
- A child that exits is reported (`Reap`), and a sing-box that does not get its ports
  exits: it fails to bind and ends with an error. One that has its ports may live for ever.
- procd and the init script take their next step (Service). The daemon's end after
  the teardown is fair, the SIGKILL at the deadline is not: it may never be
  needed.
- Pidfile: goroutines run and the ones that wait are told (`Restored`). Probe: the goroutines of a check run and its deadlines pass; nothing makes the
  instance answer or a delay be measured (`EveryCheckEnds`).
- Refresh: a goroutine with work goes on with it, and the timer of a scheduler fires. No server has to answer, but one that is
  `Reachable` does not fail every time it is asked (`SF` of the answer), since a retry is at most an interval away.
- Supervisor asks for fairness of its loop; `runtime_liveness` checks that the detailed
  loop of Runtime provides it, which is not obvious, as the body of that loop is a whole start.

## 5. What is proved

With the constants arbitrary, under the named assumptions of each module:

**PartsProofs** has the three parts of `runtime.go`. About Supervisor (`SupTypeCorrect`, `AtMostOneMonitor`, `FlagCorrect`,
`NoLostWakeup`), for any sets of callers, loops and configurations. The inductive invariant is `Handoff`: the loops that live and the spawns that
are pending are at most one in all, `monitorRunning` is set exactly while there is one, and
`desired` implies the flag. None of the three is inductive alone: `enableSupervisor` spawns when it
finds the flag clear, and that this is safe is `FlagIsTruth`; that `supervisorStopped` may clear it is `OneMonitor`
(no other loop lives) and its look at `desired` in the same critical section.

About Pidfile (`PidfileTypeCorrect`, `RunningNamed`, `NeverTwo`, `StrangersUntouched`), for any number of handlers and pids. The
inductive invariant is `Tracked`, which says of a `calm` history: one goroutine operates at a time (`OneOperates`); the sing-box that runs is
the one in the pidfile unless its pid is about to be written (`Named`); what an operation knows at each of its steps (`Known`); and a removal that is
on its way removes nothing that names sing-box (`Stale`). `Named` alone breaks at the removals, `Stale` is why a look at
the status or the goroutine of an earlier sing-box does not.

About Routes (`RouteTypeCorrect`, `CopiesBounded`, `HealsAll`, `DeletionsSuffice`), for any finite set of goroutines and any bound.
`FewDuplicates` counts the copies of the rule together with the goroutines about to add one: an operation deletes all it finds before it
adds its own, so each copy has a goroutine to answer for it, and it is inductive with the types. `HealsAll` follows from `Undisturbed`: of an operation that has been alone since it
began, the places before the one it is at hold what it has made of them (`Applied`, `Cleaned`), and the deletions done and left are no more than the copies there were.

**RuntimeProofs**, about Runtime (`RuntimeTypeCorrect`, `NoGap`, `NoOrphanCorrect`, `DataPathAgreesCorrect`,
`StopsForGoodCorrect`, `NoBlackHoleCorrect`), for any sets of handlers, loops and pids, any requests and any number of failures, deaths, crashes and reboots.

- *Any overlap.* `TypeInv` says beside the types what a goroutine has in hand: a configuration once it is past `Load`, and a pid where it
  signals or waits. `NoGap` follows from `TypeInv` alone once every
  configuration has the kill switch (`Modes`) and no request tears the firewall down (`cleanup`): whatever
  anybody holds then renders an include that captures or blocks. Without these two hypotheses the gap is what was asked for.
- *One at a time.* `NoOrphan`, `DataPathAgrees` and `NoBlackHole` speak of histories in which `serial` is true. `LoopsOK` says that a loop is inside an operation exactly while its
  phase says so, so that `serial` leaves one goroutine at work. `Serially` is a table of what that goroutine relies on at each line (`Orderly`):
  where nothing runs, where the pid in hand is the one that runs, where the include is written but not loaded,
  where the firewall fits the configuration. When it is done everything is `Rested`: `Named` (only the process in the pidfile is
  up), `Agrees` (traffic goes where it listens) and `Synced` (fw4 has loaded the include, without which
  a reboot would undo `Agrees`). `NoOrphan` and `DataPathAgrees` are what is left of `Rested` in a settled state; neither is inductive, for an operation
  suspends both on its way.
- *The hold.* `StopsForGood` speaks of the longer histories in which `exclusive` is true. `Duties` says which request can be at which line, and that a
  goroutine has a configuration only once it loaded one. `ExclusivelyKept` adds to it `Kept` (what `StopsForGood` promises), and for every goroutine at work
  what it knows of the processes (`Accounts`), that one that may start sing-box is at work only when no stop has gone through since it was asked for, and that a teardown has the supervisor off and, at the `hold`, the
  process down (`Obeys`). Several stops may be at the same line, or behind each other, without breaking what the others know.
- *Capture.* `SeriallyAnswered` says for each line who will bring sing-box back, if traffic is diverted to it and it is not there (`Answers`): the supervisor,
  the boot of the daemon, or the goroutine itself; or nobody, where a boot found the data path and left it (`abandoned`). It rests on the three invariants above: `Fresh` (nothing is at work beside
  the boot), `Serially`, and `ExclusivelyKept`, since a boot with the hold engaged finds nothing to answer for only because the stop behind it left nothing.

- *The service.* `DownIsCleanCorrect`, about Service, for any goroutines and requests. Nothing need be known of the daemon while it lives, however its operations
  overlap: when it ends, every goroutine has gone (`Ended`), and from then on the sweep is the only one at work. `Sweeps` is the path it
  has to go before it is done, and `Clean` what it leaves. Only the `Shape` of the variables is taken from the daemon; the types of Runtime
  do not hold of a service, whose teardown is no request of the RPC interface.

**FirewallProofs** (`TypeCorrect`, `ApplyCorrect`, `StopCorrect`, `ContainedThroughoutCorrect`), for every set of machines,
every set of settings and every history. First that the chains mean what the
settings mean, one lemma per chain and per bucket, then what the kernel holds. The inductive invariant `Loaded` says that the include is the one of
`written` and the chains are those of `loaded` (`IncludeIsWritten`, `ChainsAreLoaded`), that no set has an element which none of the settings
in `mixed` gives it (`ElementsAreMixed`), that the sets flushed so far have only elements of the operation's own settings (`FlushedSoFar`; another service may reload the include in between), and what
follows where nothing has gone wrong: the sets have exactly the elements of the settings, or no chain reads them (`ExactIsLoaded`). `ApplyCorrect` and `StopCorrect` are about the states that are `exact`.
`ContainedThroughout` is about all of them, half-flushed, failed or foreign: a packet that every one of the `mixed` settings contains is in no bypass bucket, whatever part of the
elements is there, and so meets a chain that blocks it. The catch-all is why this needs no element to be there.

**ConfigProofs** (`TypeCorrect`, `DeletesNeverRefused`,
`EditsApply`, `SerialLeavesNoOrphans`), for any number of handlers and any bounds. `EditsApply` needs `OneWriter`: while edits have stayed apart, the base of a goroutine about to write
is the file. `SerialLeavesNoOrphans` needs `SerialInv`: while operations have been serial, at most one
goroutine is not idle, what it has loaded is the file, and a refresh that is under way is for a
subscription in it. `DeletesNeverRefused` goes through every delete and every
reference it has to take along.

**DocumentProofs**, about Render (`DocumentClosed`, `NoResolverLoop`, `SelectionServed`, `DirectOnlyWithoutNodes`), for
every valid configuration with any number of nodes, servers, rules and rule sets. The
invariant `Made` says that the document is the one `Document` makes of the saved
configuration and some set of files that are still there; files are only added, which is
why a rule set that had a file when the document was made is still obtainable. The proofs assume of `Rank` that every non-empty set of ids has a first
element, which finite sets of ids have.

About Health (`RollUpCorrect`, `HealthyServes`), for finitely many nodes with any results. The loop over the results is followed round by round: what it has counted
is what the results so far amount to (an induction, by Iteration), and since a roll-up speaks of the whole set only, the order of the loop does not matter. The invariant says that
what is reported was rolled up from the results of the nodes of the saved configuration. `HealthyServes` then takes the node that was found ok from the
copy of `groupNodes` in `health.go` to the one in the renderer.

About Probe (`ProbeTypeCorrect`, `OkMeasured`, `NobodyStranded`), for any number of checks, nodes, tags and ports, and for checks that
share a port. The invariant `CheckKept` follows one check through the steps of all the others: each outbound of its instance has the tag or the id of its
node, and no two the same (`OutboundsApart`); a node is either still to be looked at, an outbound, or has its result (`InTurn`); an ok was measured
through the outbound of that node (`Measured`), since an instance answers nobody but the check whose
secret it was started with; and no good node that has a tag or an id of its own is given up as long as nothing has failed for it or around the check (`GoodKept`).

**UciProofs** (`RoundTripCorrect`), for any texts written by hand, any values and any number of edits. The parser takes lines out of a text and then reads them;
`OnePass` is that it may as well go letter by letter, so that what it makes of a text put together from parts is made of the parts one after the other. From there up: a quoted word
reads as that word, a line as its directive, a section as the section, whatever was read before; or there is a line break in one of the words, and nothing that
follows brings the reading back. The invariant is `RoundTrip` with the types (`TextInv`).

**FileProofs**, about Import (`ImportCorrect`), for any answers of the shapes `ImportConstants` has, in any order. One lemma for each form of entry follows it from its fields to the
outbound (`EntryRight`); the file in between loses nothing (`nodeSection` and `readNode`). The invariant is that the file has one node for each entry that was taken,
the node that the entry was read as. That two entries with one hash are two nodes is the number `AssignSource` puts behind it; that there are at least as many outbounds of
a kind as entries that mean it is a matter of cardinalities.

About Sections (`EditsImplemented`), for files of any length in any order, any number of edits. `Shows` says of a set of sections, without an order, which configuration they stand for. In a tidy
file no two sections are read as one, so the file shows just one configuration (`ShowsOne`), and it is the one that is read (`ReadShows`). For each of the edits a lemma
(`UpsertSubscriptionRight`, `DeleteRuleSetRight` and so on) says that it makes of a tidy file that shows `c` one that is tidy and shows what the edit of ConfigEdits makes of `c`; they rest on a few
facts about lists that are changed in place, cut down, or added to (`Appended`, `PutTidy`, `KeptWhere`). The inductive invariant is that the file is tidy; each step is then one of EditedConfig or a stutter.

**Iteration** is the induction these proofs use. The provers cannot use an induction theorem that takes the claim as an operator; `Induct` takes it as a set, the numbers it is true of, and rests on
the least element of a set (`WFMin`). `Fold` is the `FoldLeft` of the community modules for the body `Round`, round by round.

Only model-checked: liveness, which needs fairness and so `ENABLED`. These are `SupervisorSpec`, `SupervisorRestores`, `StopsEventually`, `Restored`, `NobodyStarves` and `EveryCheckEnds`;
TLC shows them for the instances above. Every other property of a passing run is a theorem.
`KillSwitchHasNoGap` is one under the two hypotheses said there, which are also those of its run.

## 6. Where the code does not do what it says

Three runs end with a counterexample to a sentence of the code:

- **A stop can be undone by the supervisor** (`find_stop_race`). `stopRuntime` promises that "neither the
  supervisor nor a reboot brings it back until an explicit start" (`main.go:1685-1687`). A loop that took
  its snapshot and found sing-box dead before `disableSupervisor` goes on into `startOnce` and starts sing-box after
  the stop has returned. It then runs with the hold engaged and nobody watching it.
- **A stop can leave a device outside the kill switch** (`find_stale_sets`). The comment of `ManagedSets`
  (`firewall.go:44-49`) says the sets must be flushed before every reload; `applyKillSwitchFirewall`
  does not. When the settings changed while sing-box ran, a device that the old ones
  bypassed stays in the bypass set. This is why `StoppedIsIntended` speaks of a stop only when the kernel was
  in the state of the same settings (`Reached`).
- **A stop can be forgotten** (`find_hold_lost`). A scheduler that read the file before the hold was engaged
  writes it back without it. `NoLostUpdate` says that this takes two overlapping edits.

The following were met on the way. They are consequences of the modelled code, and no run is spent on them:

- The request `reload` starts a stopped sing-box although the hold is engaged; so does a
  configuration change that overlaps a stop, because `reload` looks at the pidfile again. `StopsForGood` takes a reload for something that was asked for.
- A stop or a pause whose configuration cannot be loaded calls no `Control` (`main.go:1656-1659`), but engages the hold all the same (1690, 1706): sing-box goes on
  with nobody having stopped it, and the next boot does not look at it. A stop whose hold cannot be written says nothing of it (1690), and the next boot starts sing-box again. For
  `StopsForGood` neither of them went through.
- A start or restart that cannot lift the hold ignores it (1675, 1681) and runs sing-box under it; after a reboot the include still diverts the LAN, and the boot honours the
  hold. `NoBlackHole` calls this `abandoned`; so is the data path of a crashed or rebooted daemon that cannot load its file (372-375), or whose manager has been disabled.
- Two starts that overlap (two requests, a request and the loop, or the retry of one that the client gave up) both find no pid and both spawn. The one that does not get the ports dies, and its
  clean-up takes the firewall down under the other one, whose pid is no longer in the pidfile either (`runtime.go` 145-198). No property excludes it: `StopsForGood` asks for starts that were alone, and the
  others for operations that were.
- A stop or pause without a kill switch cleans the include; one that is interrupted by a power failure between its steps
  leaves an include that diverts the LAN at boot with no sing-box behind it, and a boot with the hold engaged does not look at it.
- In the whitelist mode (`default off`) a proxied device that the kill switch contains gets out between the flush of the
  sets and the reload. `ContainedThroughout` is stated for the other mode, in which the catch-all closes this gap.
- A daemon that ends between the start of sing-box and the write of the pidfile leaves a process the sweep cannot find.
  `DownIsClean` speaks of the firewall only.
- With no enabled DNS server the document has no dns section but still names the resolver `domain-bootstrap`;
  an enabled remote rule set with a path, no URL and no file is referred to and not defined. `Closed` excludes both.
- A remote rule set without a path is downloaded to a default path at which `renderRuleSet` never looks.
- Under the strategy `manual` the tag of the selected node is not compared with the built-in tags, and the document may define one tag twice.
- A rule with sources whose rule sets are all disabled stays, and then matches all traffic of its sources.
- A refresh whose provider dropped the selected node is refused by validation, and the failure is not recorded in the file (`main.go:944`
  returns before `MarkSubscriptionError`). The subscription is then tried again at every tick. `NobodyStarves` excludes this one source, and says that the others
  do not suffer from it. One incomplete link in an answer has the same effect: `Validate` refuses all of the answer, not the link.
- An empty answer of a provider (status 200, no entry) is no error for a list of links, and removes all nodes of its subscription.
- `reload` beside a stop looks at the pidfile after its validation (`runtime.go` 258-260), and starts the sing-box the stop has just ended.
- `RunningPID` removes the file it has found stale without another look (`runtime.go` 389-394). A request for the status that has read the old
  file can remove the new one, and a second sing-box is started beside the first. This is what the last condition of `calm` in Pidfile excludes.
- A value with a line break is written as it is, and `parseUCI` cannot read the file any more: it is lost to the daemon and to every later edit.
  `RoundTrip` states this case beside the others.
- Import (`Unread`): the `alpn` and the fingerprint of an encoded vmess link (`subscription.go` 432-445), the service name of a grpc link, the plugin of Shadowsocks (538-568), the obfs of hysteria2 and the
  multiplexing of any entry are dropped without a word; a server that insists on them is not reached. `DialledAsProvided` demands everything else of such an entry.
- Import (`Misread`): `alpn`, `insecure` or a reality block turn TLS on where the entry has it disabled; the reality of a vmess node and its cipher share one option; a
  hysteria2 or trojan link without `security` and SNI is dialled without TLS; the host of an http transport is dropped from a JSON entry;
  a vmess link that says only `1` or `true` for TLS gets none.
- The address of the TUN device cannot be cleared: an empty option reads back as the default (`readTUN`).
- The comment of `ProbeOptions` says that `Concurrency` "Defaults to 16", the constant is 32.
- The directory of a probe is left behind when the signal goroutine ends the daemon, as deferred calls do not run.

## 7. What is left out

- Runtime takes `RunningPID` as one step, never reuses a pid that is named somewhere, and has one policy rule or none. Pidfile and Routes have these, each without
  the rest of the system: no step on the pidfile or the routes depends on the firewall or the configuration.
- The client's timeouts are not modelled as such: any request may arrive while any other runs, which includes retries. The `cleanup` that
  the client runs by itself when the daemon does not answer (`main.go` 606-611) is the sweep of Service when the daemon is down; beside a daemon that is only slow, it is not modelled.
- Validation of single fields (addresses, ports, names), the defaults of options and the decoding of payloads.
- The text of share links, URLs, base64 and JSON: Import begins with their fields. The leading slash of a grpc service name, which the renderer trims.
- `TestDNS`, one connection without a state. How long probes and back-offs take.
- Local and disabled rule sets in ConfigStore; several groups; imported nodes that change places in an answer and differ in nothing their id is made of, which swap their ids (`subscription.go` 104-106).
- Kernel, fw4, nft, procd and sing-box are external: they do what the code relies on, and fail where the code looks at an error.
- LuCI, packaging, logs, statistics and device discovery: no state of the daemon depends on them.

## 8. Plan

Done: Supervisor, Runtime, Service, Firewall, ConfigStore, Render; then Pidfile, Routes, Refresh, Sections, Uci, Import, Health and Probe, each with its properties; proofs of
every safety property of all of them, the refinement of EditedConfig by Sections among them. That Runtime implements Supervisor with its fairness is checked by TLC (`runtime_liveness`).

Next theorems:

1. An abstract specification of the runtime (down, up, held), and that operations that come one at a time implement it. `Serially` and `ExclusivelyKept` are the invariants it needs.
2. `RunningPID` and the routes of Runtime as abstractions of Pidfile and Routes: that a `calm` behaviour of the one is a behaviour of the other.
3. Sections printed and read by Uci: that the text, the sections and the configuration are one chain of refinements. The pieces are `RoundTripCorrect` and `EditsImplemented`; the values of
   single options are what is missing between them.

Next modules, if the code grows there: the options of a section with their readers, writers and defaults; the client with its timeouts and its own `cleanup`.
