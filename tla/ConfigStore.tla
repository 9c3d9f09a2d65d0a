---------------------------- MODULE ConfigStore ----------------------------
(***************************************************************************)
(* The configuration file and everybody who edits it: the goroutines that  *)
(* serve requests and the schedulers of main.go.  An edit reads the file,  *)
(* works on what it read and renames the new file into place (editConfig); *)
(* nothing locks the file in between.  A refresh fetches between a read    *)
(* and an edit.                                                            *)
(***************************************************************************)
EXTENDS ConfigEdits

CONSTANTS
  Handlers,       \* goroutines serving requests
  Updater,        \* startSubscriptionScheduler
  RuleUpdater,    \* startRuleSetScheduler
  Prober,         \* startHealthScheduler
  Initial,        \* the files the daemon may start with
  Edits,          \* the edits users ask for
  Provided,       \* the node names a provider may answer with
  Budgets         \* bounds on the requests, health checks and crashes,
                  \* and on the intervals that pass

Schedulers == {Updater, RuleUpdater, Prober}
Threads == Handlers \cup Schedulers

ASSUME StoreConstants ==
  /\ Handlers \cap Schedulers = {} /\ Cardinality(Schedulers) = 3
  /\ \A c \in Initial : /\ c \in Configs /\ Valid(c)
                        /\ \A n \in c.nodes : n[1] \in c.subs \cup {Manual}
  /\ \A e \in Edits : WellFormed(e) /\ e.op # "ReplaceSubscriptionNodes"
  /\ Provided \subseteq SUBSET Names
  /\ Budgets \subseteq [events : Nat, ticks : Nat]
  /\ None \notin Configs

VARIABLES
  store,   \* the file
  pc,      \* per thread: idle, batch, fetch, read, write
  job,     \* per thread: the edit to be made, or the source to be fetched
  base,    \* per thread: the file as it was loaded last
  todo,    \* per thread: the sources its loop still goes through
  next,    \* per thread: what follows when the edit is made (import)
  budget,  \* what the bounds leave
  serial,  \* history: no two operations have overlapped
  apart    \* history: no two edits have overlapped, read to write

threadVars == <<pc, job, base, todo, next>>
historyVars == <<serial, apart>>
vars == <<store, threadVars, budget, historyVars>>

NoEdit == [op |-> "none", id |-> None]

Init ==
  /\ store \in Initial
  /\ pc = [t \in Threads |-> "idle"]
  /\ job = [t \in Threads |-> NoEdit]
  /\ base = [t \in Threads |-> None]
  /\ todo = [t \in Threads |-> {}]
  /\ next = [t \in Threads |-> NoEdit]
  /\ budget \in Budgets
  /\ serial = TRUE /\ apart = TRUE

Spend(what) == budget[what] > 0 /\ budget' = [budget EXCEPT ![what] = @ - 1]

-----------------------------------------------------------------------------
(* The steps of a thread.                                                  *)

(* t is going to make edit e, and n after it.                              *)
Prepare(t, e, n) ==
  /\ pc' = [pc EXCEPT ![t] = "read"]
  /\ job' = [job EXCEPT ![t] = e]
  /\ next' = [next EXCEPT ![t] = n]
  /\ UNCHANGED <<store, base, todo>>

(* t goes through sources S, one after the other.                          *)
Batch(t, S) ==
  /\ S # {}
  /\ pc' = [pc EXCEPT ![t] = "batch"]
  /\ todo' = [todo EXCEPT ![t] = S]
  /\ UNCHANGED <<store, job, base, next>>

(* What t does when an edit or a refresh is over.                          *)
Onwards(t) ==
  pc' = [pc EXCEPT ![t] = IF todo[t] # {} THEN "batch" ELSE "idle"]

(* A source can be refreshed: refreshSubscriptionByID looks at the file    *)
(* again, Download works with the rule set that was loaded before.         *)
Refreshable(s) == s \in Subs => s \in store.subs \cap store.on

(* t fetches s, or goes on if there is nothing to fetch.                   *)
StartFetch(t, s) ==
  /\ pc' = [pc EXCEPT ![t] = IF Refreshable(s) THEN "fetch"
                             ELSE IF todo'[t] # {} THEN "batch" ELSE "idle"]
  /\ job' = [job EXCEPT ![t] = IF Refreshable(s) THEN [op |-> "fetch", id |-> s] ELSE NoEdit]
  /\ base' = [base EXCEPT ![t] = IF Refreshable(s) THEN store ELSE None]
  /\ next' = [next EXCEPT ![t] = NoEdit]
  /\ UNCHANGED store

Pick(t) ==
  /\ pc[t] = "batch"
  /\ \E s \in todo[t] : todo' = [todo EXCEPT ![t] = @ \ {s}] /\ StartFetch(t, s)
  /\ UNCHANGED budget

(* Fetch, Parse and AssignSource, or Download, have ended.                 *)
Fetched(t) ==
  LET s == job[t].id IN
  /\ pc[t] = "fetch"
  /\ \/ /\ s \in Subs
        /\ \E names \in Provided :
             Prepare(t, [op |-> "ReplaceSubscriptionNodes", id |-> s, nodes |-> {s} \X names], NoEdit)
     \/ s \in RuleSets /\ Prepare(t, [op |-> "MarkRuleSetUpdated", id |-> s], NoEdit)
  /\ UNCHANGED budget

(* Defect: the round ends with the first failure.                          *)
FetchFailedEnding(t) ==
  LET s == job[t].id IN
  /\ pc[t] = "fetch"
  /\ pc' = [pc EXCEPT ![t] = "read"]
  /\ job' = [job EXCEPT ![t] = [op |-> IF s \in Subs THEN "MarkSubscriptionError"
                                      ELSE "MarkRuleSetError", id |-> s]]
  /\ todo' = [todo EXCEPT ![t] = {}]
  /\ next' = [next EXCEPT ![t] = NoEdit]
  /\ UNCHANGED <<store, base, budget>>

(* Their error is recorded, and the loop goes on.                          *)
FetchFailed(t) ==
  LET s == job[t].id IN
  /\ pc[t] = "fetch"
  /\ Prepare(t, [op |-> IF s \in Subs THEN "MarkSubscriptionError" ELSE "MarkRuleSetError",
                 id |-> s], NoEdit)
  /\ UNCHANGED budget

(* Defect: a refresh edits the file that it loaded before it fetched.      *)
ReadOnce(t) ==
  /\ pc[t] = "read"
  /\ base' = [base EXCEPT ![t] = IF @ = None THEN store ELSE @]
  /\ pc' = [pc EXCEPT ![t] = "write"]
  /\ UNCHANGED <<store, job, todo, next, budget>>

(* editConfig reads the file.                                              *)
Read(t) ==
  /\ pc[t] = "read"
  /\ base' = [base EXCEPT ![t] = store]
  /\ pc' = [pc EXCEPT ![t] = "write"]
  /\ UNCHANGED <<store, job, todo, next, budget>>

(* editConfig writes what it made of it, or returns an error.              *)
Write(t) ==
  LET ok == Accepted(base[t], job[t]) IN
  /\ pc[t] = "write"
  /\ store' = IF ok THEN Mutate(base[t], job[t]) ELSE store
  /\ base' = [base EXCEPT ![t] = None]
  /\ job' = [job EXCEPT ![t] = NoEdit]
  /\ IF ok /\ next[t] # NoEdit
       THEN pc' = [pc EXCEPT ![t] = "import"] /\ UNCHANGED next
       ELSE Onwards(t) /\ next' = [next EXCEPT ![t] = NoEdit]
  /\ UNCHANGED <<todo, budget>>

(* importSubscription refreshes what it has saved, or saves the nodes that *)
(* were in the request.                                                    *)
Imported(t) ==
  /\ pc[t] = "import"
  /\ UNCHANGED <<todo, budget>>
  /\ \/ next[t].op = "fetch" /\ StartFetch(t, next[t].id)
     \/ next[t].op # "fetch" /\ Prepare(t, next[t], NoEdit)

-----------------------------------------------------------------------------
(* Where the work comes from.                                              *)

(* An edit asked for as it is: handleRPC's set and delete requests.        *)
Request(t) ==
  /\ pc[t] = "idle" /\ Spend("events")
  /\ \E e \in Edits : Prepare(t, e, NoEdit)

(* importSubscription, of a link or of the nodes themselves.               *)
Import(t) ==
  /\ pc[t] = "idle" /\ Spend("events")
  /\ \E s \in Subs :
       LET Upsert(on) == [op |-> "UpsertSubscription", id |-> s, on |-> on, attach |-> TRUE] IN
       \/ Prepare(t, Upsert(TRUE), [op |-> "fetch", id |-> s])
       \/ \E names \in Provided :
            Prepare(t, Upsert(FALSE), [op |-> "ReplaceSubscriptionNodes", id |-> s,
                                       nodes |-> {s} \X names])

(* selectNode: the node exists and is available to the group.              *)
Select(t) ==
  /\ pc[t] = "idle" /\ Spend("events")
  /\ \E n \in store.nodes :
       /\ store.members = {} \/ n[1] \in store.members \cup {Manual}
       /\ Prepare(t, [op |-> "SelectNode", id |-> n], NoEdit)

(* refreshSubscription, refreshRuleSet and refreshSubscriptions.           *)
Refresh(t) ==
  /\ pc[t] = "idle" /\ Spend("events")
  /\ \/ \E s \in store.on \cup store.rulesets : Batch(t, {s})
     \/ Batch(t, store.on)

(* The schedulers look for what is due while the manager is active.        *)
Scheduled(t) ==
  /\ pc[t] = "idle" /\ Active(store)
  /\ \/ t = Updater /\ Batch(t, Due(store) \cap Subs)
     \/ t = RuleUpdater /\ Batch(t, Due(store) \cap RuleSets)
  /\ UNCHANGED budget

(* CheckURL has probed the nodes, and UpdateHealth records the results, on *)
(* request (healthCheck, nodesURLTest) or as scheduled.                    *)
CheckHealth(t) ==
  /\ pc[t] = "idle" /\ (t \in Handlers \/ (t = Prober /\ Active(store)))
  /\ Spend("events")
  /\ Prepare(t, [op |-> "UpdateHealth", id |-> None], NoEdit)

(* The update interval of a source has passed, wherever its last_update    *)
(* has been copied to.                                                     *)
Aged(c, s) == IF c = None THEN None ELSE [c EXCEPT !.fresh = @ \ {s}]
Expire ==
  /\ Spend("ticks")
  /\ \E s \in store.fresh :
       /\ store' = Aged(store, s)
       /\ base' = [t \in Threads |-> Aged(base[t], s)]
  /\ UNCHANGED <<pc, job, todo, next, historyVars>>

(* The daemon crashes and comes back; the file is what was renamed last.   *)
Crash ==
  /\ Spend("events")
  /\ pc' = [t \in Threads |-> "idle"]
  /\ job' = [t \in Threads |-> NoEdit]
  /\ base' = [t \in Threads |-> None]
  /\ todo' = [t \in Threads |-> {}]
  /\ next' = [t \in Threads |-> NoEdit]
  /\ UNCHANGED <<store, historyVars>>

-----------------------------------------------------------------------------
Step(t) == Pick(t) \/ Fetched(t) \/ FetchFailed(t) \/ Read(t) \/ Write(t) \/ Imported(t)

Begin(t) ==
  \/ t \in Handlers /\ (Request(t) \/ Import(t) \/ Select(t) \/ Refresh(t))
  \/ Scheduled(t) \/ CheckHealth(t)

(* Operations overlap when a thread goes on while another is at work,      *)
(* edits when a thread reads the file while another is about to write it.  *)
Tracked(t) ==
  /\ Step(t) \/ Begin(t)
  /\ serial' = (serial /\ \A u \in Threads \ {t} : pc[u] = "idle")
  /\ apart' = (apart /\ (pc'[t] = "write" => \A u \in Threads \ {t} : pc[u] # "write"))

Next == (\E t \in Threads : Tracked(t)) \/ Expire \/ Crash

Spec == Init /\ [][Next]_vars

-----------------------------------------------------------------------------
(* Properties.                                                             *)

TypeOK ==
  /\ store \in Configs
  /\ pc \in [Threads -> {"idle", "batch", "fetch", "read", "write", "import"}]
  /\ \A t \in Threads : todo[t] \subseteq Sources
  /\ \A t \in Threads : base[t] \in Configs \cup {None}
                        /\ (pc[t] \in {"fetch", "write"} => base[t] # None)
  /\ {serial, apart} \subseteq BOOLEAN

(* What exists can be deleted: a delete takes along all that refers to it, *)
(* so validation never refuses one and no section is stuck in the file.    *)
Deletes == {[op |-> "DeleteSubscription", id |-> s] : s \in store.subs}
      \cup {[op |-> "DeleteManualNode", id |-> n] : n \in store.nodes \cap NodesOf(Manual)}
      \cup {[op |-> "DeleteDNSServer", id |-> d] : d \in store.servers}
      \cup {[op |-> "DeleteRule", id |-> r] : r \in {q \in Rules : store.rules[q] # None}}
      \cup {[op |-> "DeleteRuleSet", id |-> g] : g \in store.rulesets}
DeletesAccepted == \A e \in Deletes : Accepted(store, e)

(* As long as operations come one at a time, no imported node outlives its *)
(* subscription: nobody could delete it (DeleteManualNode and              *)
(* DeleteSubscription both refuse).                                        *)
NoOrphanNodes == serial => \A n \in store.nodes : n[1] \in store.subs \cup {Manual}

(* A stop is kept until an explicit start ("neither the supervisor nor a   *)
(* reboot brings it back until an explicit start", stopRuntime): only an   *)
(* edit that says so changes the hold.                                     *)
HoldIsKept ==
  [][\A t \in Threads : Write(t) /\ job[t].op # "SetManagerPaused"
                          => store'.paused = store.paused]_vars

(* No lost update: as long as no two edits overlap, each one works on the  *)
(* file as it is and is kept or refused as a whole, however long a fetch   *)
(* of another thread, or its own, has been under way.                      *)
Edited(c, e) == IF Accepted(c, e) THEN Mutate(c, e) ELSE c
NoLostUpdate ==
  [][apart' => \A t \in Threads : Write(t) => store' = Edited(store, job[t])]_vars
=============================================================================
