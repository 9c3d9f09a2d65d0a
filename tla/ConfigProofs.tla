---------------------------- MODULE ConfigProofs ----------------------------
(***************************************************************************)
(* Theorems about ConfigStore: the file keeps its type, what exists can be *)
(* deleted, edits that do not overlap are not lost, and operations that do *)
(* not overlap leave no orphaned node.                                     *)
(***************************************************************************)
EXTENDS ConfigStore, TLAPS

-----------------------------------------------------------------------------
(* The edits.                                                              *)

(* An edit of the right shape keeps the shape of the configuration.        *)
LEMMA MutateType ==
  ASSUME NEW c \in Configs, NEW e, WellFormed(e)
  PROVE  Mutate(c, e) \in Configs
<1>1. CASE e.op = "UpsertSubscription"
  <2>1. e.id \in Subs /\ e.on \in BOOLEAN /\ e.attach \in BOOLEAN
    BY <1>1 DEF WellFormed
  <2>2. UpsertSubscription(c, e.id, e.on, e.attach) \in Configs
    BY <2>1, ZenonT(60) DEF UpsertSubscription, Configs
  <2> QED
    BY <1>1, <2>2 DEF Mutate
<1>2. CASE e.op = "ReplaceSubscriptionNodes"
  <2>1. e.id \in Subs /\ e.nodes \subseteq NodesOf(e.id)
    BY <1>2 DEF WellFormed
  <2>2. e.nodes \subseteq Nodes
    BY <2>1 DEF NodesOf, Nodes
  <2>3. ReplaceSubscriptionNodes(c, e.id, e.nodes) \in Configs
    BY <2>1, <2>2 DEF ReplaceSubscriptionNodes, Configs, Sources
  <2> QED
    BY <1>2, <2>3 DEF Mutate
<1>3. CASE e.op \in {"MarkSubscriptionError", "DeleteSubscription"}
  <2>1. e.id \in Subs
    BY <1>3 DEF WellFormed
  <2>2. MarkSubscriptionError(c, e.id) \in Configs
    BY <2>1 DEF MarkSubscriptionError, Configs, Sources
  <2>3. DeleteSubscription(c, e.id) \in Configs
    BY <2>1 DEF DeleteSubscription, Configs
  <2> QED
    BY <1>3, <2>2, <2>3 DEF Mutate
<1>4. CASE e.op \in {"UpsertManualNode", "DeleteManualNode", "SelectNode", "SetGroupSettings"}
  <2>1. CASE e.op \in {"UpsertManualNode", "DeleteManualNode", "SelectNode"}
    <3>1. e.id \in Nodes
      BY <2>1 DEF WellFormed
    <3>2. UpsertManualNode(c, e.id) \in Configs /\ SelectNode(c, e.id) \in Configs
      BY <3>1 DEF UpsertManualNode, SelectNode, Configs
    <3>3. DeleteManualNode(c, e.id) \in Configs
      BY <3>1 DEF DeleteManualNode, Configs
    <3> QED
      BY <2>1, <3>2, <3>3 DEF Mutate
  <2>2. CASE e.op = "SetGroupSettings"
    <3>1. e.id \in Nodes \cup {None} /\ e.members \subseteq Subs /\ e.final \in Servers \cup {None}
      BY <2>2 DEF WellFormed
    <3>2. SetGroupSettings(c, e.members, e.id, e.final) \in Configs
      BY <3>1 DEF SetGroupSettings, Configs
    <3> QED
      BY <2>2, <3>2 DEF Mutate
  <2> QED
    BY <1>4, <2>1, <2>2
<1>5. CASE e.op \in {"UpsertDNSServer", "UpdateHealth", "UpsertRuleSet"}
  <2>1. CASE e.op = "UpsertDNSServer"
    <3>1. e.id \in Servers
      BY <2>1 DEF WellFormed
    <3>2. UpsertDNSServer(c, e.id) \in Configs
      BY <3>1 DEF UpsertDNSServer, Configs
    <3> QED
      BY <2>1, <3>2 DEF Mutate
  <2>2. CASE e.op = "UpdateHealth"
    BY <2>2 DEF Mutate, UpdateHealth
  <2>3. CASE e.op = "UpsertRuleSet"
    <3>1. e.id \in RuleSets
      BY <2>3 DEF WellFormed
    <3>2. UpsertRuleSet(c, e.id) \in Configs
      BY <3>1, SMTT(40) DEF UpsertRuleSet, Configs
    <3> QED
      BY <2>3, <3>2 DEF Mutate
  <2> QED
    BY <1>5, <2>1, <2>2, <2>3
<1>6. CASE e.op = "DeleteDNSServer"
  <2>1. DeleteDNSServer(c, e.id) \in Configs
    BY DEF DeleteDNSServer, Configs
  <2> QED
    BY <1>6, <2>1 DEF Mutate
<1>7. CASE e.op \in {"UpsertRule", "DeleteRule"}
  <2>1. e.id \in Rules /\ (e.op = "UpsertRule" => e.body \in Bodies)
    BY <1>7 DEF WellFormed
  <2> QED
    BY <1>7, <2>1 DEF Mutate, UpsertRule, DeleteRule, Configs
<1>8. CASE e.op \in {"MarkRuleSetUpdated", "MarkRuleSetError"}
  <2>1. e.id \in RuleSets
    BY <1>8 DEF WellFormed
  <2>2. MarkRuleSetUpdated(c, e.id) \in Configs
    BY <2>1 DEF MarkRuleSetUpdated, Configs, Sources
  <2>3. MarkRuleSetError(c, e.id) \in Configs
    BY <2>1, SMTT(40) DEF MarkRuleSetError, Configs, Sources
  <2> QED
    BY <1>8, <2>2, <2>3 DEF Mutate
<1>9. CASE e.op = "DeleteRuleSet"
  <2>1. ASSUME NEW body \in Bodies
        PROVE  Without(body, e.id) \in Bodies \cup {None}
    BY DEF Without, Bodies
  <2>2. DeleteRuleSet(c, e.id) \in Configs
    BY <2>1 DEF DeleteRuleSet, Configs
  <2> QED
    BY <1>9, <2>2 DEF Mutate
<1>10. CASE e.op \in {"SetManagerEnabled", "SetManagerPaused", "SetManagerRuntimeMode",
                      "UpsertTransparent", "UpsertTUN"}
  <2>1. CASE e.op = "SetManagerRuntimeMode"
    <3>1. SetManagerRuntimeMode(c, e.id) \in Configs
      BY <2>1 DEF WellFormed, SetManagerRuntimeMode, Configs
    <3> QED
      BY <2>1, <3>1 DEF Mutate
  <2>2. CASE e.op # "SetManagerRuntimeMode"
    <3>1. e.id \in BOOLEAN
      BY <1>10, <2>2 DEF WellFormed
    <3>2. SetManagerEnabled(c, e.id) \in Configs /\ SetManagerPaused(c, e.id) \in Configs
      BY <3>1 DEF SetManagerEnabled, SetManagerPaused, Configs
    <3>3. UpsertTransparent(c, e.id) \in Configs /\ UpsertTUN(c, e.id) \in Configs
      BY <3>1 DEF UpsertTransparent, UpsertTUN, Configs
    <3> QED
      BY <1>10, <2>2, <3>2, <3>3 DEF Mutate
  <2> QED
    BY <2>1, <2>2
<1> QED
  BY <1>1, <1>2, <1>3, <1>4, <1>5, <1>6, <1>7, <1>8, <1>9, <1>10 DEF WellFormed

(* A delete of what exists in a valid configuration leaves a valid one.    *)
LEMMA DeleteValid ==
  ASSUME NEW c \in Configs, Valid(c)
  PROVE  /\ \A s \in c.subs : Valid(DeleteSubscription(c, s))
         /\ \A n \in c.nodes : Valid(DeleteManualNode(c, n))
         /\ \A d \in c.servers : Valid(DeleteDNSServer(c, d))
         /\ \A r \in Rules : Valid(DeleteRule(c, r))
         /\ \A g \in c.rulesets : Valid(DeleteRuleSet(c, g))
<1> USE DEF Valid, ValidGroup, ValidRule
<1>1. ASSUME NEW s \in c.subs
      PROVE  Valid(DeleteSubscription(c, s))
  BY NodeConstants DEF DeleteSubscription, Configs
<1>2. ASSUME NEW n \in c.nodes
      PROVE  Valid(DeleteManualNode(c, n))
  BY DEF DeleteManualNode, Configs
<1>3. ASSUME NEW d \in c.servers
      PROVE  Valid(DeleteDNSServer(c, d))
  BY DEF DeleteDNSServer, Configs
<1>4. ASSUME NEW r \in Rules
      PROVE  Valid(DeleteRule(c, r))
  BY DEF DeleteRule, Configs
<1>5. ASSUME NEW g \in c.rulesets
      PROVE  Valid(DeleteRuleSet(c, g))
  <2> DEFINE d == DeleteRuleSet(c, g)
  <2>1. /\ ValidGroup(d) /\ ~(d.tproxy /\ d.tun) /\ d.servers = c.servers
        /\ d.rulesets = c.rulesets \ {g}
        /\ d.rules = [r \in Rules |-> IF c.rules[r] = None THEN None ELSE Without(c.rules[r], g)]
    BY DEF DeleteRuleSet, Configs
  <2>2. ASSUME NEW r \in Rules
        PROVE  ValidRule(d, r)
    <3>1. CASE c.rules[r] = None
      BY <2>1, <3>1
    <3>2. CASE c.rules[r] # None
      <4>1. c.rules[r] \in Bodies
        BY <3>2 DEF Configs
      <4>2. d.rules[r] = Without(c.rules[r], g)
        BY <2>1, <3>2
      <4>3. d.rules[r] # None =>
              /\ d.rules[r].server = c.rules[r].server /\ d.rules[r].sources = c.rules[r].sources
              /\ d.rules[r].sets = c.rules[r].sets \ {g}
              /\ d.rules[r].sources \/ d.rules[r].sets # {}
        BY <4>1, <4>2 DEF Without, Bodies
      <4> QED
        BY <2>1, <3>2, <4>3
    <3> QED
      BY <3>1, <3>2
  <2> QED
    BY <2>1, <2>2
<1> QED
  BY <1>1, <1>2, <1>3, <1>4, <1>5

LEMMA DeletesAcceptedLemma ==
  ASSUME store \in Configs, Valid(store)
  PROVE  DeletesAccepted
<1> USE DEF Deletes, Accepted, Found, Mutate
<1> SUFFICES ASSUME NEW e \in Deletes
             PROVE  Accepted(store, e)
  BY DEF DeletesAccepted
<1>1. CASE \E s \in store.subs : e = [op |-> "DeleteSubscription", id |-> s]
  BY <1>1, DeleteValid
<1>2. CASE \E n \in store.nodes \cap NodesOf(Manual) : e = [op |-> "DeleteManualNode", id |-> n]
  <2>1. PICK n \in store.nodes \cap NodesOf(Manual) : e = [op |-> "DeleteManualNode", id |-> n]
    BY <1>2
  <2>2. n[1] = Manual
    BY <2>1 DEF NodesOf
  <2>3. Valid(DeleteManualNode(store, n))
    BY <2>1, DeleteValid
  <2> QED
    BY <2>1, <2>2, <2>3
<1>3. CASE \E d \in store.servers : e = [op |-> "DeleteDNSServer", id |-> d]
  BY <1>3, DeleteValid
<1>4. CASE \E r \in Rules : store.rules[r] # None /\ e = [op |-> "DeleteRule", id |-> r]
  BY <1>4, DeleteValid
<1>5. CASE \E g \in store.rulesets : e = [op |-> "DeleteRuleSet", id |-> g]
  BY <1>5, DeleteValid
<1> QED
  BY <1>1, <1>2, <1>3, <1>4, <1>5

-----------------------------------------------------------------------------
(* Types.  A thread that is about to edit has a well-formed edit, one that *)
(* fetches has a source, and what follows an import is its refresh or its  *)
(* nodes.                                                                  *)

Labels == {"idle", "batch", "fetch", "read", "write", "import"}
Editing(t) == pc[t] \in {"read", "write"}
FollowUp(n) ==
  /\ n.id \in Subs
  /\ n.op \in {"fetch", "ReplaceSubscriptionNodes"}
  /\ n.op = "ReplaceSubscriptionNodes" => WellFormed(n)

ThreadOK(t) ==
  /\ pc[t] \in Labels /\ todo[t] \subseteq Sources
  /\ base[t] \in Configs \cup {None}
  /\ pc[t] \in {"fetch", "write"} => base[t] # None
  /\ Editing(t) => WellFormed(job[t])
  /\ pc[t] = "fetch" => job[t].id \in Sources
  /\ (Editing(t) /\ next[t] # NoEdit) \/ pc[t] = "import" => FollowUp(next[t])

TypeInv ==
  /\ store \in Configs
  /\ pc = [t \in Threads |-> pc[t]] /\ job = [t \in Threads |-> job[t]]
  /\ base = [t \in Threads |-> base[t]] /\ todo = [t \in Threads |-> todo[t]]
  /\ next = [t \in Threads |-> next[t]]
  /\ \A t \in Threads : ThreadOK(t)
  /\ serial \in BOOLEAN /\ apart \in BOOLEAN

LEMMA TypeImplied == TypeInv => TypeOK
BY DEF TypeInv, TypeOK, ThreadOK, Labels

LEMMA TypeInit == Init => TypeInv
BY StoreConstants DEF Init, TypeInv, ThreadOK, Labels, Editing, NoEdit

(* A thread that prepares a well-formed edit is all right.                 *)
LEMMA PrepareType ==
  ASSUME TypeInv, NEW t \in Threads, NEW e, NEW n, WellFormed(e), n = NoEdit \/ FollowUp(n),
         Prepare(t, e, n)
  PROVE  store' \in Configs /\ \A u \in Threads : ThreadOK(u)'
<1>1. store' \in Configs /\ base' = base /\ todo' = todo
  BY DEF Prepare, TypeInv
<1>2. /\ pc'[t] = "read" /\ job'[t] = e /\ next'[t] = n
      /\ \A u \in Threads \ {t} : pc'[u] = pc[u] /\ job'[u] = job[u] /\ next'[u] = next[u]
  BY DEF Prepare, TypeInv
<1>3. ASSUME NEW u \in Threads \ {t}
      PROVE  ThreadOK(u)'
  BY <1>1, <1>2, <1>3 DEF TypeInv, ThreadOK, Editing
<1>4. ThreadOK(t)'
  BY <1>1, <1>2 DEF TypeInv, ThreadOK, Editing, Labels
<1> QED
  BY <1>1, <1>3, <1>4

(* So is one that starts to fetch a source.                                *)
LEMMA StartFetchType ==
  ASSUME TypeInv, NEW t \in Threads, NEW s \in Sources,
         todo' = [todo EXCEPT ![t] = todo'[t]], todo'[t] \subseteq Sources, StartFetch(t, s)
  PROVE  store' \in Configs /\ \A u \in Threads : ThreadOK(u)'
<1>1. store' \in Configs /\ None \notin Configs
  BY StoreConstants DEF StartFetch, TypeInv
<1>2. \A u \in Threads \ {t} : /\ pc'[u] = pc[u] /\ job'[u] = job[u] /\ next'[u] = next[u]
                               /\ base'[u] = base[u] /\ todo'[u] = todo[u]
  BY DEF StartFetch, TypeInv
<1>3. ASSUME NEW u \in Threads \ {t}
      PROVE  ThreadOK(u)'
  BY <1>2, <1>3 DEF TypeInv, ThreadOK, Editing
<1>4. ThreadOK(t)'
  <2>1. CASE Refreshable(s)
    <3>1. /\ pc'[t] = "fetch" /\ job'[t].id = s /\ base'[t] = store
      BY <2>1 DEF StartFetch, TypeInv
    <3> QED
      BY <3>1, <1>1 DEF TypeInv, ThreadOK, Editing, Labels
  <2>2. CASE ~Refreshable(s)
    <3>1. pc'[t] \in {"batch", "idle"} /\ base'[t] = None
      BY <2>2 DEF StartFetch, TypeInv
    <3> QED
      BY <3>1 DEF TypeInv, ThreadOK, Editing, Labels
  <2> QED
    BY <2>1, <2>2
<1> QED
  BY <1>1, <1>3, <1>4

(* A thread that writes leaves a configuration.                            *)
LEMMA WriteType ==
  ASSUME TypeInv, NEW t \in Threads, Write(t)
  PROVE  store' \in Configs /\ \A u \in Threads : ThreadOK(u)'
<1>1. base[t] \in Configs /\ WellFormed(job[t]) /\ (next[t] # NoEdit => FollowUp(next[t]))
  BY DEF Write, TypeInv, ThreadOK, Editing
<1>2. store' \in Configs
  BY <1>1, MutateType DEF Write, TypeInv
<1>3. \A u \in Threads \ {t} : /\ pc'[u] = pc[u] /\ job'[u] = job[u] /\ next'[u] = next[u]
                               /\ base'[u] = base[u] /\ todo'[u] = todo[u]
  BY DEF Write, Onwards, TypeInv
<1>4. ASSUME NEW u \in Threads \ {t}
      PROVE  ThreadOK(u)'
  BY <1>3, <1>4 DEF TypeInv, ThreadOK, Editing
<1>5. /\ pc'[t] \in {"import", "batch", "idle"} /\ base'[t] = None /\ todo'[t] = todo[t]
      /\ pc'[t] = "import" => next'[t] = next[t] /\ next[t] # NoEdit
  BY DEF Write, Onwards, TypeInv
<1>6. ThreadOK(t)'
  BY <1>1, <1>5 DEF TypeInv, ThreadOK, Editing, Labels
<1> QED
  BY <1>2, <1>4, <1>6

LEMMA TypeStep ==
  ASSUME TypeInv, [Next]_vars
  PROVE  TypeInv'
<1>1. ASSUME UNCHANGED vars
      PROVE  TypeInv'
  BY <1>1 DEF vars, threadVars, historyVars, TypeInv, ThreadOK, Editing
<1>2. ASSUME NEW t \in Threads, Tracked(t)
      PROVE  TypeInv'
  <2>1. serial' \in BOOLEAN /\ apart' \in BOOLEAN
    BY <1>2 DEF Tracked, TypeInv
  <2>2. /\ pc' = [u \in Threads |-> pc'[u]] /\ job' = [u \in Threads |-> job'[u]]
        /\ base' = [u \in Threads |-> base'[u]] /\ todo' = [u \in Threads |-> todo'[u]]
        /\ next' = [u \in Threads |-> next'[u]]
    BY <1>2 DEF TypeInv, Tracked, Step, Begin, Pick, Fetched, FetchFailed, Read, Write, Onwards,
                Imported, Request, Import, Select, Refresh, Scheduled, CheckHealth, Prepare,
                Batch, StartFetch
  <2>3. store' \in Configs /\ \A u \in Threads : ThreadOK(u)'
    <3>1. CASE Pick(t)
      <4>1. PICK s \in todo[t] : todo' = [todo EXCEPT ![t] = @ \ {s}] /\ StartFetch(t, s)
        BY <3>1 DEF Pick
      <4>2. /\ s \in Sources /\ todo'[t] \subseteq Sources
            /\ todo' = [todo EXCEPT ![t] = todo'[t]]
        BY <4>1 DEF TypeInv, ThreadOK
      <4> QED
        BY <4>1, <4>2, StartFetchType
    <3>2. CASE Fetched(t)
      <4>1. CASE job[t].id \in Subs
        <5> DEFINE e(names) == [op |-> "ReplaceSubscriptionNodes", id |-> job[t].id,
                                nodes |-> {job[t].id} \X names]
        <5>1. CASE \E names \in Provided : Prepare(t, e(names), NoEdit)
          <6>1. PICK names \in Provided : Prepare(t, e(names), NoEdit)
            BY <5>1
          <6>2. names \subseteq Names
            BY StoreConstants
          <6>3. WellFormed(e(names))
            BY <4>1, <6>2 DEF WellFormed, NodesOf
          <6> QED
            BY <6>1, <6>3, PrepareType
        <5>2. job[t].id \notin RuleSets
          BY <4>1, EditConstants
        <5> QED
          BY <3>2, <5>1, <5>2 DEF Fetched
      <4>2. CASE job[t].id \notin Subs
        <5> DEFINE e == [op |-> "MarkRuleSetUpdated", id |-> job[t].id]
        <5>1. job[t].id \in RuleSets /\ Prepare(t, e, NoEdit)
          BY <3>2, <4>2 DEF Fetched
        <5>2. WellFormed(e)
          BY <5>1 DEF WellFormed
        <5> QED
          BY <5>1, <5>2, PrepareType
      <4> QED
        BY <4>1, <4>2
    <3>3. CASE FetchFailed(t)
      <4> DEFINE e == [op |-> IF job[t].id \in Subs THEN "MarkSubscriptionError"
                                                    ELSE "MarkRuleSetError", id |-> job[t].id]
      <4>1. job[t].id \in Sources /\ Prepare(t, e, NoEdit)
        BY <3>3 DEF FetchFailed, TypeInv, ThreadOK
      <4>2. WellFormed(e)
        BY <4>1 DEF WellFormed, Sources
      <4> QED
        BY <4>1, <4>2, PrepareType
    <3>4. CASE Read(t)
      <4>1. None \notin Configs
        BY StoreConstants
      <4> QED
        BY <3>4, <4>1 DEF Read, TypeInv, ThreadOK, Editing, Labels
    <3>5. CASE Write(t)
      BY <3>5, WriteType
    <3>6. CASE Imported(t)
      <4>1. FollowUp(next[t]) /\ todo' = todo /\ todo[t] \subseteq Sources
        BY <3>6 DEF Imported, TypeInv, ThreadOK
      <4>2. CASE next[t].op = "fetch" /\ StartFetch(t, next[t].id)
        <5>1. next[t].id \in Sources /\ todo' = [todo EXCEPT ![t] = todo'[t]]
          BY <4>1 DEF FollowUp, Sources, TypeInv
        <5> QED
          BY <4>1, <4>2, <5>1, StartFetchType
      <4>3. CASE next[t].op # "fetch" /\ Prepare(t, next[t], NoEdit)
        BY <4>1, <4>3, PrepareType DEF FollowUp
      <4> QED
        BY <3>6, <4>2, <4>3 DEF Imported
    <3>7. CASE Request(t)
      <4>1. PICK e \in Edits : Prepare(t, e, NoEdit)
        BY <3>7 DEF Request
      <4> QED
        BY <4>1, PrepareType, StoreConstants
    <3>8. CASE Import(t)
      <4> DEFINE Upsert(s, on) == [op |-> "UpsertSubscription", id |-> s, on |-> on, attach |-> TRUE]
                 Nodes1(s, names) == [op |-> "ReplaceSubscriptionNodes", id |-> s,
                                      nodes |-> {s} \X names]
      <4>1. PICK s \in Subs :
              \/ Prepare(t, Upsert(s, TRUE), [op |-> "fetch", id |-> s])
              \/ \E names \in Provided : Prepare(t, Upsert(s, FALSE), Nodes1(s, names))
        BY <3>8 DEF Import
      <4>2. WellFormed(Upsert(s, TRUE)) /\ WellFormed(Upsert(s, FALSE))
        BY DEF WellFormed
      <4>3. FollowUp([op |-> "fetch", id |-> s])
        BY DEF FollowUp
      <4>4. ASSUME NEW names \in Provided
            PROVE  FollowUp(Nodes1(s, names))
        <5>1. names \subseteq Names
          BY StoreConstants
        <5> QED
          BY <5>1 DEF FollowUp, WellFormed, NodesOf
      <4>5. CASE Prepare(t, Upsert(s, TRUE), [op |-> "fetch", id |-> s])
        BY <4>2, <4>3, <4>5, PrepareType
      <4>6. ASSUME NEW names \in Provided, Prepare(t, Upsert(s, FALSE), Nodes1(s, names))
            PROVE  store' \in Configs /\ \A u \in Threads : ThreadOK(u)'
        BY <4>2, <4>4, <4>6, PrepareType
      <4> QED
        BY <4>1, <4>5, <4>6
    <3>9. CASE Select(t)
      <4>1. PICK n \in store.nodes : Prepare(t, [op |-> "SelectNode", id |-> n], NoEdit)
        BY <3>9 DEF Select
      <4>2. WellFormed([op |-> "SelectNode", id |-> n])
        BY DEF WellFormed, TypeInv, Configs
      <4> QED
        BY <4>1, <4>2, PrepareType
    <3>10. CASE CheckHealth(t)
      <4>1. WellFormed([op |-> "UpdateHealth", id |-> None])
        BY DEF WellFormed
      <4> QED
        BY <3>10, <4>1, PrepareType DEF CheckHealth
    <3>11. CASE Refresh(t) \/ Scheduled(t)
      <4>1. PICK S \in SUBSET Sources : Batch(t, S)
        <5>1. store.on \subseteq Sources /\ store.rulesets \subseteq Sources
          BY DEF TypeInv, Configs, Sources
        <5>2. Due(store) \subseteq Sources
          BY <5>1 DEF Due
        <5> QED
          BY <3>11, <5>1, <5>2 DEF Refresh, Scheduled
      <4> QED
        BY <4>1 DEF Batch, TypeInv, ThreadOK, Editing, Labels
    <3> QED
      BY <1>2, <3>1, <3>2, <3>3, <3>4, <3>5, <3>6, <3>7, <3>8, <3>9, <3>10, <3>11
         DEF Tracked, Step, Begin
  <2> QED
    BY <2>1, <2>2, <2>3 DEF TypeInv
<1>3. ASSUME Expire
      PROVE  TypeInv'
  <2>1. PICK s \in store.fresh : /\ store' = Aged(store, s)
                                 /\ base' = [t \in Threads |-> Aged(base[t], s)]
    BY <1>3 DEF Expire
  <2>2. ASSUME NEW c \in Configs
        PROVE  Aged(c, s) \in Configs /\ c # None
    <3>1. c # None
      BY StoreConstants
    <3> QED
      BY <3>1 DEF Aged, Configs
  <2>3. Aged(None, s) = None
    BY DEF Aged
  <2>4. \A c \in Configs \cup {None} : /\ Aged(c, s) \in Configs \cup {None}
                                       /\ c # None => Aged(c, s) # None
    BY <2>2, <2>3
  <2> QED
    BY <1>3, <2>1, <2>2, <2>4 DEF Expire, historyVars, TypeInv, ThreadOK, Editing
<1>4. ASSUME Crash
      PROVE  TypeInv'
  BY <1>4 DEF Crash, historyVars, TypeInv, ThreadOK, Editing, Labels
<1> QED
  BY <1>1, <1>2, <1>3, <1>4 DEF Next

(* The file and the threads keep their types, for every set of sections,   *)
(* threads, initial files and edits.                                       *)
THEOREM TypeCorrect == Spec => []TypeOK
<1>1. Init => TypeInv
  BY TypeInit
<1>2. TypeInv /\ [Next]_vars => TypeInv'
  BY TypeStep
<1>3. TypeInv => TypeOK
  BY TypeImplied
<1> QED
  BY <1>1, <1>2, <1>3, PTL DEF Spec

-----------------------------------------------------------------------------
(* Validity.                                                               *)

LEMMA ValidStep ==
  ASSUME TypeInv, Valid(store), [Next]_vars
  PROVE  Valid(store')
<1>1. ASSUME NEW t \in Threads, Tracked(t)
      PROVE  Valid(store')
  <2>1. CASE Write(t)
    BY <2>1 DEF Write, Accepted
  <2>2. CASE ~Write(t)
    <3>1. store' = store
      BY <1>1, <2>2 DEF Tracked, Step, Begin, Pick, Fetched, FetchFailed, Read, Imported, Request,
                        Import, Select, Refresh, Scheduled, CheckHealth, Prepare, Batch, StartFetch
    <3> QED
      BY <3>1
  <2> QED
    BY <2>1, <2>2
<1>2. ASSUME Expire
      PROVE  Valid(store')
  <2>1. PICK s \in store.fresh : store' = Aged(store, s)
    BY <1>2 DEF Expire
  <2>2. store # None /\ store \in Configs
    BY StoreConstants DEF TypeInv
  <2>3. store' = [store EXCEPT !.fresh = @ \ {s}]
    BY <2>1, <2>2 DEF Aged
  <2> QED
    BY <2>2, <2>3 DEF Valid, ValidGroup, ValidRule, Configs
<1> QED
  BY <1>1, <1>2 DEF Next, Crash, vars

(* Every write was validated, so the file is valid, whatever overlaps.     *)
FileIsValid == Valid(store)

(* Whatever is in the file can be deleted from it: the cascades of         *)
(* edit.go leave no reference behind that validation would refuse.         *)
THEOREM DeletesNeverRefused == Spec => []DeletesAccepted
<1>1. Init => TypeInv /\ FileIsValid
  BY TypeInit, StoreConstants DEF Init, FileIsValid
<1>2. TypeInv /\ FileIsValid /\ [Next]_vars => TypeInv' /\ FileIsValid'
  BY TypeStep, ValidStep DEF FileIsValid
<1>3. TypeInv /\ FileIsValid => DeletesAccepted
  BY DeletesAcceptedLemma DEF TypeInv, FileIsValid
<1> QED
  BY <1>1, <1>2, <1>3, PTL DEF Spec

-----------------------------------------------------------------------------
(* Overlaps.  While no two edits have overlapped there is at most one      *)
(* thread about to write, and it has read the file as it is.               *)

OneWriter ==
  apart => \A t \in Threads : pc[t] = "write" =>
             /\ base[t] = store
             /\ \A u \in Threads \ {t} : pc[u] # "write"

LEMMA OneWriterStep ==
  ASSUME TypeInv, OneWriter, [Next]_vars
  PROVE  OneWriter'
<1>1. ASSUME NEW t \in Threads, Tracked(t)
      PROVE  OneWriter'
  <2> SUFFICES ASSUME apart', NEW v \in Threads, pc'[v] = "write"
               PROVE  base'[v] = store' /\ \A u \in Threads \ {v} : pc'[u] # "write"
    BY DEF OneWriter
  <2>1. apart /\ (pc'[t] = "write" => \A u \in Threads \ {t} : pc[u] # "write")
    BY <1>1 DEF Tracked
  <2>2. \A u \in Threads \ {t} : pc'[u] = pc[u] /\ base'[u] = base[u]
    BY <1>1 DEF TypeInv, Tracked, Step, Begin, Pick, Fetched, FetchFailed, Read, Write, Onwards,
                Imported, Request, Import, Select, Refresh, Scheduled, CheckHealth, Prepare,
                Batch, StartFetch
  <2>3. pc'[t] = "write" => Read(t)
    BY <1>1 DEF TypeInv, Tracked, Step, Begin, Pick, Fetched, FetchFailed, Write, Onwards,
                Imported, Request, Import, Select, Refresh, Scheduled, CheckHealth, Prepare,
                Batch, StartFetch
  <2>4. pc[t] # "write" => store' = store
    BY <1>1 DEF Tracked, Step, Begin, Pick, Fetched, FetchFailed, Read, Write,
                Imported, Request, Import, Select, Refresh, Scheduled, CheckHealth, Prepare,
                Batch, StartFetch
  <2>5. CASE v = t
    BY <2>1, <2>2, <2>3, <2>5 DEF Read, TypeInv
  <2>6. CASE v # t
    <3>1. pc[v] = "write" /\ base'[v] = base[v]
      BY <2>2, <2>6
    <3>2. pc[t] # "write" /\ base[v] = store /\ \A u \in Threads \ {v} : pc[u] # "write"
      BY <2>1, <2>6, <3>1 DEF OneWriter
    <3>3. pc'[t] # "write"
      BY <2>1, <2>6, <3>1
    <3> QED
      BY <2>2, <2>4, <3>1, <3>2, <3>3
  <2> QED
    BY <2>5, <2>6
<1>2. ASSUME Expire
      PROVE  OneWriter'
  BY <1>2 DEF Expire, historyVars, OneWriter
<1>3. ASSUME Crash
      PROVE  OneWriter'
  BY <1>3 DEF Crash, OneWriter
<1>4. ASSUME UNCHANGED vars
      PROVE  OneWriter'
  BY <1>4 DEF vars, threadVars, historyVars, OneWriter
<1> QED
  BY <1>1, <1>2, <1>3, <1>4 DEF Next

LEMMA EditApplied ==
  ASSUME TypeInv, OneWriter, OneWriter', [Next]_vars
  PROVE  apart' => \A t \in Threads : Write(t) => store' = Edited(store, job[t])
<1> SUFFICES ASSUME apart', NEW t \in Threads, Write(t)
             PROVE  store' = Edited(store, job[t])
  OBVIOUS
<1>1. apart
  BY DEF Next, Tracked, Expire, Crash, vars, historyVars
<1>2. base[t] = store
  BY <1>1 DEF OneWriter, Write
<1> QED
  BY <1>2 DEF Write, Edited

(* As long as edits do not overlap each one applies, whole or not at all,  *)
(* to the file as it is, for every set of threads and edits.               *)
THEOREM EditsApply == Spec => NoLostUpdate
<1>1. Init => TypeInv /\ OneWriter
  BY TypeInit DEF Init, OneWriter
<1>2. TypeInv /\ OneWriter /\ [Next]_vars => TypeInv' /\ OneWriter'
  BY TypeStep, OneWriterStep
<1>3. TypeInv /\ OneWriter /\ [Next]_vars
        => [apart' => \A t \in Threads : Write(t) => store' = Edited(store, job[t])]_vars
  BY OneWriterStep, EditApplied
<1> QED
  BY <1>1, <1>2, <1>3, PTL DEF Spec, NoLostUpdate

-----------------------------------------------------------------------------
(* Orphans.  While no two operations have overlapped, all threads but one  *)
(* rest, a subscription that is being refreshed exists, and so does one    *)
(* whose nodes are about to be imported once its section is written.       *)

Owned(c) == \A n \in c.nodes : n[1] \in c.subs \cup {Manual}

LEMMA MutateOwned ==
  ASSUME NEW c \in Configs, NEW e, WellFormed(e), Found(c, e), Owned(c),
         e.op = "ReplaceSubscriptionNodes" => e.id \in c.subs
  PROVE  Owned(Mutate(c, e))
<1> USE DEF Owned
<1>1. CASE e.op = "UpsertSubscription"
  <2>1. /\ Mutate(c, e).nodes = c.nodes /\ c.subs \subseteq Mutate(c, e).subs
    BY <1>1 DEF Mutate, UpsertSubscription, Configs
  <2> QED
    BY <2>1
<1>2. CASE e.op = "ReplaceSubscriptionNodes"
  <2>1. Mutate(c, e) = ReplaceSubscriptionNodes(c, e.id, e.nodes)
    BY <1>2 DEF Mutate
  <2>2. /\ Mutate(c, e).nodes = (c.nodes \ NodesOf(e.id)) \cup e.nodes
        /\ Mutate(c, e).subs = c.subs
    BY <2>1 DEF ReplaceSubscriptionNodes, Configs
  <2>3. \A n \in e.nodes : n[1] = e.id
    BY <1>2 DEF WellFormed, NodesOf
  <2> QED
    BY <1>2, <2>2, <2>3
<1>3. CASE e.op = "DeleteSubscription"
  <2>1. Mutate(c, e) = DeleteSubscription(c, e.id)
    BY <1>3 DEF Mutate
  <2>2. Mutate(c, e).nodes = c.nodes \ NodesOf(e.id) /\ Mutate(c, e).subs = c.subs \ {e.id}
    BY <2>1 DEF DeleteSubscription, Configs
  <2>3. \A n \in c.nodes \ NodesOf(e.id) : n[1] # e.id
    BY DEF NodesOf, Nodes, Configs
  <2> QED
    BY <2>2, <2>3
<1>4. CASE e.op = "UpsertManualNode"
  <2>1. Mutate(c, e).nodes = c.nodes \cup {e.id} /\ Mutate(c, e).subs = c.subs
    BY <1>4 DEF Mutate, UpsertManualNode, Configs
  <2> QED
    BY <1>4, <2>1 DEF Found
<1>5. CASE e.op = "DeleteManualNode"
  <2>1. Mutate(c, e).nodes \subseteq c.nodes /\ Mutate(c, e).subs = c.subs
    BY <1>5 DEF Mutate, DeleteManualNode, Configs
  <2> QED
    BY <2>1
<1>6. CASE e.op \notin {"UpsertSubscription", "ReplaceSubscriptionNodes", "DeleteSubscription",
                        "UpsertManualNode", "DeleteManualNode"}
  <2>1. Mutate(c, e).nodes = c.nodes /\ Mutate(c, e).subs = c.subs
    <3>1. CASE e.op \in {"MarkSubscriptionError", "SelectNode", "SetGroupSettings", "UpdateHealth",
                         "MarkRuleSetUpdated", "MarkRuleSetError", "UpsertRuleSet",
                         "UpsertDNSServer"}
      BY <3>1 DEF Mutate, MarkSubscriptionError, SelectNode, SetGroupSettings, UpdateHealth,
                  MarkRuleSetUpdated, MarkRuleSetError, UpsertRuleSet, UpsertDNSServer, Configs
    <3>2. CASE e.op \in {"DeleteDNSServer", "DeleteRuleSet", "UpsertRule", "DeleteRule"}
      BY <3>2 DEF Mutate, DeleteDNSServer, DeleteRuleSet, UpsertRule, DeleteRule, Configs
    <3>3. CASE e.op \in {"SetManagerEnabled", "SetManagerPaused", "SetManagerRuntimeMode",
                         "UpsertTransparent", "UpsertTUN"}
      BY <3>3 DEF Mutate, SetManagerEnabled, SetManagerPaused, SetManagerRuntimeMode,
                  UpsertTransparent, UpsertTUN, Configs
    <3> QED
      BY <1>6, <3>1, <3>2, <3>3 DEF WellFormed
  <2> QED
    BY <2>1
<1> QED
  BY <1>1, <1>2, <1>3, <1>4, <1>5, <1>6

Rooted(t) ==
  /\ pc[t] = "fetch" /\ job[t].id \in Subs => job[t].id \in store.subs
  /\ Editing(t) /\ job[t].op = "ReplaceSubscriptionNodes" => job[t].id \in store.subs
  /\ Editing(t) /\ next[t] # NoEdit /\ next[t].op = "ReplaceSubscriptionNodes"
       => job[t].op = "UpsertSubscription" /\ job[t].id = next[t].id
  /\ pc[t] = "import" /\ next[t].op = "ReplaceSubscriptionNodes" => next[t].id \in store.subs

SerialInv ==
  serial => apart /\ Owned(store) /\ \A t \in Threads : Rooted(t)

(* A thread that prepares an edit is rooted if the edit and what follows   *)
(* it are.                                                                 *)
LEMMA PrepareRooted ==
  ASSUME TypeInv, NEW t \in Threads, NEW e, NEW n, Prepare(t, e, n),
         e.op = "ReplaceSubscriptionNodes" => e.id \in store.subs,
         n # NoEdit /\ n.op = "ReplaceSubscriptionNodes" => e.op = "UpsertSubscription" /\ e.id = n.id
  PROVE  store' = store /\ Rooted(t)'
<1>1. store' = store /\ pc'[t] = "read" /\ job'[t] = e /\ next'[t] = n
  BY DEF Prepare, TypeInv
<1> QED
  BY <1>1 DEF Rooted, Editing

LEMMA StartFetchRooted ==
  ASSUME TypeInv, NEW t \in Threads, NEW s \in Sources, StartFetch(t, s)
  PROVE  store' = store /\ Rooted(t)'
<1>1. CASE Refreshable(s)
  <2>1. store' = store /\ pc'[t] = "fetch" /\ job'[t].id = s
    BY <1>1 DEF StartFetch, TypeInv
  <2> QED
    BY <1>1, <2>1 DEF Rooted, Editing, Refreshable
<1>2. CASE ~Refreshable(s)
  <2>1. store' = store /\ pc'[t] \in {"batch", "idle"}
    BY <1>2 DEF StartFetch, TypeInv
  <2> QED
    BY <2>1 DEF Rooted, Editing
<1> QED
  BY <1>1, <1>2

LEMMA WriteRooted ==
  ASSUME TypeInv, NEW t \in Threads, Write(t), base[t] = store, Owned(store), Rooted(t)
  PROVE  Owned(store') /\ Rooted(t)'
<1> DEFINE e == job[t]
<1>1. /\ WellFormed(e) /\ store \in Configs /\ pc[t] = "write"
      /\ e.op = "ReplaceSubscriptionNodes" => e.id \in store.subs
  BY DEF Write, TypeInv, ThreadOK, Editing, Rooted
<1>2. CASE Accepted(store, e)
  <2>1. store' = Mutate(store, e) /\ Found(store, e)
    BY <1>2 DEF Write, Accepted
  <2>2. Owned(store')
    BY <1>1, <2>1, MutateOwned
  <2>3. CASE next[t] = NoEdit
    <3>1. pc'[t] \in {"batch", "idle"}
      BY <2>3 DEF Write, Onwards, TypeInv
    <3> QED
      BY <2>2, <3>1 DEF Rooted, Editing
  <2>4. CASE next[t] # NoEdit
    <3>1. pc'[t] = "import" /\ next' = next
      BY <1>2, <2>4 DEF Write, TypeInv
    <3>2. ASSUME next[t].op = "ReplaceSubscriptionNodes"
          PROVE  next[t].id \in store'.subs
      <4>1. e.op = "UpsertSubscription" /\ e.id = next[t].id
        BY <1>1, <2>4, <3>2 DEF Rooted, Editing
      <4>2. store' = UpsertSubscription(store, e.id, e.on, e.attach)
        BY <2>1, <4>1 DEF Mutate
      <4> QED
        BY <1>1, <4>1, <4>2 DEF UpsertSubscription, Configs
    <3> QED
      BY <2>2, <3>1, <3>2 DEF Rooted, Editing
  <2> QED
    BY <2>3, <2>4
<1>3. CASE ~Accepted(store, e)
  <2>1. store' = store /\ pc'[t] \in {"batch", "idle"}
    BY <1>3 DEF Write, Onwards, TypeInv
  <2> QED
    BY <2>1 DEF Rooted, Editing
<1> QED
  BY <1>2, <1>3

LEMMA SerialStep ==
  ASSUME TypeInv, OneWriter, SerialInv, [Next]_vars
  PROVE  SerialInv'
<1>1. ASSUME NEW t \in Threads, Tracked(t)
      PROVE  SerialInv'
  <2> SUFFICES ASSUME serial'
               PROVE  apart' /\ Owned(store') /\ \A u \in Threads : Rooted(u)'
    BY DEF SerialInv, Owned
  <2>1. serial /\ \A u \in Threads \ {t} : pc[u] = "idle"
    BY <1>1 DEF Tracked
  <2>2. apart /\ Owned(store) /\ Rooted(t)
    BY <2>1 DEF SerialInv
  <2>3. apart'
    BY <1>1, <2>1, <2>2 DEF Tracked
  <2>4. ASSUME NEW u \in Threads \ {t}
        PROVE  Rooted(u)'
    <3>1. pc'[u] = pc[u]
      BY <1>1, <2>4 DEF TypeInv, Tracked, Step, Begin, Pick, Fetched, FetchFailed, Read, Write,
                  Onwards, Imported, Request, Import, Select, Refresh, Scheduled, CheckHealth,
                  Prepare, Batch, StartFetch
    <3>2. pc'[u] = "idle"
      BY <2>1, <3>1
    <3> QED
      BY <3>2 DEF Rooted, Editing
  <2>5. Owned(store') /\ Rooted(t)'
    <3>1. CASE Pick(t)
      <4>1. PICK s \in todo[t] : StartFetch(t, s)
        BY <3>1 DEF Pick
      <4>2. s \in Sources
        BY <4>1 DEF TypeInv, ThreadOK
      <4> QED
        BY <2>2, <4>1, <4>2, StartFetchRooted
    <3>2. CASE Fetched(t)
      <4>1. CASE \E names \in Provided :
                   Prepare(t, [op |-> "ReplaceSubscriptionNodes", id |-> job[t].id,
                               nodes |-> {job[t].id} \X names], NoEdit) /\ job[t].id \in Subs
        <5>1. job[t].id \in store.subs
          BY <2>2, <3>2, <4>1 DEF Fetched, Rooted
        <5> QED
          BY <2>2, <4>1, <5>1, PrepareRooted
      <4>2. CASE Prepare(t, [op |-> "MarkRuleSetUpdated", id |-> job[t].id], NoEdit)
        BY <2>2, <4>2, PrepareRooted
      <4> QED
        BY <3>2, <4>1, <4>2 DEF Fetched
    <3>3. CASE FetchFailed(t)
      BY <2>2, <3>3, PrepareRooted DEF FetchFailed
    <3>4. CASE Read(t)
      <4>1. store' = store /\ pc'[t] = "write" /\ pc[t] = "read" /\ job' = job /\ next' = next
        BY <3>4 DEF Read, TypeInv
      <4> QED
        BY <2>2, <4>1 DEF Rooted, Editing
    <3>5. CASE Write(t)
      <4>1. base[t] = store
        BY <2>2, <3>5 DEF OneWriter, Write
      <4> QED
        BY <2>2, <3>5, <4>1, WriteRooted
    <3>6. CASE Imported(t)
      <4>1. CASE StartFetch(t, next[t].id)
        <5>1. next[t].id \in Sources
          BY <3>6 DEF Imported, TypeInv, ThreadOK, FollowUp, Sources
        <5> QED
          BY <2>2, <4>1, <5>1, StartFetchRooted
      <4>2. CASE Prepare(t, next[t], NoEdit)
        <5>1. next[t].op = "ReplaceSubscriptionNodes" => next[t].id \in store.subs
          BY <2>2, <3>6 DEF Imported, Rooted
        <5> QED
          BY <2>2, <4>2, <5>1, PrepareRooted
      <4> QED
        BY <3>6, <4>1, <4>2 DEF Imported
    <3>7. CASE Request(t)
      <4>1. PICK e \in Edits : Prepare(t, e, NoEdit)
        BY <3>7 DEF Request
      <4> QED
        BY <2>2, <4>1, PrepareRooted, StoreConstants
    <3>8. CASE Import(t)
      <4>1. PICK s \in Subs, on \in BOOLEAN :
              \E n : /\ n.id = s
                    /\ Prepare(t, [op |-> "UpsertSubscription", id |-> s, on |-> on,
                                   attach |-> TRUE], n)
        BY <3>8 DEF Import
      <4> QED
        BY <2>2, <4>1, PrepareRooted
    <3>9. CASE Select(t)
      BY <2>2, <3>9, PrepareRooted DEF Select
    <3>10. CASE CheckHealth(t)
      BY <2>2, <3>10, PrepareRooted DEF CheckHealth
    <3>11. CASE Refresh(t) \/ Scheduled(t)
      <4>1. store' = store /\ pc'[t] = "batch"
        BY <3>11 DEF Refresh, Scheduled, Batch, TypeInv
      <4> QED
        BY <2>2, <4>1 DEF Rooted, Editing
    <3> QED
      BY <1>1, <3>1, <3>2, <3>3, <3>4, <3>5, <3>6, <3>7, <3>8, <3>9, <3>10, <3>11
         DEF Tracked, Step, Begin
  <2> QED
    BY <2>3, <2>4, <2>5
<1>2. ASSUME Expire
      PROVE  SerialInv'
  <2>1. PICK s \in store.fresh : store' = Aged(store, s)
    BY <1>2 DEF Expire
  <2>2. store # None /\ store \in Configs
    BY StoreConstants DEF TypeInv
  <2>3. store'.nodes = store.nodes /\ store'.subs = store.subs
    BY <2>1, <2>2 DEF Aged, Configs
  <2> QED
    BY <1>2, <2>3 DEF Expire, historyVars, SerialInv, Owned, Rooted, Editing
<1>3. ASSUME Crash
      PROVE  SerialInv'
  BY <1>3 DEF Crash, historyVars, SerialInv, Owned, Rooted, Editing
<1>4. ASSUME UNCHANGED vars
      PROVE  SerialInv'
  BY <1>4 DEF vars, threadVars, historyVars, SerialInv, Owned, Rooted, Editing
<1> QED
  BY <1>1, <1>2, <1>3, <1>4 DEF Next

(* Operations that come one at a time leave no node without a              *)
(* subscription, for every set of subscriptions, nodes, threads and edits. *)
THEOREM SerialLeavesNoOrphans == Spec => []NoOrphanNodes
<1>1. Init => TypeInv /\ OneWriter /\ SerialInv
  <2> SUFFICES ASSUME Init
               PROVE  OneWriter /\ SerialInv
    BY TypeInit
  <2>1. Owned(store)
    BY StoreConstants DEF Init, Owned
  <2> QED
    BY <2>1 DEF Init, OneWriter, SerialInv, Rooted, Editing
<1>2. TypeInv /\ OneWriter /\ SerialInv /\ [Next]_vars => TypeInv' /\ OneWriter' /\ SerialInv'
  BY TypeStep, OneWriterStep, SerialStep
<1>3. SerialInv => NoOrphanNodes
  BY DEF SerialInv, Owned, NoOrphanNodes
<1> QED
  BY <1>1, <1>2, <1>3, PTL DEF Spec
=============================================================================
