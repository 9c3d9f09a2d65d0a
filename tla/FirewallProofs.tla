--------------------------- MODULE FirewallProofs ---------------------------
(***************************************************************************)
(* Proofs about Firewall, for every set of machines and every set of       *)
(* settings: type correctness, that a completed operation leaves the LAN   *)
(* treated as the settings say, packet by packet, and that none on its way *)
(* opens the kill switch.                                                  *)
(*                                                                         *)
(* The argument has two halves.  One is about FirewallRules alone: when    *)
(* the kernel holds exactly what was rendered, the chains give every       *)
(* packet its intended fate, and when the sets hold elements of several    *)
(* settings, what all of them contain stays inside.  The other is an       *)
(* invariant of the steps that says whose elements the sets may hold,      *)
(* although fw4 only ever adds to a named set, flushes and deletions go    *)
(* set by set, and every operation may fail half-way.                      *)
(***************************************************************************)
EXTENDS Firewall, TLAPS

-----------------------------------------------------------------------------
(* Rules: rendered and loaded as rendered, the fates are the intended ones.*)

(* A packet comes from a bucket exactly when its machine is listed under   *)
(* one of the addresses the packet carries, and belongs to the bucket.     *)
LEMMA FromBucket ==
  ASSUME NEW c \in Configs, NEW p \in Packets, NEW b
  PROVE  From(Bucket(c, b), p) <=> Listed(c, p) /\ InBucket(c, p.dev, b)
<1>1. p.dev \in Devices /\ p.net \in Kinds
  BY DEF Packets, Kinds
<1>2. c.device[p.dev].kinds \subseteq Kinds
  BY <1>1 DEF Configs, Entries
<1>3. ASSUME From(Bucket(c, b), p)
      PROVE  Listed(c, p) /\ InBucket(c, p.dev, b)
  <2>1. PICK k \in {"mac", p.net} : <<p.dev, k>> \in Bucket(c, b)
    BY <1>3 DEF From, Sources
  <2>2. /\ c.device[p.dev].enabled /\ InBucket(c, p.dev, b)
        /\ k \in c.device[p.dev].kinds
    BY <2>1 DEF Bucket
  <2> QED BY <2>1, <2>2 DEF Listed
<1>4. ASSUME Listed(c, p), InBucket(c, p.dev, b)
      PROVE  From(Bucket(c, b), p)
  <2>1. PICK k \in c.device[p.dev].kinds : k \in {"mac", p.net}
    BY <1>4 DEF Listed
  <2>2. k \in Kinds
    BY <1>2, <2>1
  <2>3. <<p.dev, k>> \in Bucket(c, b)
    BY <1>1, <1>4, <2>1, <2>2 DEF Bucket, Listed, Addresses
  <2>4. <<p.dev, k>> \in Sources(p)
    BY <2>1, <2>2 DEF Sources
  <2> QED BY <2>3, <2>4 DEF From
<1> QED BY <1>3, <1>4

(* What the tests of the chains come to under the elements of c.           *)
LEMMA Tests ==
  ASSUME NEW c \in Configs, NEW p \in Packets
  PROVE  /\ From(Elements(c).tproxy, p) <=> Listed(c, p) /\ Effective(c, p.dev) = "tproxy"
         /\ From(Elements(c).bypass, p) <=> Listed(c, p) /\ Effective(c, p.dev) = "bypass"
         /\ From(Elements(c).udpbypass, p)
              <=> Effective(c, p.dev) = "tproxy" /\ Listed(c, p) /\ c.device[p.dev].udp
         /\ Elements(c).bdst = c.pinned
         /\ Effective(c, p.dev) \in {"off", "tproxy", "bypass"}
         /\ c.default \in {"off", "tproxy"}
<1>1. /\ Elements(c).tproxy = Bucket(c, "tproxy")
      /\ Elements(c).bypass = Bucket(c, "bypass")
      /\ Elements(c).udpbypass = Bucket(c, "udpbypass")
      /\ Elements(c).bdst = c.pinned
  BY DEF Elements
<1>2. \A b : From(Bucket(c, b), p) <=> Listed(c, p) /\ InBucket(c, p.dev, b)
  BY FromBucket
<1>3. p.dev \in Devices
  BY DEF Packets
<1>4. c.default \in {"off", "tproxy"} /\ Effective(c, p.dev) \in {"off", "tproxy", "bypass"}
  BY <1>3 DEF Configs, Entries, Effective
<1> QED BY <1>1, <1>2, <1>4 DEF InBucket

(* A machine is proxied when the default or its own bucket says so.        *)
LEMMA Selected ==
  ASSUME NEW c \in Configs, NEW p \in Packets
  PROVE  Mode(c, p) = "tproxy" <=>
           IF c.default = "tproxy" THEN ~From(Elements(c).bypass, p)
                                   ELSE From(Elements(c).tproxy, p)
<1>1. c.default = "tproxy" => Effective(c, p.dev) \in {"tproxy", "bypass"}
  BY DEF Configs, Entries, Packets, Effective
<1> QED BY <1>1, Tests DEF Mode

(* The tproxy chain takes what is hijacked beyond the router, and what is  *)
(* proxied.                                                                *)
LEMMA TProxyChainFate ==
  ASSUME NEW c \in Configs, NEW p \in Packets, NEW f,
         f.catchAll <=> c.default = "tproxy", "dns" \in f.chains <=> c.hijack
  PROVE  (TProxyChain(f, Elements(c), p) = "tproxy_do" /\ Transport(p))
           <=> (Hijacked(c, p) /\ p.dst # "router") \/ Proxied(c, p)
<1> DEFINE s == Elements(c)
           In == f.catchAll \/ From(s.tproxy, p)
           Out == f.catchAll /\ From(s.bypass, p)
<1>1. Mode(c, p) = "tproxy" <=> In /\ ~Out
  BY Selected, Tests
<1>2. DirectUDP(c, p) /\ Mode(c, p) = "tproxy" <=> p.proto = "udp" /\ From(s.udpbypass, p)
  BY Tests DEF DirectUDP, Mode
<1>3. p.dst \in {"router", "reserved", "multicast", "office", "internet"}
  BY DEF Packets, Destinations
<1>4. To(s.bdst, p) <=> To(c.pinned, p)
  BY Tests
<1> DEFINE up == p.proto = "udp" /\ From(s.udpbypass, p)
           dns == "dns" \in f.chains /\ Dns(p)
<1>5. Hijacked(c, p) <=> /\ dns /\ In /\ ~Out
                         /\ p.dst = "router" \/ (p.dst # "multicast" /\ ~To(s.bdst, p))
  BY <1>1, <1>4 DEF Hijacked
<1>6. Proxied(c, p) <=> /\ In /\ ~Out /\ ~up /\ Transport(p)
                        /\ p.dst \in Outside /\ ~To(s.bdst, p)
  BY <1>1, <1>2, <1>4 DEF Proxied
<1>7. TProxyChain(f, s, p) = "tproxy_do"
        <=> /\ p.dst # "multicast" /\ ~Out /\ ~To(s.bdst, p) /\ In
            /\ ~(dns /\ p.dst = "router")
            /\ dns \/ (~up /\ p.dst \notin {"router", "reserved"})
  BY DEF TProxyChain
<1>8. dns => Transport(p)
  BY DEF Dns
<1> HIDE DEF up, dns, In, Out
<1> QED
  BY <1>3, <1>5, <1>6, <1>7, <1>8 DEF Outside

(* The redirect chain takes what is hijacked and aimed at the router.      *)
LEMMA DNSRedirectChainFate ==
  ASSUME NEW c \in Configs, NEW p \in Packets, NEW f,
         f.catchAll <=> c.default = "tproxy", c.hijack
  PROVE  DNSRedirectChain(f, Elements(c), p) = "redirect"
           <=> Hijacked(c, p) /\ p.dst = "router"
<1> DEFINE s == Elements(c)
           In == f.catchAll \/ From(s.tproxy, p)
           Out == f.catchAll /\ From(s.bypass, p)
<1>1. Mode(c, p) = "tproxy" <=> In /\ ~Out
  BY Selected, Tests
<1>2. Hijacked(c, p) /\ p.dst = "router" <=> In /\ ~Out /\ Dns(p) /\ p.dst = "router"
  BY <1>1 DEF Hijacked
<1>3. DNSRedirectChain(f, s, p) = "redirect" <=> p.dst = "router" /\ ~Out /\ Dns(p) /\ In
  BY DEF DNSRedirectChain
<1> HIDE DEF In, Out
<1> QED BY <1>2, <1>3

(* The kill switch drops exactly what must be contained.                   *)
LEMMA KillSwitchForwardChainFate ==
  ASSUME NEW c \in Configs, NEW p \in Packets, NEW f,
         f.catchAll <=> c.default = "tproxy", c.kill
  PROVE  KillSwitchForwardChain(f, Elements(c), p) = "drop" <=> Contained(c, p)
<1> DEFINE s == Elements(c)
           In == f.catchAll \/ From(s.tproxy, p)
           Out == f.catchAll /\ From(s.bypass, p)
           up == p.proto = "udp" /\ From(s.udpbypass, p)
<1>1. Mode(c, p) = "tproxy" <=> In /\ ~Out
  BY Selected, Tests
<1>2. DirectUDP(c, p) /\ Mode(c, p) = "tproxy" <=> up
  BY Tests DEF DirectUDP, Mode
<1>3. p.dst \in {"router", "reserved", "multicast", "office", "internet"}
  BY DEF Packets, Destinations
<1>4. Contained(c, p) <=> /\ In /\ ~Out /\ ~up
                          /\ p.dst \in Outside /\ ~To(s.bdst, p)
  BY <1>1, <1>2, Tests DEF Contained
<1>5. KillSwitchForwardChain(f, s, p) = "drop"
        <=> /\ p.dst \notin {"router", "multicast", "reserved"} /\ ~To(s.bdst, p)
            /\ ~up /\ ~Out /\ In
  BY DEF KillSwitchForwardChain
<1> HIDE DEF In, Out, up
<1> QED BY <1>3, <1>4, <1>5 DEF Outside

(* Rendered for apply and loaded as rendered, the chains give a packet the *)
(* fate the settings intend while sing-box runs.                           *)
LEMMA RenderedIsIntended ==
  ASSUME NEW c \in Configs, NEW p \in Packets, Active(c)
  PROVE  Fate(Render(c), Elements(c), p) = IntendedUp(c, p)
<1> DEFINE f == Render(c)
<1>1. /\ "tproxy" \in f.chains
      /\ "dns" \in f.chains <=> c.hijack
      /\ "kill" \in f.chains <=> c.kill
      /\ f.catchAll <=> c.default = "tproxy"
  BY DEF Render, Fragment
<1>2. (TProxyChain(f, Elements(c), p) = "tproxy_do" /\ Transport(p))
        <=> (Hijacked(c, p) /\ p.dst # "router") \/ Proxied(c, p)
  BY <1>1, TProxyChainFate
<1>3. c.hijack => (DNSRedirectChain(f, Elements(c), p) = "redirect"
                     <=> Hijacked(c, p) /\ p.dst = "router")
  BY <1>1, DNSRedirectChainFate
<1>4. c.kill => (KillSwitchForwardChain(f, Elements(c), p) = "drop" <=> Contained(c, p))
  BY <1>1, KillSwitchForwardChainFate
<1>5. (Contained(c, p) => c.kill) /\ (Hijacked(c, p) => c.hijack)
  BY DEF Contained, Hijacked
<1>6. Contained(c, p) \/ Proxied(c, p) => p.dst \notin {"router", "multicast"}
  BY DEF Contained, Proxied, Outside
<1> HIDE DEF f
<1> QED
  BY <1>1, <1>2, <1>3, <1>4, <1>5, <1>6 DEF Fate, IntendedUp, Untouched, f

(* The same for the fragment of the kill switch.                           *)
LEMMA KillSwitchIsIntended ==
  ASSUME NEW c \in Configs, NEW p \in Packets, Active(c), c.kill
  PROVE  Fate(RenderKillSwitch(c), Elements(c), p) = IntendedDown(c, p)
<1> DEFINE f == RenderKillSwitch(c)
<1>1. f.chains = {"kill"} /\ (f.catchAll <=> c.default = "tproxy")
  BY DEF RenderKillSwitch, Fragment
<1>2. KillSwitchForwardChain(f, Elements(c), p) = "drop" <=> Contained(c, p)
  BY <1>1, KillSwitchForwardChainFate
<1>3. Contained(c, p) => p.dst \notin {"router", "multicast"}
  BY DEF Contained, Outside
<1> HIDE DEF f
<1> QED BY <1>1, <1>2, <1>3 DEF Fate, IntendedDown, Untouched, f

(* Without chains nothing is touched, whatever the sets hold.              *)
LEMMA NoFragmentIsUntouched ==
  ASSUME NEW s, NEW p
  PROVE  Fate(NoFragment, s, p) = Untouched(p)
BY DEF Fate, NoFragment, Untouched

-----------------------------------------------------------------------------
(* Types.                                                                  *)

(* What is rendered is a fragment with the elements of the settings, and   *)
(* settings that render to one proxy something.                            *)
LEMMA IncludeShape ==
  ASSUME NEW op \in Operations
  PROVE  /\ IncludeOf(op) \in Fragments
         /\ \/ IncludeOf(op) = NoFragment
            \/ /\ IncludeOf(op).sets = Elements(op.settings)
               /\ IncludeOf(op).chains # {}
               /\ Active(op.settings)
<1> DEFINE c == op.settings
<1>1. c \in Configs
  BY FirewallConstants DEF Operations
<1>2. Elements(c) \in SetValues
  BY <1>1 DEF Elements, SetValues, Bucket, Configs
<1>3. NoFragment \in Fragments
  BY DEF NoFragment, NoElements, Fragments, SetValues
<1>4. \A s \in SUBSET {"tproxy", "dns", "kill"} :
        /\ Fragment(c, s) \in Fragments
        /\ Fragment(c, s).sets = Elements(c) /\ Fragment(c, s).chains = s
  BY <1>2 DEF Fragment, Fragments
<1> HIDE DEF c
<1>5. \/ Render(c) = NoFragment
      \/ Active(c) /\ \E s \in SUBSET {"tproxy", "dns", "kill"} :
                         s # {} /\ Render(c) = Fragment(c, s)
  BY DEF Render
<1>6. \/ RenderKillSwitch(c) = NoFragment
      \/ Active(c) /\ RenderKillSwitch(c) = Fragment(c, {"kill"})
  BY DEF RenderKillSwitch
<1>7. IncludeOf(op) \in {Render(c), RenderKillSwitch(c), NoFragment}
  BY DEF IncludeOf, c
<1> QED BY <1>3, <1>4, <1>5, <1>6, <1>7 DEF c

(* No include has no elements.                                             *)
LEMMA NoFragmentHasNoElements ==
  NoFragment.sets = NoElements /\ NoFragment.chains = {} /\ IncludeOf(NoOperation) = NoFragment
BY DEF NoFragment, IncludeOf, NoOperation

-----------------------------------------------------------------------------
(* The named sets, one by one.                                             *)

Named == {"tproxy", "bypass", "udpbypass", "bdst"}

(* The i-th set the manager owns is one of a bucket or of destinations.    *)
LEMMA ManagedSetsShape ==
  ASSUME NEW i \in 1..Len(ManagedSets)
  PROVE  ManagedSets[i][1] \in Named
<1>1. i \in 1..11
  BY DEF ManagedSets
<1>2. i \in {1, 2, 3, 4, 5, 6, 7, 8, 9, 10, 11}
  BY <1>1
<1> QED BY <1>2 DEF ManagedSets, Named

(* An element of a bucket or a destination belongs to one of the sets.     *)
LEMMA ManagedSetsCover ==
  ASSUME NEW s \in SetValues, NEW b \in Named, NEW e \in s[b]
  PROVE  \E i \in 1..11 : ManagedSets[i] = <<b, e[2]>>
<1>1. CASE b = "bdst"
  <2>1. e[2] \in {"ipv4", "ipv6"}
    BY <1>1 DEF SetValues, Places, Nets
  <2>2. ManagedSets[10] = <<"bdst", "ipv4">> /\ ManagedSets[11] = <<"bdst", "ipv6">>
    BY DEF ManagedSets
  <2> QED BY <1>1, <2>1, <2>2
<1>2. CASE b \in {"tproxy", "bypass", "udpbypass"}
  <2>1. e[2] \in {"mac", "ipv4", "ipv6"}
    BY <1>2 DEF SetValues, Addresses, Kinds, Nets
  <2>2. /\ ManagedSets[1] = <<"tproxy", "mac">> /\ ManagedSets[2] = <<"tproxy", "ipv4">>
        /\ ManagedSets[3] = <<"tproxy", "ipv6">> /\ ManagedSets[4] = <<"bypass", "mac">>
        /\ ManagedSets[5] = <<"bypass", "ipv4">> /\ ManagedSets[6] = <<"bypass", "ipv6">>
        /\ ManagedSets[7] = <<"udpbypass", "mac">> /\ ManagedSets[8] = <<"udpbypass", "ipv4">>
        /\ ManagedSets[9] = <<"udpbypass", "ipv6">>
    BY DEF ManagedSets
  <2> QED BY <1>2, <2>1, <2>2
<1> QED BY <1>1, <1>2 DEF Named

(* Flushing the i-th set takes its elements away and leaves the others.    *)
LEMMA FlushedShape ==
  ASSUME NEW s \in SetValues, NEW i \in 1..Len(ManagedSets)
  PROVE  /\ Flushed(s, i) \in SetValues
         /\ \A b \in Named : Flushed(s, i)[b] \subseteq s[b]
         /\ \A e \in Flushed(s, i)[ManagedSets[i][1]] : e[2] # ManagedSets[i][2]
<1> DEFINE n == ManagedSets[i][1]
           left == {e \in s[n] : e[2] # ManagedSets[i][2]}
<1>1. n \in Named
  BY ManagedSetsShape
<1>2. Flushed(s, i) = [s EXCEPT ![n] = left]
  BY DEF Flushed
<1>3. left \subseteq s[n] /\ \A e \in left : e[2] # ManagedSets[i][2]
  OBVIOUS
<1> HIDE DEF left, n
<1>4. DOMAIN s = Named
  BY DEF SetValues, Named
<1>5. Flushed(s, i)[n] = left /\ \A b \in Named \ {n} : Flushed(s, i)[b] = s[b]
  BY <1>1, <1>2, <1>4
<1>6. Flushed(s, i) \in SetValues
  BY <1>1, <1>2, <1>3 DEF SetValues, Named
<1> QED BY <1>3, <1>5, <1>6 DEF n

(* What a reload merges in, set by set.                                    *)
LEMMA MergeShape ==
  ASSUME sets \in SetValues, include.sets \in SetValues
  PROVE  /\ Merge \in SetValues
         /\ \A b \in Named : Merge[b] = sets[b] \cup include.sets[b]
BY DEF Merge, SetValues, Named

-----------------------------------------------------------------------------
(* Every variable of the firewall keeps its type.                          *)

(* The include is that of the operation that wrote it last.                *)
IncludeIsWritten == include = IncludeOf(written)

(* The include has the elements of the settings it was written for.        *)
LEMMA WrittenShape ==
  ASSUME TypeOK, IncludeIsWritten
  PROVE  /\ include.sets \in SetValues
         /\ Written \subseteq Settings
         /\ include = NoFragment => Written = {}
         /\ include # NoFragment
              => /\ Written = {written.settings} /\ include.sets = Elements(written.settings)
                 /\ written \in Operations
<1>1. include.sets \in SetValues
  BY DEF TypeOK, Fragments
<1>2. ASSUME include # NoFragment
      PROVE  /\ written \in Operations /\ include.sets = Elements(written.settings)
             /\ written.settings \in Settings
  <2>1. written # NoOperation
    BY <1>2, NoFragmentHasNoElements DEF IncludeIsWritten
  <2>2. written \in Operations
    BY <2>1 DEF TypeOK
  <2> QED BY <1>2, <2>2, IncludeShape DEF IncludeIsWritten, Operations
<1> QED BY <1>1, <1>2 DEF Written

LEMMA IncludeIsWrittenStep == TypeOK /\ IncludeIsWritten /\ [Next]_vars => IncludeIsWritten'
BY DEF IncludeIsWritten, Next, Operate, Step, Save, Begin, Write, FlushManagerSets, Load,
       DeleteManagerObjects, Fail, OtherReload, Reboot, vars, history

(* An operation moves from set to set and from step to step.               *)
LEMMA JobMoves ==
  ASSUME NEW j \in Jobs, NEW s \in {"write", "flush", "load", "delete"}
  PROVE  /\ [j EXCEPT !.step = s] \in Jobs
         /\ j.next < Len(ManagedSets) => [j EXCEPT !.next = @ + 1] \in Jobs
<1>1. Len(ManagedSets) = 11
  BY DEF ManagedSets
<1>2. j.next < 11 => j.next + 1 \in 1..11
  BY <1>1 DEF Jobs
<1>3. ASSUME NEW n \in 1..11
      PROVE  [j EXCEPT !.next = n] \in Jobs
  BY <1>1, <1>3 DEF Jobs
<1>4. [j EXCEPT !.step = s] \in Jobs
  BY DEF Jobs
<1>5. j.next < Len(ManagedSets) => [j EXCEPT !.next = @ + 1] \in Jobs
  BY <1>1, <1>2, <1>3
<1> QED BY <1>4, <1>5

LEMMA TypeStep == TypeOK /\ IncludeIsWritten /\ [Next]_vars => TypeOK'
<1> SUFFICES ASSUME TypeOK, IncludeIsWritten, [Next]_vars
             PROVE  TypeOK'
  OBVIOUS
<1> USE DEF kernel, history
<1>1. Merge \in SetValues /\ include.sets \in SetValues /\ Written \subseteq Settings
  BY WrittenShape, MergeShape DEF TypeOK, Jobs
<1>2. job = Idle \/ (Doing \in Operations /\ job.settings \in Settings)
  BY DEF TypeOK, Jobs, Doing, Operations
<1>3. Len(ManagedSets) = 11
  BY DEF ManagedSets
<1>4. ASSUME job # Idle
      PROVE  Flushed(sets, job.next) \in SetValues
  BY <1>4, FlushedShape DEF TypeOK, Jobs
<1>5. ASSUME NEW c \in Settings, Save(c)
      PROVE  TypeOK'
  BY <1>5, FirewallConstants DEF Save, TypeOK, Jobs, Doing, Flushes, Deletes
<1>6. ASSUME NEW kind \in OpKinds, Begin(kind)
      PROVE  TypeOK'
  <2>1. job' \in Jobs
    BY <1>3, <1>6 DEF Begin, TypeOK, Jobs
  <2>2. job'.step = "write"
    BY <1>6 DEF Begin
  <2> QED BY <1>6, <2>1, <2>2 DEF Begin, TypeOK, Jobs
<1>7. CASE Write
  <2>1. job # Idle /\ Doing \in Operations
    BY <1>2, <1>7 DEF Write, Idle
  <2>2. IncludeOf(Doing) \in Fragments
    BY <2>1, IncludeShape
  <2> QED BY <1>7, <2>1, <2>2 DEF Write, TypeOK, Jobs, Doing, Flushes
<1>8. CASE FlushManagerSets
  <2>1. job # Idle /\ Flushed(sets, job.next) \in SetValues
    BY <1>4, <1>8 DEF FlushManagerSets, Idle
  <2>2. mixed' \subseteq Settings
    BY <1>2, <1>8, <2>1 DEF FlushManagerSets, TypeOK, Jobs
  <2>3. job' \in Jobs
    <3>1. job \in Jobs
      BY <2>1 DEF TypeOK
    <3>2. \/ job.next < Len(ManagedSets) /\ job' = [job EXCEPT !.next = @ + 1]
          \/ job' = [job EXCEPT !.step = "load"]
      BY <1>8 DEF FlushManagerSets
    <3> QED BY <3>1, <3>2, JobMoves
  <2>4. job'.step \in {"flush", "load"} /\ Doing' = Doing
    BY <1>8, <2>1 DEF FlushManagerSets, TypeOK, Jobs, Doing
  <2>5. Flushes(Doing)
    BY <1>8, <2>1 DEF FlushManagerSets, TypeOK, Jobs
  <2> QED BY <1>8, <2>1, <2>2, <2>3, <2>4, <2>5 DEF FlushManagerSets, TypeOK, Jobs
<1>9. CASE Load
  <2>1. job # Idle
    BY <1>9 DEF Load, Idle
  <2>2. exact' \in BOOLEAN
    BY <1>9 DEF Load, Reached, Flushes
  <2>3. sets' \in SetValues /\ mixed' \subseteq Settings /\ chains' \in Fragments
        /\ loaded' \in Operations \cup {NoOperation}
    BY <1>1, <1>9 DEF Load, FW4Reload, TypeOK, Jobs
  <2>4. \/ job' = Idle
        \/ job' = [job EXCEPT !.step = "delete"] /\ Deletes(Doing)
    BY <1>9 DEF Load
  <2> QED BY <1>9, <2>1, <2>2, <2>3, <2>4 DEF Load, TypeOK, Jobs, Doing, Deletes
<1>10. CASE DeleteManagerObjects
  <2>1. job # Idle /\ Flushed(sets, job.next) \in SetValues
    BY <1>4, <1>10 DEF DeleteManagerObjects, Idle
  <2>2. mixed' \subseteq Settings /\ sets' \in SetValues
    BY <1>10, <2>1 DEF DeleteManagerObjects, TypeOK, Jobs
  <2>3. \/ job' = Idle
        \/ /\ job' \in Jobs
           /\ job'.step = "delete" /\ Doing' = Doing
    BY <1>3, <1>10, <2>1 DEF DeleteManagerObjects, TypeOK, Jobs, Doing
  <2>4. Deletes(Doing)
    BY <1>10, <2>1 DEF DeleteManagerObjects, TypeOK, Jobs
  <2> QED BY <1>10, <2>2, <2>3, <2>4 DEF DeleteManagerObjects, TypeOK, Jobs
<1>11. CASE Fail
  BY <1>11 DEF Fail, TypeOK, Jobs
<1>12. CASE OtherReload
  BY <1>1, <1>12 DEF OtherReload, FW4Reload, TypeOK, Jobs, Doing, Flushes, Deletes
<1>13. CASE Reboot
  BY <1>1, <1>13 DEF Reboot, TypeOK, Jobs
<1>14. CASE UNCHANGED vars
  BY <1>14 DEF vars, TypeOK, Jobs, Doing, Flushes, Deletes
<1> QED
  BY <1>5, <1>6, <1>7, <1>8, <1>9, <1>10, <1>11, <1>12, <1>13, <1>14 DEF Next, Operate, Step

(* The firewall's state keeps its shape.                                   *)
THEOREM TypeCorrect == Spec => []TypeOK
<1>1. Init => TypeOK /\ IncludeIsWritten
  BY FirewallConstants, NoFragmentHasNoElements
     DEF Init, TypeOK, IncludeIsWritten, NoFragment, NoElements, Fragments, SetValues
<1>2. TypeOK /\ IncludeIsWritten /\ [Next]_vars => (TypeOK /\ IncludeIsWritten)'
  BY TypeStep, IncludeIsWrittenStep
<1> QED BY <1>1, <1>2, PTL DEF Spec

-----------------------------------------------------------------------------
(* What the kernel holds.                                                  *)

(* Past its first step an operation has written the include, and before    *)
(* its last it has loaded it.                                              *)
WrittenByJob == /\ job.step \in {"flush", "load", "delete"} => written = Doing
                /\ job.step = "delete" => loaded = Doing

(* The kernel has the chains of one operation, never of two.               *)
ChainsAreLoaded == chains = IncludeOf(loaded)

(* The sets s hold nothing but what one of the settings in m gives them.   *)
Only(s, m) == \A b \in Named : \A e \in s[b] : \E c \in m : e \in Elements(c)[b]

ElementsAreMixed == Only(sets, mixed)

(* Chains come with elements, those of some settings.                      *)
SomeMixed == chains # NoFragment => mixed # {}

(* Of the first n sets s has only elements of the settings c.              *)
Clean(s, n, c) ==
  \A i \in 1..n : \A e \in s[ManagedSets[i][1]] :
    e[2] = ManagedSets[i][2] => e \in Elements(c)[ManagedSets[i][1]]

FlushedSoFar == /\ job.step = "write" => job.next = 1
                /\ job.step = "flush" => Clean(sets, job.next - 1, job.settings)
                /\ job.step = "load" /\ Flushes(Doing) => mixed = {job.settings}

(* Between operations the kernel has exactly the include, unless an        *)
(* operation failed or mixed its elements with others.                     *)
ExactIsLoaded ==
  exact /\ job.step \in {"idle", "write", "delete"}
    => /\ written = loaded
       /\ chains # NoFragment => sets = Elements(loaded.settings)

Loaded == /\ IncludeIsWritten /\ WrittenByJob /\ ChainsAreLoaded
          /\ ElementsAreMixed /\ SomeMixed /\ FlushedSoFar /\ ExactIsLoaded

(* Nothing is loaded when the daemon starts for the first time.            *)
LEMMA LoadedInit == Init => Loaded
<1> SUFFICES ASSUME Init
             PROVE  Loaded
  OBVIOUS
<1>1. Only(sets, mixed)
  BY DEF Init, Only, NoElements, Named
<1> QED
  BY <1>1, NoFragmentHasNoElements
     DEF Init, Loaded, IncludeIsWritten, WrittenByJob, ChainsAreLoaded, ElementsAreMixed,
         SomeMixed, FlushedSoFar, ExactIsLoaded, Idle

(* Sets without elements hold those of nobody.                             *)
LEMMA OnlyNothing ==
  ASSUME NEW m
  PROVE  Only(NoElements, m)
BY DEF Only, NoElements, Named

(* Taking elements away adds none.                                         *)
LEMMA OnlyFewer ==
  ASSUME NEW m, NEW s, NEW t, Only(s, m), \A b \in Named : t[b] \subseteq s[b]
  PROVE  Only(t, m)
BY DEF Only

(* A reload adds the elements of the settings the include was written for. *)
LEMMA ReloadMixes ==
  ASSUME TypeOK, IncludeIsWritten, Only(sets, mixed)
  PROVE  /\ Only(Merge, mixed \cup Written) /\ Only(include.sets, Written)
         /\ include # NoFragment => mixed \cup Written # {} /\ Written # {}
<1>1. /\ include.sets \in SetValues /\ sets \in SetValues
      /\ include = NoFragment => Written = {}
      /\ include # NoFragment => /\ Written = {written.settings}
                                 /\ include.sets = Elements(written.settings)
  BY WrittenShape DEF TypeOK
<1>2. \A b \in Named : Merge[b] = sets[b] \cup include.sets[b]
  BY <1>1, MergeShape
<1>3. Only(include.sets, Written)
  <2>1. CASE include = NoFragment
    BY <2>1, NoFragmentHasNoElements, OnlyNothing
  <2>2. CASE include # NoFragment
    BY <1>1, <2>2 DEF Only
  <2> QED BY <2>1, <2>2
<1>4. Only(Merge, mixed \cup Written)
  <2> SUFFICES ASSUME NEW b \in Named, NEW e \in Merge[b]
               PROVE  \E c \in mixed \cup Written : e \in Elements(c)[b]
    BY DEF Only
  <2>1. e \in sets[b] \/ e \in include.sets[b]
    BY <1>2
  <2>2. CASE e \in sets[b]
    BY <2>2 DEF Only
  <2>3. CASE e \in include.sets[b]
    BY <1>3, <2>3 DEF Only
  <2> QED BY <2>1, <2>2, <2>3
<1> QED BY <1>1, <1>3, <1>4

(* Where there are no other elements, a reload leaves exactly those of the *)
(* include.                                                                *)
LEMMA ReloadCompletes ==
  ASSUME TypeOK, NEW c \in Configs, include.sets = Elements(c), Only(sets, {c})
  PROVE  Merge = Elements(c)
<1>1. include.sets \in SetValues /\ sets \in SetValues
  BY DEF TypeOK, Fragments
<1>2. \A b \in Named : sets[b] \subseteq Elements(c)[b]
  BY DEF Only
<1>3. \A b \in Named : Merge[b] = Elements(c)[b]
  BY <1>1, <1>2, MergeShape
<1>4. /\ Merge = [tproxy |-> Merge["tproxy"], bypass |-> Merge["bypass"],
                  udpbypass |-> Merge["udpbypass"], bdst |-> Merge["bdst"]]
      /\ Elements(c) = [tproxy |-> Elements(c)["tproxy"], bypass |-> Elements(c)["bypass"],
                        udpbypass |-> Elements(c)["udpbypass"], bdst |-> Elements(c)["bdst"]]
  BY DEF Merge, Elements
<1> QED BY <1>3, <1>4 DEF Named

(* Settings that gave the sets all their elements gave them no others.     *)
LEMMA ElementsOnly ==
  ASSUME NEW c
  PROVE  Only(Elements(c), {c})
BY DEF Only

(* A reload of its own include does not undo a flush.                      *)
LEMMA ReloadKeepsClean ==
  ASSUME TypeOK, IncludeIsWritten, NEW n \in 0..Len(ManagedSets),
         Clean(sets, n, written.settings)
  PROVE  Clean(Merge, n, written.settings)
<1>1. /\ include.sets \in SetValues /\ sets \in SetValues
      /\ include.sets \in {NoElements, Elements(written.settings)}
  BY WrittenShape, NoFragmentHasNoElements DEF TypeOK
<1> SUFFICES ASSUME NEW i \in 1..n, NEW e \in Merge[ManagedSets[i][1]],
                    e[2] = ManagedSets[i][2]
             PROVE  e \in Elements(written.settings)[ManagedSets[i][1]]
  BY DEF Clean
<1>2. i \in 1..Len(ManagedSets)
  BY DEF ManagedSets
<1>3. ManagedSets[i][1] \in Named
  BY <1>2, ManagedSetsShape
<1>4. e \in sets[ManagedSets[i][1]] \/ e \in include.sets[ManagedSets[i][1]]
  BY <1>1, <1>3, MergeShape
<1>5. CASE e \in sets[ManagedSets[i][1]]
  BY <1>5 DEF Clean
<1>6. CASE e \in include.sets[ManagedSets[i][1]]
  BY <1>1, <1>3, <1>6 DEF NoElements, Named
<1> QED BY <1>4, <1>5, <1>6

(* Once the last set is flushed nothing of other settings is left.         *)
LEMMA CleanIsOnly ==
  ASSUME NEW s \in SetValues, NEW c, Clean(s, Len(ManagedSets), c)
  PROVE  Only(s, {c})
<1> SUFFICES ASSUME NEW b \in Named, NEW e \in s[b]
             PROVE  e \in Elements(c)[b]
  BY DEF Only
<1>1. PICK i \in 1..11 : ManagedSets[i] = <<b, e[2]>>
  BY ManagedSetsCover
<1>2. i \in 1..Len(ManagedSets)
  BY DEF ManagedSets
<1>3. ManagedSets[i][1] = b /\ ManagedSets[i][2] = e[2]
  BY <1>1
<1> QED BY <1>2, <1>3 DEF Clean

(* Flushing one more set cleans one more.                                  *)
LEMMA FlushCleans ==
  ASSUME NEW s \in SetValues, NEW n \in 1..Len(ManagedSets), NEW c, Clean(s, n - 1, c)
  PROVE  Clean(Flushed(s, n), n, c)
<1> SUFFICES ASSUME NEW i \in 1..n, NEW e \in Flushed(s, n)[ManagedSets[i][1]],
                    e[2] = ManagedSets[i][2]
             PROVE  e \in Elements(c)[ManagedSets[i][1]]
  BY DEF Clean
<1>1. i \in 1..Len(ManagedSets) /\ (i = n \/ i \in 1..n - 1)
  BY DEF ManagedSets
<1>2. ManagedSets[i][1] \in Named
  BY <1>1, ManagedSetsShape
<1>3. i # n
  BY FlushedShape
<1>4. e \in s[ManagedSets[i][1]]
  BY <1>2, FlushedShape
<1> QED BY <1>1, <1>3, <1>4 DEF Clean

(* Every step of the daemon, of another service and of the router keeps    *)
(* track of what the kernel holds.                                         *)
LEMMA LoadedStep == TypeOK /\ TypeOK' /\ Loaded /\ [Next]_vars => Loaded'
<1> SUFFICES ASSUME TypeOK, TypeOK', Loaded, [Next]_vars
             PROVE  Loaded'
  OBVIOUS
<1>0. IncludeIsWritten'
  BY IncludeIsWrittenStep DEF Loaded
<1> USE DEF Loaded, WrittenByJob, ChainsAreLoaded, ElementsAreMixed, SomeMixed,
            FlushedSoFar, ExactIsLoaded
<1>1. ASSUME NEW c \in Settings, Save(c)
      PROVE  Loaded'
  BY <1>0, <1>1 DEF Save, kernel, history, Doing, Idle
<1>2. ASSUME NEW kind \in OpKinds, Begin(kind)
      PROVE  Loaded'
  BY <1>0, <1>2 DEF Begin, kernel, history, Idle
<1>3. CASE Write
  <2>1. /\ written' = Doing /\ Doing' = Doing /\ job'.settings = job.settings
        /\ job'.step = IF Flushes(Doing) THEN "flush" ELSE "load"
        /\ job'.next = job.next
        /\ UNCHANGED <<chains, sets, loaded, mixed, exact>>
    BY <1>3 DEF Write, Doing, kernel, TypeOK, Jobs, Idle
  <2>2. job'.step = "load" => ~Flushes(Doing)
    BY <2>1
  <2>3. Flushes(Doing)' <=> Flushes(Doing)
    BY <2>1 DEF Flushes
  <2>4. job.next = 1 /\ 1..job.next - 1 = {}
    BY <1>3 DEF Write
  <2> QED BY <1>0, <2>1, <2>2, <2>3, <2>4 DEF Clean
<1>4. CASE FlushManagerSets
  <2>1. /\ job.step = "flush" /\ job \in Jobs /\ job.next \in 1..Len(ManagedSets)
        /\ sets \in SetValues /\ sets' \in SetValues
    BY <1>4 DEF FlushManagerSets, TypeOK, Jobs, Idle
  <2>2. /\ sets' = Flushed(sets, job.next)
        /\ UNCHANGED <<include, chains, written, loaded, exact>>
    BY <1>4 DEF FlushManagerSets
  <2>3. Clean(sets', job.next, job.settings)
    BY <2>1, <2>2, FlushCleans
  <2>4. Only(sets', mixed)
    BY <2>1, <2>2, FlushedShape, OnlyFewer
  <2>5. /\ job'.step \in {"flush", "load"} /\ Doing' = Doing
        /\ job'.settings = job.settings
    BY <1>4, <2>1 DEF FlushManagerSets, Jobs, Doing
  <2>6. CASE job.next < Len(ManagedSets)
    <3>1. mixed' = mixed /\ job'.step = "flush" /\ job'.next - 1 = job.next
      BY <1>4, <2>1, <2>6 DEF FlushManagerSets, Jobs, ManagedSets
    <3> QED BY <1>0, <2>1, <2>2, <2>3, <2>4, <2>5, <3>1
  <2>7. CASE ~(job.next < Len(ManagedSets))
    <3>1. mixed' = {job.settings} /\ job'.step = "load" /\ job.next = Len(ManagedSets)
      BY <1>4, <2>1, <2>7 DEF FlushManagerSets, Jobs, ManagedSets
    <3>2. Only(sets', mixed')
      BY <2>1, <2>3, <3>1, CleanIsOnly
    <3> QED BY <1>0, <2>1, <2>2, <2>5, <3>1, <3>2
  <2> QED BY <2>6, <2>7
<1>5. CASE Load
  <2>1. /\ job.step = "load" /\ FW4Reload /\ exact' = Reached(Doing) /\ job # Idle
        /\ job' = IF Deletes(Doing) THEN [job EXCEPT !.step = "delete"] ELSE Idle
        /\ UNCHANGED <<include, written>>
    BY <1>5 DEF Load, Idle
  <2>2. /\ Doing \in Operations /\ Doing.settings = job.settings /\ job \in Jobs
        /\ Doing.settings \in Configs
    BY <2>1, FirewallConstants DEF TypeOK, Jobs, Doing, Operations
  <2>3. /\ job'.step \in {"idle", "delete"}
        /\ job'.step = "delete" => Doing' = Doing
    BY <2>1, <2>2 DEF Jobs, Doing, Idle
  <2>4. written = Doing /\ include = IncludeOf(Doing)
    BY <2>1 DEF IncludeIsWritten
  <2>5. /\ chains' = include /\ loaded' = Doing
        /\ sets' = Merge /\ mixed' = mixed \cup Written
    BY <2>1, <2>4 DEF FW4Reload
  <2>6. Only(sets', mixed') /\ (chains' # NoFragment => mixed' # {})
    BY <2>5, ReloadMixes
  <2>7. ASSUME exact', chains' # NoFragment
        PROVE  sets' = Elements(Doing.settings)
    <3>1. mixed \subseteq {Doing.settings}
      BY <2>1, <2>2, <2>4, <2>5, <2>7 DEF Reached
    <3>2. Only(sets, {Doing.settings})
      BY <3>1 DEF Only
    <3>3. include.sets = Elements(Doing.settings)
      BY <2>2, <2>4, <2>5, <2>7, IncludeShape
    <3> QED BY <2>2, <2>5, <3>2, <3>3, ReloadCompletes
  <2> QED BY <1>0, <2>1, <2>3, <2>4, <2>5, <2>6, <2>7
<1>6. CASE DeleteManagerObjects
  <2>1. /\ job.step = "delete" /\ job \in Jobs /\ job.next \in 1..Len(ManagedSets)
        /\ sets \in SetValues
    BY <1>6 DEF DeleteManagerObjects, TypeOK, Jobs, Idle
  <2>2. /\ sets' \in {sets, Flushed(sets, job.next)}
        /\ mixed' = IF sets' = NoElements THEN {} ELSE mixed
        /\ UNCHANGED <<include, chains, written, loaded, exact>>
        /\ job' = Idle \/ job' = [job EXCEPT !.next = @ + 1]
    BY <1>6 DEF DeleteManagerObjects
  <2>3. job'.step \in {"idle", "delete"} /\ (job'.step = "delete" => Doing' = Doing)
    BY <2>1, <2>2 DEF Jobs, Doing, Idle
  <2>4. chains = NoFragment
    BY <2>1 DEF TypeOK, Deletes, IncludeOf, Idle
  <2>5. Only(sets', mixed)
    BY <2>1, <2>2, FlushedShape, OnlyFewer
  <2>6. Only(sets', mixed')
    BY <2>2, <2>5, OnlyNothing
  <2> QED BY <1>0, <2>1, <2>2, <2>3, <2>4, <2>6
<1>7. CASE Fail
  <2>1. /\ job'.step = "idle" /\ exact' = (exact /\ job.step = "write")
        /\ UNCHANGED <<include, chains, sets, written, loaded, mixed>>
    BY <1>7 DEF Fail, Idle, kernel
  <2> QED BY <1>0, <2>1
<1>8. CASE OtherReload
  <2>1. /\ chains' = include /\ loaded' = written
        /\ sets' = Merge /\ mixed' = mixed \cup Written
        /\ UNCHANGED <<include, job, written, exact>> /\ Doing' = Doing
    BY <1>8 DEF OtherReload, FW4Reload, Doing
  <2>2. Only(sets', mixed') /\ (chains' # NoFragment => mixed' # {})
    BY <2>1, ReloadMixes
  <2>3. job.step \in {"flush", "load"} => written.settings = job.settings
    BY DEF Doing
  <2>4. ASSUME job.step = "flush"
        PROVE  Clean(sets', job.next - 1, job.settings)
    <3>1. job \in Jobs /\ job.next - 1 \in 0..Len(ManagedSets)
      BY <2>4 DEF TypeOK, Jobs, Idle, ManagedSets
    <3> QED BY <2>1, <2>3, <2>4, <3>1, ReloadKeepsClean
  <2>5. ASSUME job.step = "load", Flushes(Doing)
        PROVE  mixed' = {job.settings}
    BY <2>1, <2>3, <2>5 DEF Written
  <2>6. ASSUME exact, job.step \in {"idle", "write", "delete"}, include # NoFragment
        PROVE  sets' = Elements(written.settings)
    <3>1. /\ written \in Operations /\ include.sets = Elements(written.settings)
      BY <2>6, WrittenShape
    <3>2. written.settings \in Configs
      BY <3>1, FirewallConstants DEF Operations
    <3>3. sets = Elements(written.settings)
      BY <2>6 DEF IncludeIsWritten
    <3> QED BY <2>1, <3>1, <3>2, <3>3, ElementsOnly, ReloadCompletes
  <2>7. Flushes(Doing)' <=> Flushes(Doing)
    BY <2>1 DEF Flushes
  <2>8. chains' = IncludeOf(loaded')
    BY <2>1 DEF IncludeIsWritten
  <2> QED BY <1>0, <2>1, <2>2, <2>4, <2>5, <2>6, <2>7, <2>8
<1>9. CASE Reboot
  <2>1. /\ job'.step = "idle" /\ chains' = include /\ loaded' = written
        /\ sets' = include.sets /\ mixed' = Written
        /\ UNCHANGED <<include, written>>
    BY <1>9 DEF Reboot, Idle
  <2>2. Only(sets', mixed') /\ (chains' # NoFragment => mixed' # {})
    BY <2>1, ReloadMixes
  <2>3. include # NoFragment => include.sets = Elements(written.settings)
    BY WrittenShape
  <2> QED BY <1>0, <2>1, <2>2, <2>3 DEF IncludeIsWritten
<1>10. CASE UNCHANGED vars
  <2>1. UNCHANGED <<include, chains, sets, job, written, loaded, mixed, exact>> /\ Doing' = Doing
    BY <1>10 DEF vars, kernel, history, Doing
  <2>2. Flushes(Doing)' <=> Flushes(Doing)
    BY <2>1 DEF Flushes
  <2> QED BY <1>0, <2>1, <2>2
<1> QED
  BY <1>1, <1>2, <1>3, <1>4, <1>5, <1>6, <1>7, <1>8, <1>9, <1>10 DEF Next, Operate, Step

(* The invariant holds of every behaviour.                                 *)
LEMMA LoadedCorrect == Spec => [](TypeOK /\ Loaded)
<1>1. Init => Loaded
  BY LoadedInit
<1>2. TypeOK /\ TypeOK' /\ Loaded /\ [Next]_vars => Loaded'
  BY LoadedStep
<1> QED BY <1>1, <1>2, TypeCorrect, PTL DEF Spec

-----------------------------------------------------------------------------
(* Traffic is contained only where something is proxied.                   *)
LEMMA ContainedIsActive ==
  ASSUME NEW c \in Configs, NEW p \in Packets, Contained(c, p)
  PROVE  Active(c) /\ c.kill
<1>1. p.dev \in Devices /\ c.kill /\ Mode(c, p) = "tproxy"
  BY DEF Contained, Packets
<1>2. Active(c)
  BY <1>1 DEF Mode, Listed, Active
<1> QED BY <1>1, <1>2

(* After an apply that succeeded, and whatever came before, every packet   *)
(* has the fate the settings intend (applyFirewall, writeTProxyChain,      *)
(* writeDNSRedirectChain, writeKillSwitchForwardChain).                    *)
THEOREM ApplyCorrect == Spec => []AppliedIsIntended
<1>1. TypeOK /\ Loaded => AppliedIsIntended
  <2> SUFFICES ASSUME TypeOK, Loaded, job = Idle, exact, loaded.kind = "apply",
                      NEW p \in Packets
               PROVE  Fate(chains, sets, p) = IF Active(loaded.settings)
                                              THEN IntendedUp(loaded.settings, p)
                                              ELSE Untouched(p)
    BY DEF AppliedIsIntended
  <2> DEFINE c == loaded.settings
  <2>1. /\ loaded \in Operations /\ c \in Configs
        /\ IncludeOf(loaded) = Render(c)
    BY FirewallConstants DEF TypeOK, NoOperation, Operations, IncludeOf
  <2>2. /\ chains = Render(c)
        /\ chains # NoFragment => sets = Elements(c)
    BY <2>1 DEF Loaded, ChainsAreLoaded, ExactIsLoaded, Idle
  <2>3. CASE Active(c)
    <3>1. Render(c).chains # {}
      BY <2>3 DEF Render, Fragment
    <3>2. sets = Elements(c)
      BY <2>2, <3>1, NoFragmentHasNoElements
    <3> QED BY <2>1, <2>2, <2>3, <3>2, RenderedIsIntended
  <2>4. CASE ~Active(c)
    <3>1. chains = NoFragment
      BY <2>2, <2>4 DEF Render
    <3> QED BY <2>4, <3>1, NoFragmentIsUntouched
  <2> QED BY <2>3, <2>4
<1> QED BY <1>1, LoadedCorrect, PTL

(* After a stop or a teardown that succeeded, what the kill switch has to  *)
(* contain is blocked and nothing else is touched (cleanupFirewall,        *)
(* cleanupFirewallFull, deleteManagerObjects).                             *)
THEOREM StopCorrect == Spec => []StoppedIsIntended
<1>1. TypeOK /\ Loaded => StoppedIsIntended
  <2> SUFFICES ASSUME TypeOK, Loaded, job.step \in {"idle", "delete"}, exact,
                      loaded.kind \in {"stop", "teardown"}, NEW p \in Packets
               PROVE  Fate(chains, sets, p) = IF loaded.kind = "stop"
                                              THEN IntendedDown(loaded.settings, p)
                                              ELSE Untouched(p)
    BY DEF StoppedIsIntended
  <2> DEFINE c == loaded.settings
  <2>1. /\ loaded \in Operations /\ c \in Configs
        /\ IncludeOf(loaded) = IF loaded.kind = "stop" THEN RenderKillSwitch(c) ELSE NoFragment
    BY FirewallConstants DEF TypeOK, NoOperation, Operations, IncludeOf
  <2>2. /\ chains = IncludeOf(loaded)
        /\ chains # NoFragment => sets = Elements(c)
    BY <2>1 DEF Loaded, ChainsAreLoaded, ExactIsLoaded
  <2>3. CASE loaded.kind = "stop" /\ Active(c) /\ c.kill
    <3>1. chains = RenderKillSwitch(c) /\ RenderKillSwitch(c).chains # {}
      BY <2>1, <2>2, <2>3 DEF RenderKillSwitch, Fragment
    <3>2. sets = Elements(c)
      BY <2>2, <3>1, NoFragmentHasNoElements
    <3> QED BY <2>1, <2>3, <3>1, <3>2, KillSwitchIsIntended
  <2>4. CASE loaded.kind = "stop" /\ ~(Active(c) /\ c.kill)
    <3>1. chains = NoFragment
      BY <2>1, <2>2, <2>4 DEF RenderKillSwitch
    <3>2. ~Contained(c, p)
      BY <2>1, <2>4, ContainedIsActive
    <3> QED BY <2>4, <3>1, <3>2, NoFragmentIsUntouched DEF IntendedDown
  <2>5. CASE loaded.kind = "teardown"
    BY <2>1, <2>2, <2>5, NoFragmentIsUntouched
  <2> QED BY <2>3, <2>4, <2>5
<1> QED BY <1>1, LoadedCorrect, PTL

-----------------------------------------------------------------------------
(* From settings to settings.                                              *)

(* A packet that none of several settings lets past the kill switch stays  *)
(* inside when the LAN is proxied by default, whichever of their elements  *)
(* the sets have.                                                          *)
LEMMA KillSwitchHoldsBetween ==
  ASSUME NEW m \in SUBSET Configs, NEW p \in Packets, NEW f, NEW s,
         m # {}, \A c \in m : Contained(c, p),
         "kill" \in f.chains, f.catchAll, Only(s, m)
  PROVE  Fate(f, s, p) # "direct"
<1>1. p.dst \in Outside /\ \A c \in m : ~To(c.pinned, p)
  BY DEF Contained
<1>2. ASSUME NEW c \in m
      PROVE  /\ ~From(Elements(c).bypass, p)
             /\ ~(p.proto = "udp" /\ From(Elements(c).udpbypass, p))
  <2>1. c \in Configs /\ Mode(c, p) = "tproxy" /\ ~DirectUDP(c, p)
    BY DEF Contained
  <2> QED BY <2>1, Tests DEF DirectUDP, Mode
<1>3. /\ s.bypass = s["bypass"] /\ s.udpbypass = s["udpbypass"] /\ s.bdst = s["bdst"]
      /\ \A c \in m : /\ Elements(c).bypass = Elements(c)["bypass"]
                      /\ Elements(c).udpbypass = Elements(c)["udpbypass"]
                      /\ Elements(c).bdst = Elements(c)["bdst"]
                      /\ Elements(c).bdst = c.pinned
  BY DEF Elements
<1>4. ~From(s.bypass, p)
  <2> SUFFICES ASSUME NEW e \in Sources(p), e \in s.bypass
               PROVE  FALSE
    BY DEF From
  <2>1. PICK c \in m : e \in Elements(c).bypass
    BY <1>3 DEF Only, Named
  <2> QED BY <1>2, <2>1 DEF From
<1>5. ~(p.proto = "udp" /\ From(s.udpbypass, p))
  <2> SUFFICES ASSUME p.proto = "udp", NEW e \in Sources(p), e \in s.udpbypass
               PROVE  FALSE
    BY DEF From
  <2>1. PICK c \in m : e \in Elements(c).udpbypass
    BY <1>3 DEF Only, Named
  <2> QED BY <1>2, <2>1 DEF From
<1>6. ~To(s.bdst, p)
  BY <1>1, <1>3 DEF Only, Named, To
<1>7. KillSwitchForwardChain(f, s, p) = "drop"
  BY <1>1, <1>4, <1>5, <1>6 DEF KillSwitchForwardChain, Outside
<1> QED BY <1>1, <1>7 DEF Fate, Outside

(* What an operation that closes the kill switch writes has its chain.     *)
LEMMA IncludeHasKillSwitch ==
  ASSUME NEW op, Closes(op)
  PROVE  "kill" \in IncludeOf(op).chains /\ IncludeOf(op).catchAll
BY DEF Closes, Active, IncludeOf, Render, RenderKillSwitch, Fragment

(* Where the LAN is proxied by default, nothing lets out what is contained *)
(* under all of the settings whose elements the sets may have: no flush of *)
(* some of the sets, no failure, no set that could not be deleted, no      *)
(* reload by another service (applyFirewall, flushManagerSets,             *)
(* cleanupFirewall, deleteManagerObjects).                                 *)
THEOREM ContainedThroughoutCorrect == Spec => []ContainedThroughout
<1>1. TypeOK /\ Loaded => ContainedThroughout
  <2> SUFFICES ASSUME TypeOK, Loaded, Closes(loaded), NEW p \in Packets,
                      \A c \in mixed : Contained(c, p)
               PROVE  Fate(chains, sets, p) # "direct"
    BY DEF ContainedThroughout
  <2>1. "kill" \in chains.chains /\ chains.catchAll
    BY IncludeHasKillSwitch DEF Loaded, ChainsAreLoaded
  <2>2. mixed # {} /\ mixed \in SUBSET Configs /\ Only(sets, mixed)
    BY <2>1, NoFragmentHasNoElements, FirewallConstants
       DEF TypeOK, Loaded, SomeMixed, ElementsAreMixed
  <2> QED BY <2>1, <2>2, KillSwitchHoldsBetween
<1> QED BY <1>1, LoadedCorrect, PTL
=============================================================================
