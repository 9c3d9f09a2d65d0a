---------------------------- MODULE FirewallRules ----------------------------
(***************************************************************************)
(* What internal/firewall/firewall.go renders and what the kernel does     *)
(* with it: the transparent settings, the fragment rendered from them, and *)
(* the fate of a packet that enters from the LAN under a loaded fragment   *)
(* and the live elements of the manager's named sets.                      *)
(*                                                                         *)
(* In a chain the first rule that matches decides, so the order of the     *)
(* rules is what the code is careful about; it is the order of the tests   *)
(* below.  The three sets a bucket has (mac, ipv4, ipv6) are one set of    *)
(* addresses: they are always matched side by side with the same verdict,  *)
(* and are told apart only where they are flushed one after the other.     *)
(***************************************************************************)
EXTENDS Naturals, Sequences

CONSTANT Devices   \* machines on the LAN

(* The kinds of address a machine is known by, and those of a packet.      *)
Nets == {"ipv4", "ipv6"}
Kinds == {"mac"} \cup Nets

Addresses == Devices \X Kinds

(* Destinations, by what the rules tell apart: the router itself, a        *)
(* private or reserved range, broadcast and multicast, and two places on   *)
(* the Internet.                                                           *)
Destinations == {"router", "reserved", "multicast", "office", "internet"}
Outside == {"office", "internet"}
Places == Destinations \X Nets

(* A packet from the LAN carries the hardware address of its machine and   *)
(* one network address.                                                    *)
Packets ==
  [dev : Devices, net : Nets, proto : {"tcp", "udp", "icmp"},
   dns : BOOLEAN, dst : Destinations]

Sources(p) == {p.dev} \X {"mac", p.net}
From(addresses, p) == Sources(p) \cap addresses # {}
To(places, p) == <<p.dst, p.net>> \in places
Transport(p) == p.proto \in {"tcp", "udp"}
Dns(p) == p.dns /\ Transport(p)

-----------------------------------------------------------------------------
(* The transparent settings (internal/config/model.go).                    *)

Entries == [enabled : BOOLEAN, mode : {"default", "tproxy", "bypass"}, udp : BOOLEAN,
            kinds : SUBSET Kinds \ {{}}]

Configs == [default : {"off", "tproxy"}, hijack : BOOLEAN, kill : BOOLEAN,
            pinned : SUBSET Places, device : [Devices -> Entries]]

(* Transparent.Effective.                                                  *)
Effective(c, d) ==
  IF c.device[d].mode = "default" THEN c.default ELSE c.device[d].mode

(* Transparent.uses, for "tproxy": Active and UsesTProxy.                  *)
Active(c) ==
  \/ c.default = "tproxy"
  \/ \E d \in Devices : c.device[d].enabled /\ Effective(c, d) = "tproxy"

-----------------------------------------------------------------------------
(* Rendering.                                                              *)

(* A device that proxies only its TCP is in two buckets.                   *)
InBucket(c, d, b) ==
  IF b = "udpbypass" THEN Effective(c, d) = "tproxy" /\ c.device[d].udp
                     ELSE Effective(c, d) = b

(* bucketDevices: the addresses of the enabled devices of the bucket.      *)
Bucket(c, b) == {a \in Addresses : /\ c.device[a[1]].enabled /\ InBucket(c, a[1], b)
                                   /\ a[2] \in c.device[a[1]].kinds}

(* The live elements of the named sets.                                    *)
SetValues == [tproxy : SUBSET Addresses, bypass : SUBSET Addresses,
              udpbypass : SUBSET Addresses, bdst : SUBSET Places]

NoElements == [tproxy |-> {}, bypass |-> {}, udpbypass |-> {}, bdst |-> {}]

Elements(c) == [tproxy |-> Bucket(c, "tproxy"), bypass |-> Bucket(c, "bypass"),
                udpbypass |-> Bucket(c, "udpbypass"), bdst |-> c.pinned]

(* ManagedSets, in its order: a set for every bucket and kind of address,  *)
(* and one for the pinned destinations of either family.                   *)
ManagedSets == <<
  <<"tproxy", "mac">>, <<"tproxy", "ipv4">>, <<"tproxy", "ipv6">>,
  <<"bypass", "mac">>, <<"bypass", "ipv4">>, <<"bypass", "ipv6">>,
  <<"udpbypass", "mac">>, <<"udpbypass", "ipv4">>, <<"udpbypass", "ipv6">>,
  <<"bdst", "ipv4">>, <<"bdst", "ipv6">> >>

(* nft flush set of the i-th.                                              *)
Flushed(s, i) ==
  [s EXCEPT ![ManagedSets[i][1]] = {e \in @ : e[2] # ManagedSets[i][2]}]

(* An include file: its chains, in the form for a LAN proxied by default   *)
(* or for one where only pinned devices are, and its set elements.         *)
Fragments == [chains : SUBSET {"tproxy", "dns", "kill"}, catchAll : BOOLEAN, sets : SetValues]

NoFragment == [chains |-> {}, catchAll |-> FALSE, sets |-> NoElements]

Fragment(c, chains) ==
  [chains |-> chains, catchAll |-> c.default = "tproxy", sets |-> Elements(c)]

(* Apply: Render, or no include when nothing is proxied.                   *)
Render(c) ==
  IF ~Active(c) THEN NoFragment
  ELSE Fragment(c, {"tproxy"} \cup (IF c.hijack THEN {"dns"} ELSE {})
                              \cup (IF c.kill THEN {"kill"} ELSE {}))

(* ApplyKillSwitch: RenderKillSwitch, or no include without one.           *)
RenderKillSwitch(c) ==
  IF Active(c) /\ c.kill THEN Fragment(c, {"kill"}) ELSE NoFragment

-----------------------------------------------------------------------------
(* Chains.                                                                 *)

(* writeTProxyChain.                                                       *)
TProxyChain(f, s, p) ==
  IF p.dst = "multicast" THEN "return"
  ELSE IF f.catchAll /\ From(s.bypass, p) THEN "return"
  ELSE IF To(s.bdst, p) THEN "return"
  ELSE IF "dns" \in f.chains /\ Dns(p) /\ p.dst = "router" THEN "return"
  ELSE IF "dns" \in f.chains /\ Dns(p) /\ (f.catchAll \/ From(s.tproxy, p)) THEN "tproxy_do"
  ELSE IF p.proto = "udp" /\ From(s.udpbypass, p) THEN "return"
  ELSE IF p.dst \in {"router", "reserved"} THEN "return"
  ELSE IF f.catchAll \/ From(s.tproxy, p) THEN "tproxy_do"
  ELSE "accept"

(* writeDNSRedirectChain.                                                  *)
DNSRedirectChain(f, s, p) ==
  IF p.dst # "router" THEN "return"
  ELSE IF f.catchAll /\ From(s.bypass, p) THEN "return"
  ELSE IF Dns(p) /\ (f.catchAll \/ From(s.tproxy, p)) THEN "redirect"
  ELSE "accept"

(* writeKillSwitchForwardChain.                                            *)
KillSwitchForwardChain(f, s, p) ==
  IF p.dst \in {"router", "multicast", "reserved"} THEN "return"
  ELSE IF To(s.bdst, p) THEN "return"
  ELSE IF p.proto = "udp" /\ From(s.udpbypass, p) THEN "return"
  ELSE IF f.catchAll /\ From(s.bypass, p) THEN "return"
  ELSE IF f.catchAll \/ From(s.tproxy, p) THEN "drop"
  ELSE "accept"

(* The hooks in the order of their priorities: mangle prerouting, dstnat   *)
(* prerouting, then input for the router itself and forward for the rest.  *)
(* The tproxy statement takes TCP and UDP only.                            *)
Fate(f, s, p) ==
  IF "tproxy" \in f.chains /\ TProxyChain(f, s, p) = "tproxy_do" /\ Transport(p)
    THEN "proxied"
  ELSE IF "dns" \in f.chains /\ DNSRedirectChain(f, s, p) = "redirect" THEN "resolved"
  ELSE IF p.dst \in {"router", "multicast"} THEN "local"
  ELSE IF "kill" \in f.chains /\ KillSwitchForwardChain(f, s, p) = "drop" THEN "blocked"
  ELSE "direct"

-----------------------------------------------------------------------------
(* What the settings mean, without chains and sets.                        *)

(* The entry of a machine counts when it is enabled and names an address   *)
(* the packet carries.                                                     *)
Listed(c, p) == c.device[p.dev].enabled /\ c.device[p.dev].kinds \cap {"mac", p.net} # {}

Mode(c, p) == IF Listed(c, p) THEN Effective(c, p.dev) ELSE c.default

DirectUDP(c, p) == p.proto = "udp" /\ Listed(c, p) /\ c.device[p.dev].udp

(* Traffic the kill switch must not let out directly.                      *)
Contained(c, p) ==
  /\ c.kill /\ Mode(c, p) = "tproxy"
  /\ p.dst \in Outside /\ ~To(c.pinned, p)
  /\ ~DirectUDP(c, p)

(* DNS of a proxied machine is hijacked, whoever it asks and however its   *)
(* other UDP travels, unless it asks a pinned destination.                 *)
Hijacked(c, p) ==
  /\ c.hijack /\ Mode(c, p) = "tproxy" /\ Dns(p)
  /\ p.dst = "router" \/ (p.dst # "multicast" /\ ~To(c.pinned, p))

(* Everything else a proxied machine sends to the outside is proxied.      *)
Proxied(c, p) ==
  /\ Mode(c, p) = "tproxy" /\ Transport(p)
  /\ p.dst \in Outside /\ ~To(c.pinned, p)
  /\ ~DirectUDP(c, p)

Untouched(p) == IF p.dst \in {"router", "multicast"} THEN "local" ELSE "direct"

IntendedUp(c, p) ==
  IF Hijacked(c, p) THEN (IF p.dst = "router" THEN "resolved" ELSE "proxied")
  ELSE IF Proxied(c, p) THEN "proxied"
  ELSE IF Contained(c, p) THEN "blocked"
  ELSE Untouched(p)

IntendedDown(c, p) == IF Contained(c, p) THEN "blocked" ELSE Untouched(p)
=============================================================================
