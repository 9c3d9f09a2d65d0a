----------------------------- MODULE MCFirewall -----------------------------
(* Instances of Firewall: every setting of one machine, and a few settings *)
(* of two that differ where a left-over would show.                        *)
EXTENDS Firewall, TLC

CONSTANTS d1, d2

TwoDevices == {d1, d2}

Off == [enabled |-> FALSE, mode |-> "default", udp |-> FALSE, kinds |-> {"mac"}]
Entry(mode, udp, kind) == [enabled |-> TRUE, mode |-> mode, udp |-> udp, kinds |-> {kind}]

Setting(default, kill, pinned, entry1, entry2) ==
  [default |-> default, hijack |-> TRUE, kill |-> kill, pinned |-> pinned,
   device |-> [d \in Devices |-> IF d = d1 THEN entry1 ELSE entry2]]

(* The LAN proxied by default: a device bypassed, not listed, or with its  *)
(* UDP direct; the kill switch off; a destination pinned; and the          *)
(* whitelist.                                                              *)
ByDefault == {
  Setting("tproxy", TRUE, {}, Entry("bypass", FALSE, "mac"), Off),
  Setting("tproxy", TRUE, {}, Entry("default", TRUE, "ipv4"), Entry("bypass", FALSE, "ipv6")),
  Setting("tproxy", TRUE, {<<"office", "ipv4">>}, Off, Off),
  Setting("tproxy", FALSE, {}, Entry("tproxy", FALSE, "mac"), Off)}

Whitelist == {
  Setting("off", TRUE, {}, Entry("tproxy", FALSE, "mac"), Entry("bypass", FALSE, "ipv4")),
  Setting("off", FALSE, {}, Entry("default", FALSE, "mac"), Entry("tproxy", TRUE, "ipv4")),
  Setting("off", TRUE, {}, Entry("bypass", FALSE, "mac"), Off)}

Both == ByDefault \cup Whitelist
=============================================================================
