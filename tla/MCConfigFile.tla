----------------------------- MODULE MCConfigFile -----------------------------
(***************************************************************************)
(* The configuration file: instances of Sections (what is in it), of Uci   *)
(* (its text) and of Import (what a subscription puts into it).  They      *)
(* share no variable, so it is enough to look at one of them moving while  *)
(* the others rest: "part" says which one.                                 *)
(***************************************************************************)
EXTENDS Sections, Uci, Import, TLC

CONSTANTS s1, s2, g1, g2, n1, d1, dr, rr

TwoSubs == {s1, s2}
TwoSets == {g1, g2}
OneName == {n1}
OneServer == {d1}
OneDNSRule == {dr}
OneRouteRule == {rr}
Underscored == (g1 :> g1) @@ (g2 :> "g_2")

(* Sections: the sections of a small configuration, in the order of the    *)
(* package and in another, with singletons by their old names and a rule   *)
(* set without an id.                                                      *)
Rule(server, sources, sets) == [server |-> server, sources |-> sources, sets |-> sets]

SomeRequests ==
  {[op |-> "UpsertSubscription", id |-> s, on |-> on, attach |-> attach] :
     s \in TwoSubs, on \in BOOLEAN, attach \in BOOLEAN}
  \cup {[op |-> "ReplaceSubscriptionNodes", id |-> s, nodes |-> ns] :
          s \in {s1}, ns \in {{}, {<<s1, n1>>}}}
  \cup {[op |-> "ReplaceSubscriptionNodes", id |-> s2, nodes |-> {<<s2, n1>>}]}
  \cup {[op |-> op, id |-> s] : op \in {"MarkSubscriptionError", "DeleteSubscription"}, s \in TwoSubs}
  \cup {[op |-> op, id |-> <<Manual, n1>>] : op \in {"UpsertManualNode", "DeleteManualNode", "SelectNode"}}
  \cup {[op |-> op, id |-> <<s1, n1>>] : op \in {"UpsertManualNode", "DeleteManualNode", "SelectNode"}}
  \cup {[op |-> "SetGroupSettings", id |-> None, members |-> {s1, s2}, final |-> None]}
  \cup {[op |-> op, id |-> d1] : op \in {"UpsertDNSServer", "DeleteDNSServer"}}
  \cup {[op |-> "UpsertRule", id |-> dr, body |-> Rule(d1, FALSE, {g1, g2})],
        [op |-> "UpsertRule", id |-> rr, body |-> Rule(None, FALSE, {g2})]}
  \cup {[op |-> "DeleteRule", id |-> r] : r \in {dr, rr}}
  \cup {[op |-> op, id |-> g] :
          op \in {"UpsertRuleSet", "MarkRuleSetUpdated", "MarkRuleSetError", "DeleteRuleSet"}, g \in TwoSets}
  \cup {[op |-> op, id |-> TRUE] :
          op \in {"SetManagerEnabled", "SetManagerPaused", "UpsertTransparent", "UpsertTUN"}}
  \cup {[op |-> "SetManagerRuntimeMode", id |-> "global"]}

(* The sections of those files.                                            *)
Manager == [typ |-> "manager", name |-> "main", enabled |-> TRUE, paused |-> FALSE, mode |-> "rule"]
Group(n) == [typ |-> "group", name |-> "home", selected |-> n, final |-> d1, members |-> <<s1>>]
Sub(s) == [typ |-> "subscription", name |-> s, on |-> TRUE, updated |-> "old", error |-> TRUE]
Node(n, from) == [typ |-> "node", name |-> n, from |-> from]
Server == [typ |-> "dns_server", name |-> d1]
RuleOf(typ, r, server, sources, sets) ==
  [typ |-> typ, name |-> r, server |-> server, sources |-> sources, sets |-> sets]
OldRuleSet == [typ |-> "ruleset", name |-> g1, id |-> None, updated |-> "old", error |-> FALSE]
Switch(typ, name) == [typ |-> typ, name |-> name, on |-> FALSE]

PackageFile ==
  <<Manager, Group(<<s1, n1>>), Sub(s1), Node(<<s1, n1>>, s1), Node(<<Manual, n1>>, None),
    Server, RuleOf("dns_rule", dr, d1, FALSE, <<g1>>), RuleOf("route_rule", rr, None, TRUE, << >>),
    OldRuleSet, Switch("transparent", "main"), Switch("tun", "main")>>

OtherFile ==
  <<OldRuleSet, RuleOf("route_rule", rr, None, FALSE, <<g1>>), Node(<<s1, n1>>, s1), Sub(s1),
    Server, Group(None), Manager>>

Files == {PackageFile, OtherFile}

-----------------------------------------------------------------------------
(* Uci: files as people write them, and values that hold anything the      *)
(* tokenizer tells apart.                                                  *)
L == "letter"
S == "space"
Q == "quote"
D == "doublequote"
N == "newline"

Texts ==
  {<< >>,
   <<"config", S, L, S, Q, L, S, L, Q, N, S, "option", S, L, S, Q, "backslash", D, Q, S, "hash", Q, N>>,
   <<"hash", Q, N, "config", S, D, L, D, N, N, S, "option", S, L, S, L, "hash", Q, N,
     S, "list", S, L, S, D, "backslash", D, Q, D, N, S, "list", S, L, S, Q, Q, N>>,
   <<"config", S, L, S, L, S, L, N>>,
   <<"option", S, L, S, L, N>>,
   <<"config", S, L, N, "option", S, L, S, Q, Q, N, "option", S, L, S, L>>,
   <<"config", S, L, S, D, "backslash">>}

OneKey == {<<L>>}
ShortValues ==
  {<< >>} \cup {<<ch>> : ch \in {"config", "option", "list", "letter", "space", "hash",
                               "quote", "doublequote", "backslash", "newline"}}
    \cup [1..2 -> {"backslash", "doublequote", "hash", "newline"}]

-----------------------------------------------------------------------------
(* Import: outbounds of a document by protocol, TLS block and transport,   *)
(* and links by protocol and parameters.                                   *)
ProxyTypes == {"shadowsocks", "vmess", "vless", "trojan", "hysteria2", "tuic"}
StreamTypes == {"trojan", "vmess", "vless"}

Outbound(type) ==
  [form |-> "outbound", type |-> type, name |-> "tag", server |-> "server", port |-> 443,
   uuid |-> IF type \in {"vmess", "vless", "tuic"} THEN "uuid" ELSE "",
   password |-> IF type \in {"shadowsocks", "trojan", "hysteria2", "tuic"} THEN "password" ELSE "",
   method |-> IF type = "shadowsocks" THEN "method" ELSE "",
   security |-> "", flow |-> "", congestion |-> "", tls |-> NoBlock, transport |-> NoBlock, extra |-> ""]

TLSBlocks ==
  [enabled : BOOLEAN, insecure : BOOLEAN, sni : {"", "sni"}, alpn : {"", "h2"}, fp : {"", "firefox"},
   reality : {NoBlock, [pbk |-> "key", sid |-> ""]}]

TransportBlocks ==
  {[type |-> type, path |-> path, host |-> "", header |-> header, service |-> ""] :
     type \in {"ws"}, path \in {"", "path"}, header \in {"", "host"}}
  \cup {[type |-> type, path |-> "path", host |-> host, header |-> "", service |-> ""] :
          type \in {"http", "httpupgrade", "quic"}, host \in {"", "host"}}
  \cup {[type |-> "grpc", path |-> "", host |-> "", header |-> "", service |-> "service"]}

DocumentEntries ==
  {Outbound(type) : type \in ProxyTypes \cup {"selector"}}
  \cup {[Outbound(type) EXCEPT !.tls = t] : type \in ProxyTypes \ {"shadowsocks"}, t \in TLSBlocks}
  \cup {[Outbound(type) EXCEPT !.transport = t] : type \in StreamTypes, t \in TransportBlocks}
  \cup {[Outbound("vmess") EXCEPT !.security = c] : c \in {"auto", "none", "zero"}}
  \cup {[Outbound("vless") EXCEPT !.flow = "vision"], [Outbound("vless") EXCEPT !.server = ""],
        [Outbound("vless") EXCEPT !.port = 0], [Outbound("tuic") EXCEPT !.congestion = "bbr"]}
  \cup {[Outbound(type) EXCEPT !.extra = "extra"] : type \in ProxyTypes}

Link(type) ==
  [form |-> "standard", type |-> type, name |-> "", server |-> "server", port |-> 443,
   user |-> "user", pass |-> IF type = "tuic" THEN "pass" ELSE "", cipher |-> "",
   security |-> "", tls |-> "", transport |-> "", host |-> "", path |-> "", sni |-> "", alpn |-> "",
   insecure |-> FALSE, flow |-> "", pbk |-> "", sid |-> "", fp |-> "", congestion |-> "",
   service |-> "", extra |-> ""]

LinkTypes == {"vless", "vmess", "trojan", "hysteria2", "tuic"}

VMess == [form |-> "vmess", type |-> "vmess", name |-> "ps", server |-> "server", port |-> 443,
          user |-> "user", cipher |-> "auto", tls |-> "", transport |-> "ws", host |-> "host",
          path |-> "path", sni |-> "", alpn |-> "", fp |-> "", extra |-> ""]

Shadowsocks == [form |-> "shadowsocks", type |-> "shadowsocks", name |-> "", server |-> "server",
                port |-> 443, method |-> "method", password |-> "password", extra |-> ""]

LinkEntries ==
  {[Link(type) EXCEPT !.security = security, !.sni = sni, !.alpn = alpn, !.insecure = insecure,
                      !.pbk = "key", !.fp = fp] :
     type \in {"vless", "trojan"}, security \in {"", "tls", "reality"}, sni \in {"", "sni"},
     alpn \in {"", "h2"}, insecure \in BOOLEAN, fp \in {"", "firefox"}}
  \cup {[Link("vless") EXCEPT !.security = "none", !.sni = "sni"]}
  \cup {[Link(type) EXCEPT !.tls = "1", !.sni = "sni"] : type \in LinkTypes}
  \cup {[Link(type) EXCEPT !.sni = sni] : type \in LinkTypes, sni \in {"", "sni"}}
  \cup {[Link("vmess") EXCEPT !.security = security, !.cipher = cipher] :
          security \in {"", "tls", "reality"}, cipher \in {"", "zero", "tls"}}
  \cup {[Link(type) EXCEPT !.transport = transport, !.path = "path", !.host = "host", !.security = "tls"] :
          type \in {"vless", "vmess", "trojan"}, transport \in {"tcp", "ws", "grpc", "http", "xhttp"}}
  \cup {[VMess EXCEPT !.cipher = cipher, !.tls = tls] : cipher \in {"", "none", "tls"}, tls \in {"", "tls"}}
  \cup {[VMess EXCEPT !.tls = tls, !.alpn = alpn, !.fp = fp] :
          tls \in {"", "tls"}, alpn \in {"", "h2"}, fp \in {"", "firefox"}}
  \cup {[Link("vless") EXCEPT !.transport = "grpc", !.path = path, !.service = "service"] :
          path \in {"", "path"}}
  \cup {Shadowsocks, [Shadowsocks EXCEPT !.extra = "plugin"], [Link("hysteria2") EXCEPT !.extra = "obfs"]}

(* Entries to be listed beside each other: some that only differ in their  *)
(* transport or in a plugin, which are not in the hash, one twice, one     *)
(* that is passed over, and one that is incomplete.                        *)
SomeLinks ==
  {Link("vless"), Shadowsocks, [Shadowsocks EXCEPT !.extra = "plugin"],
   [Link("vless") EXCEPT !.transport = "ws", !.path = "path"],
   [Link("vless") EXCEPT !.transport = "xhttp"], [Link("vless") EXCEPT !.port = 0],
   [Link("trojan") EXCEPT !.sni = "sni"], [form |-> "unsupported"], VMess}

Lists ==
  {[document |-> TRUE, encoded |-> FALSE, entries |-> <<e>>] : e \in DocumentEntries}
  \cup {[document |-> FALSE, encoded |-> FALSE, entries |-> <<e>>] : e \in LinkEntries}
  \cup {[document |-> FALSE, encoded |-> TRUE, entries |-> es] :
          es \in {<<e, f>> : e \in SomeLinks, f \in SomeLinks}
                   \cup {<<e, e, f>> : e \in SomeLinks, f \in SomeLinks} \cup {<<[form |-> "unsupported"]>>}}
  \cup {[document |-> TRUE, encoded |-> TRUE, entries |-> es] :
          es \in {<< >>, <<Outbound("selector"), Outbound("vmess"), Outbound("trojan")>>}}
  \cup {[document |-> FALSE, encoded |-> FALSE, entries |-> << >>]}

AllFormats == {"auto", "base64", "plain"}

(* Afterwards the provider may be out of order, or serve less.             *)
Changed == {[document |-> FALSE, encoded |-> FALSE, entries |-> << >>],
            [document |-> FALSE, encoded |-> TRUE, entries |-> <<[form |-> "unsupported"]>>],
            [document |-> FALSE, encoded |-> FALSE, entries |-> <<[Link("vless") EXCEPT !.port = 0]>>],
            [document |-> TRUE, encoded |-> FALSE, entries |-> <<Outbound("vless")>>]}

-----------------------------------------------------------------------------
VARIABLE part   \* the one that moves

fileVars == <<file, asked, left>>

Nothing == [document |-> FALSE, encoded |-> FALSE, entries |-> << >>]

PartsInit ==
  /\ Init /\ TextInit /\ ImportInit
  /\ \/ part = "sections" /\ text = << >> /\ answer = Nothing /\ format = "auto"
     \/ part = "text" /\ file = PackageFile /\ answer = Nothing /\ format = "auto"
     \/ part = "import" /\ file = PackageFile /\ text = << >>

PartsNext ==
  /\ UNCHANGED part
  /\ \/ part = "sections" /\ Next /\ UNCHANGED <<textVars, importVars>>
     \/ part = "text" /\ TextNext /\ UNCHANGED <<fileVars, importVars>>
     \/ part = "import" /\ ImportNext /\ UNCHANGED <<fileVars, textVars>>

PartsSpec == PartsInit /\ [][PartsNext]_<<part, fileVars, textVars, importVars>>
=============================================================================
