-------------------------------- MODULE Import --------------------------------
(***************************************************************************)
(* From what a provider serves to what sing-box dials: Parse and           *)
(* AssignSource of internal/subscription, the way of a node through the    *)
(* file (nodeSection, readNode, Validate), and renderNodeOutbound.         *)
(*                                                                         *)
(* An answer is a list of entries in one of two kinds: share links, or the *)
(* outbounds of a sing-box document.  An entry is a record of what it      *)
(* says, "" where it says nothing; a value stands for any text.  Its       *)
(* "extra" is what it says beyond the fields of a Node: the plugin of      *)
(* shadowsocks, the obfuscation of hysteria2, multiplexing.  Reading URLs  *)
(* and JSON is left out, and udp_relay_mode is treated as                  *)
(* congestion_control is.                                                  *)
(***************************************************************************)
EXTENDS Integers, FiniteSets, SequencesExt

CONSTANTS
  Answers,   \* what the provider may serve first
  Later,     \* and what it may serve afterwards
  Formats,   \* the format options of the subscription
  NoBlock    \* no block of this name

VARIABLES
  answer,   \* what the provider serves
  format,   \* the format the subscription says it has
  nodes,    \* the nodes in the file, by id
  taken     \* history: the entries those nodes come from

importVars == <<answer, format, nodes, taken>>

First(a, b) == IF a # "" THEN a ELSE b

(* The zero value of Node, but for its id and health.                      *)
Blank ==
  [name |-> "", type |-> "", server |-> "", port |-> 0, uuid |-> "", password |-> "", method |-> "",
   security |-> "", tls |-> FALSE, flow |-> "", transport |-> "", host |-> "", path |-> "",
   sni |-> "", alpn |-> "", insecure |-> FALSE, pbk |-> "", sid |-> "", fp |-> "",
   congestion |-> ""]

-----------------------------------------------------------------------------
(* Outbounds of a sing-box document.                                       *)

Supported == {"shadowsocks", "vmess", "vless", "trojan", "hysteria2", "tuic"}

ApplyJSONTLS(node, t) ==
  IF t = NoBlock THEN node
  ELSE LET reality == t.reality # NoBlock
       IN [node EXCEPT
             !.tls = t.enabled \/ reality,
             !.security = IF reality THEN "reality" ELSE IF t.enabled THEN First(@, "tls") ELSE @,
             !.pbk = IF reality THEN t.reality.pbk ELSE "",
             !.sid = IF reality THEN t.reality.sid ELSE "",
             !.fp = t.fp, !.sni = t.sni, !.alpn = t.alpn, !.insecure = t.insecure]

ApplyJSONTransport(node, t) ==
  IF t = NoBlock THEN node
  ELSE [node EXCEPT
          !.transport = t.type,
          !.path = IF t.type = "grpc" THEN First(t.service, t.path) ELSE t.path,
          !.host = CASE t.type = "ws" -> First(t.header, t.host)
                     [] t.type = "httpupgrade" -> First(t.host, t.header)
                     [] OTHER -> ""]

OutboundToNode(o) ==
  LET said == [Blank EXCEPT !.type = o.type, !.server = o.server, !.port = o.port,
                            !.uuid = o.uuid, !.password = o.password, !.method = o.method,
                            !.security = o.security, !.flow = o.flow, !.congestion = o.congestion]
  IN ApplyJSONTransport(ApplyJSONTLS(said, o.tls), o.transport)

(* Groups, built-in outbounds and those without a server are skipped.      *)
IsProxy(o) == o.type \in Supported /\ o.server # ""

-----------------------------------------------------------------------------
(* Share links.                                                            *)

(* vless, trojan, hysteria2, tuic, and vmess with a user part.  The user   *)
(* is the uuid, the password, or both.                                     *)
ParseStandardURI(l) ==
  LET asked == First(l.security, l.tls)
      node == [Blank EXCEPT !.type = l.type, !.server = l.server, !.port = l.port,
                            !.security = asked, !.tls = asked \in {"tls", "reality"},
                            !.transport = l.transport, !.host = l.host, !.path = l.path,
                            !.sni = l.sni, !.alpn = l.alpn, !.insecure = l.insecure, !.flow = l.flow,
                            !.pbk = l.pbk, !.sid = l.sid, !.fp = l.fp, !.congestion = l.congestion]
      cipher == IF l.cipher \in {"", "tls", "reality"} THEN "auto" ELSE l.cipher
      typed ==
        CASE l.type = "vless" -> [node EXCEPT !.uuid = l.user]
          [] l.type = "vmess" -> [node EXCEPT !.uuid = l.user, !.security = cipher]
          [] l.type \in {"trojan", "hysteria2"} ->
               [node EXCEPT !.password = l.user,
                            !.security = IF asked = "" /\ l.sni # "" THEN "tls" ELSE asked,
                            !.tls = asked \in {"tls", "reality"} \/ l.sni # ""]
          [] l.type = "tuic" ->
               [node EXCEPT !.uuid = l.user, !.password = l.pass,
                            !.security = First(asked, "tls"), !.tls = TRUE]
  IN IF typed.security \in {"1", "true"}
     THEN [typed EXCEPT !.security = "tls", !.tls = TRUE] ELSE typed

(* vmess as an encoded object, where scy is the cipher.  Its alpn and its  *)
(* fp are not read.                                                        *)
ParseVMess(l) ==
  [Blank EXCEPT !.type = l.type, !.server = l.server, !.port = l.port, !.uuid = l.user,
                !.security = l.cipher, !.tls = l.tls = "tls", !.transport = l.transport,
                !.host = l.host, !.path = l.path, !.sni = l.sni]

ParseShadowsocks(l) ==
  [Blank EXCEPT !.type = l.type, !.server = l.server, !.port = l.port,
                !.method = l.method, !.password = l.password]

ParseURI(l) ==
  CASE l.form = "standard" -> ParseStandardURI(l)
    [] l.form = "vmess" -> ParseVMess(l)
    [] l.form = "shadowsocks" -> ParseShadowsocks(l)

-----------------------------------------------------------------------------
(* decodePayload: what is encoded is decoded unless the format forbids it; *)
(* what is not cannot be decoded, unless there is nothing to decode.       *)
Readable ==
  \/ format \in {"auto", IF answer.encoded THEN "base64" ELSE "plain"}
  \/ answer.entries = << >> /\ ~answer.document

(* A link that cannot be parsed is passed over, and so is an outbound that *)
(* is no proxy.                                                            *)
Parsed(e) == IF e.form = "outbound" THEN IsProxy(e) ELSE e.form # "unsupported"

AddParsed(list, e) == IF Parsed(e) THEN Append(list, e) ELSE list

Taken == FoldLeft(AddParsed, << >>, answer.entries)

(* Parse returns an error when nothing is left: of a document always, of a *)
(* list unless it is empty.                                                *)
ParseFails ==
  \/ ~Readable
  \/ Taken = << >> /\ (answer.document \/ answer.entries # << >>)

ParseEntry(e) ==
  LET node == IF e.form = "outbound" THEN OutboundToNode(e) ELSE ParseURI(e)
  IN [node EXCEPT !.name = First(e.name, e.server)]

Parse(entries) == [k \in DOMAIN entries |-> ParseEntry(entries[k])]

(* What stableNodeID makes a hash of.                                      *)
StableNodeID(n) == <<n.type, n.name, n.server, n.port, n.uuid, n.password, n.method>>

(* Defect: nodes with the same hash get the same id.                       *)
AssignSourceByHash(list) ==
  [k \in DOMAIN list |-> [id |-> <<StableNodeID(list[k]), 1>>, node |-> list[k]]]

(* AssignSource numbers the nodes that have the same hash, in their order. *)
AssignSource(list) ==
  [k \in DOMAIN list |->
     LET same == {j \in 1..k : StableNodeID(list[j]) = StableNodeID(list[k])}
     IN [id |-> <<StableNodeID(list[k]), Cardinality(same)>>, node |-> list[k]]]

(* nodeSection writes the options that say something, and readNode has the *)
(* zero value for the others.                                              *)
NodeOptions(n) == [f \in {g \in DOMAIN Blank : n[g] # Blank[g]} |-> n[f]]
OptionsNode(opts) == [f \in DOMAIN Blank |-> IF f \in DOMAIN opts THEN opts[f] ELSE Blank[f]]

(* What Validate requires of a node by its type.                           *)
Complete(n) ==
  /\ n.server # "" /\ n.port # 0
  /\ n.type \in {"vmess", "vless", "tuic"} => n.uuid # ""
  /\ n.type \in {"shadowsocks", "trojan", "hysteria2", "tuic"} => n.password # ""
  /\ n.type = "shadowsocks" => n.method # ""

(* The nodes of the file, the last one of an id winning.                   *)
Stored(list) ==
  LET Latest(id) == CHOOSE k \in DOMAIN list :
                    list[k].id = id /\ \A j \in DOMAIN list : list[j].id = id => j <= k
  IN [id \in {list[k].id : k \in DOMAIN list} |-> OptionsNode(NodeOptions(list[Latest(id)].node))]

(* refreshSubscriptionByID, or importSubscription with a pasted answer:    *)
(* one node that Validate refuses has the whole edit refused.              *)
Refresh ==
  LET new == Stored(AssignSource(Parse(Taken)))
      accepted == ~ParseFails /\ \A id \in DOMAIN new : Complete(new[id])
  IN /\ nodes' = IF accepted THEN new ELSE nodes
     /\ taken' = IF accepted THEN Taken ELSE taken
     /\ UNCHANGED <<answer, format>>

(* The provider changes what it serves, or the user the format.            *)
Serve ==
  /\ answer' \in Later /\ format' \in Formats
  /\ UNCHANGED <<nodes, taken>>

ImportInit ==
  /\ answer \in Answers /\ format \in Formats
  /\ nodes = << >> /\ taken = << >>

ImportNext == Refresh \/ Serve

ImportSpec == ImportInit /\ [][ImportNext]_importVars

-----------------------------------------------------------------------------
(* Rendering.                                                              *)

(* vmessCipher: anything else is left out, and sing-box takes "auto".      *)
Ciphers == {"none", "zero", "aes-128-gcm", "chacha20-poly1305"}
VMessCipher(value) == IF value \in Ciphers THEN value ELSE "auto"

AddTLS(n) ==
  IF ~n.tls /\ n.security \notin {"tls", "reality"} /\ n.alpn = "" /\ ~n.insecure THEN NoBlock
  ELSE LET reality == n.security = "reality"
       IN [sni |-> n.sni, alpn |-> n.alpn, insecure |-> n.insecure /\ ~reality,
           fp |-> IF reality THEN First(n.fp, "chrome") ELSE n.fp,
           reality |-> IF reality THEN [pbk |-> n.pbk, sid |-> n.sid] ELSE NoBlock]

AddTransport(n) ==
  IF n.transport \in {"", "tcp"} THEN NoBlock
  ELSE [type |-> n.transport, path |-> n.path, host |-> IF n.transport = "grpc" THEN "" ELSE n.host]

(* The protocols with a transport of the V2Ray family, and the transports  *)
(* that can be rendered.                                                   *)
Streams == {"trojan", "vmess", "vless"}
Renders(n) == n.type \in Streams => n.transport \in {"", "tcp", "ws", "grpc", "http", "httpupgrade"}

(* What the outbound of each protocol is given; there is nothing extra.    *)
Given(typ) ==
  CASE typ = "shadowsocks" -> {"method", "password"}
    [] typ \in {"trojan", "hysteria2"} -> {"password"}
    [] typ = "vmess" -> {"uuid"}
    [] typ = "vless" -> {"uuid", "flow"}
    [] typ = "tuic" -> {"uuid", "password", "congestion"}

RenderNodeOutbound(n) ==
  LET Give(option, value) == IF option \in Given(n.type) THEN value ELSE ""
  IN [type |-> n.type, server |-> n.server, port |-> n.port,
      cipher |-> IF n.type = "vmess" THEN VMessCipher(n.security) ELSE "",
      tls |-> IF n.type = "shadowsocks" THEN NoBlock ELSE AddTLS(n),
      transport |-> IF n.type \in Streams THEN AddTransport(n) ELSE NoBlock,
      method |-> Give("method", n.method), password |-> Give("password", n.password),
      uuid |-> Give("uuid", n.uuid), flow |-> Give("flow", n.flow),
      congestion |-> Give("congestion", n.congestion), extra |-> ""]

Outbounds == [id \in {i \in DOMAIN nodes : Renders(nodes[i])} |-> RenderNodeOutbound(nodes[id])]

-----------------------------------------------------------------------------
(* What providers serve.  A document of sing-box is in one of the shapes   *)
(* that sing-box has: a ws transport has its host in a header, and only    *)
(* httpupgrade has a host beside it; a grpc transport has no path.  A      *)
(* cipher, and what a link says of TLS, is one of the known words.         *)
OfDocument(e) ==
  /\ e.form = "outbound"
  /\ IsProxy(e) =>
       /\ e.security \in IF e.type = "vmess" THEN Ciphers \cup {"", "auto"} ELSE {""}
       /\ e.tls # NoBlock => e.tls.insecure \in BOOLEAN
       /\ e.transport # NoBlock =>
            /\ e.transport.type \notin {"", "tcp"}
            /\ e.transport.type = "ws" => e.transport.host = ""
            /\ e.transport.type = "httpupgrade" => e.transport.header = ""
            /\ e.transport.type = "grpc" => e.transport.path = ""

Asked(e) == First(e.security, e.tls)
SaysTLS == {"tls", "reality", "1", "true"}

OfList(e) ==
  CASE e.form = "standard" ->
         /\ e.type \in Supported \ {"shadowsocks"} /\ e.insecure \in BOOLEAN
         /\ Asked(e) \in SaysTLS \cup (IF e.type \in {"trojan", "hysteria2"} THEN {""} ELSE {"", "none"})
         /\ e.type = "vmess" => e.cipher \in Ciphers \cup {"", "auto", "tls", "reality"}
    [] e.form = "vmess" -> e.type = "vmess" /\ e.cipher \in Ciphers \cup {"", "auto", "tls"}
    [] e.form = "shadowsocks" -> e.type = "shadowsocks"
    [] OTHER -> e.form = "unsupported"

ASSUME ImportConstants ==
  \A a \in Answers \cup Later :
    /\ a.entries \in Seq(ToSet(a.entries))
    /\ \A e \in ToSet(a.entries) : IF a.document THEN OfDocument(e) ELSE OfList(e)

-----------------------------------------------------------------------------
(* What an entry means, put together from it without a Node in between.    *)

(* trojan, hysteria2 and tuic are TLS protocols, shadowsocks has none.     *)
WantsTLS(e) ==
  CASE e.type = "shadowsocks" -> FALSE
    [] e.form = "outbound" /\ e.type # "shadowsocks" -> e.tls # NoBlock /\ e.tls.enabled
    [] e.form = "standard" -> Asked(e) \in SaysTLS \/ e.type \in {"trojan", "hysteria2", "tuic"}
    [] e.form = "vmess" -> "tls" \in {e.tls, e.cipher}

WantsReality(e) ==
  CASE e.form = "outbound" -> e.tls # NoBlock /\ e.tls.reality # NoBlock
    [] e.form = "standard" -> Asked(e) = "reality"
    [] e.form \in {"vmess", "shadowsocks"} -> FALSE

WantsTransport(e) ==
  /\ e.type \in {"trojan", "vmess", "vless"}
  /\ IF e.form = "outbound" THEN e.transport # NoBlock ELSE e.transport \notin {"", "tcp"}

(* The options that the code passes over: alpn and fp of an encoded vmess  *)
(* link, the service name of a link with a grpc transport, and all that a  *)
(* Node has no field for.                                                  *)
Unread(e) ==
  LET Of(applies, value) == IF applies THEN value ELSE ""
  IN [alpn |-> Of(e.form = "vmess" /\ WantsTLS(e), e.alpn),
      fp |-> Of(e.form = "vmess" /\ WantsTLS(e), e.fp),
      service |-> Of(e.form = "standard" /\ WantsTransport(e) /\ e.transport = "grpc", e.service),
      extra |-> e.extra]

AllRead == [alpn |-> "", fp |-> "", service |-> "", extra |-> ""]

Dropped(e) == Unread(e) # AllRead

(* Reality needs a fingerprint and knows no insecure.                      *)
MeantTLS(e, unread) ==
  LET Block(t) == [sni |-> t.sni, alpn |-> t.alpn, insecure |-> t.insecure, fp |-> t.fp,
                   reality |-> NoBlock]
      RealityBlock(t, keys) ==
        [sni |-> t.sni, alpn |-> t.alpn, insecure |-> FALSE, fp |-> First(t.fp, "chrome"),
         reality |-> [pbk |-> keys.pbk, sid |-> keys.sid]]
  IN CASE ~WantsTLS(e) -> NoBlock
       [] WantsTLS(e) /\ e.form = "outbound" ->
            IF WantsReality(e) THEN RealityBlock(e.tls, e.tls.reality) ELSE Block(e.tls)
       [] WantsTLS(e) /\ e.form = "standard" ->
            IF WantsReality(e) THEN RealityBlock(e, e) ELSE Block(e)
       [] WantsTLS(e) /\ e.form = "vmess" ->
            [sni |-> e.sni, alpn |-> unread.alpn, insecure |-> FALSE, fp |-> unread.fp,
             reality |-> NoBlock]

(* A grpc transport has a service in place of a path.                      *)
MeantTransport(e, unread) ==
  CASE ~WantsTransport(e) -> NoBlock
    [] WantsTransport(e) /\ e.form = "outbound" ->
         LET t == e.transport
         IN [type |-> t.type, path |-> IF t.type = "grpc" THEN t.service ELSE t.path,
             host |-> CASE t.type = "ws" -> t.header [] t.type = "grpc" -> "" [] OTHER -> t.host]
    [] WantsTransport(e) /\ e.form # "outbound" ->
         [type |-> e.transport, path |-> First(unread.service, e.path),
          host |-> IF e.transport = "grpc" THEN "" ELSE e.host]

MeantCipher(e) ==
  LET said == IF e.form = "outbound" THEN e.security ELSE e.cipher
  IN IF said \in {"", "tls", "reality"} THEN "auto" ELSE said

(* The user of a link is the uuid or the password.                         *)
MeantWith(e, unread) ==
  LET Of(types, value) == IF e.type \in types THEN value ELSE ""
      password == CASE e.form \in {"outbound", "shadowsocks"} -> e.password
                    [] e.form = "standard" -> IF e.type = "tuic" THEN e.pass ELSE e.user
  IN [type |-> e.type, server |-> e.server, port |-> e.port,
      cipher |-> IF e.type = "vmess" THEN MeantCipher(e) ELSE "",
      tls |-> MeantTLS(e, unread), transport |-> MeantTransport(e, unread),
      method |-> Of({"shadowsocks"}, e.method),
      password |-> Of({"shadowsocks", "trojan", "hysteria2", "tuic"}, password),
      uuid |-> Of({"vmess", "vless", "tuic"}, IF e.form = "outbound" THEN e.uuid ELSE e.user),
      flow |-> Of({"vless"}, e.flow), congestion |-> Of({"tuic"}, e.congestion),
      extra |-> unread.extra]

Meant(e) == MeantWith(e, Unread(e))
Shortened(e) == MeantWith(e, AllRead)

(* sing-box has no other transports, as addTransport says.                 *)
Dialable(e) ==
  WantsTransport(e) =>
    (IF e.form = "outbound" THEN e.transport.type ELSE e.transport) \in {"ws", "grpc", "http", "httpupgrade"}

(* What the code is known to take for something else: TLS options where    *)
(* there is no TLS turn it on; reality and a cipher share one option of a  *)
(* node; a TLS protocol that is linked to without a word of TLS, and a     *)
(* vmess link that says no more than 1 or true; the host of an http        *)
(* transport.                                                              *)
Misread(e) ==
  LET Has(t) == t.alpn # "" \/ t.insecure
  IN \/ ~WantsTLS(e) /\ \/ e.form = "outbound" /\ e.tls # NoBlock /\ (Has(e.tls) \/ WantsReality(e))
                        \/ e.form = "standard" /\ Has(e)
     \/ e.type = "vmess" /\ WantsTLS(e) /\ WantsReality(e)
     \/ e.form = "standard" /\ e.type \in {"trojan", "hysteria2"} /\ Asked(e) = "" /\ e.sni = ""
     \/ e.form = "standard" /\ e.type = "vmess" /\ Asked(e) \in {"1", "true"}
     \/ e.form = "outbound" /\ WantsTransport(e)
          /\ e.transport.type = "http" /\ e.transport.host # ""

-----------------------------------------------------------------------------
(* Properties.                                                             *)

(* One place with one credential, however it is spoken to.                 *)
SameProxy(a, b) ==
  \A f \in {"type", "server", "port", "method", "password", "uuid", "flow", "congestion"} : a[f] = b[f]

(* sing-box dials what the provider listed: an outbound for each entry,    *)
(* with the credentials, the TLS and the transport that the entry asks     *)
(* for, whatever shape it has, and whatever else is listed beside it, even *)
(* an entry that differs from it in nothing the id is made of; and it      *)
(* dials nothing else.  What gets lost is no more than this: an entry with *)
(* options that the code passes over is dialled without them and as it     *)
(* asks for otherwise, and one that is misread is dialled at its place and *)
(* with its credentials.                                                   *)
DialledAsProvided ==
  LET Expected(k) == IF Dropped(taken[k]) THEN Shortened(taken[k]) ELSE Meant(taken[k])
      Right(k) == Dialable(taken[k]) /\ ~Misread(taken[k])
      Dialled(d) == {id \in DOMAIN Outbounds : Outbounds[id] = d}
      Listed(d) == {k \in DOMAIN taken : Right(k) /\ Expected(k) = d}
  IN /\ \A k \in DOMAIN taken :
          Right(k) => Cardinality(Dialled(Expected(k))) >= Cardinality(Listed(Expected(k)))
     /\ \A id \in DOMAIN Outbounds : \E k \in DOMAIN taken :
          \/ Outbounds[id] = Expected(k)
          \/ Misread(taken[k]) /\ SameProxy(Outbounds[id], Meant(taken[k]))
=============================================================================
