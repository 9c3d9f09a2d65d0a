------------------------------ MODULE FileProofs ------------------------------
(***************************************************************************)
(* Proofs about what is in the configuration file: Import (what a          *)
(* subscription puts into it), for any answers of providers, in any order, *)
(* and Sections (what the edits make of its sections), for files of any    *)
(* length.                                                                 *)
(*                                                                         *)
(* Import.  An entry is followed from its fields to the outbound, once for *)
(* each of its forms (EntryRight): a node is a record that is changed      *)
(* field by field, and what each of the functions leaves of it is said     *)
(* once.  The invariant is that the file has one node for each entry that  *)
(* was taken, the node that the entry was read as; two entries with one    *)
(* hash differ in the number behind it.                                    *)
(*                                                                         *)
(* Sections.  In a tidy file no two sections are read as one, so the order *)
(* of the sections does not matter and the configuration can be told from  *)
(* the set of them (Shows); a file shows just one (ShowsOne), the one that *)
(* is read (ReadShows).  For each edit there is a lemma that what it makes *)
(* of a tidy file is tidy and shows what the edit of the configuration     *)
(* makes (...Right), by way of a few lemmas on lists that are changed, cut *)
(* down or added to.  The inductive invariant is that the file is tidy.    *)
(***************************************************************************)
EXTENDS Sections, Import, FiniteSetTheorems, TLAPS

-----------------------------------------------------------------------------
(* Import: nodes, field by field.                                          *)

Options == DOMAIN Blank
Shaped(n) == n = [f \in Options |-> n[f]]

LEMMA FieldNames ==
  Options = {"name", "type", "server", "port", "uuid", "password", "method", "security", "tls", "flow",
             "transport", "path", "host", "sni", "alpn", "insecure", "pbk", "sid", "fp", "congestion"}
  BY DEF Options, Blank

LEMMA BlankShaped ==
  Shaped(Blank) /\ Blank.alpn = "" /\ Blank.insecure = FALSE /\ Blank.fp = ""
  BY DEF Shaped, Options, Blank

(* m is n, with what the TLS block t says.                                 *)
Secured(n, t, m) ==
         /\ Shaped(m)
         /\ m.type = n.type /\ m.server = n.server /\ m.port = n.port /\ m.method = n.method
         /\ m.password = n.password /\ m.uuid = n.uuid /\ m.flow = n.flow /\ m.congestion = n.congestion
         /\ m.transport = n.transport /\ m.path = n.path /\ m.host = n.host
         /\ t = NoBlock => m = n
         /\ t # NoBlock =>
              /\ m.sni = t.sni /\ m.alpn = t.alpn /\ m.insecure = t.insecure /\ m.fp = t.fp
              /\ m.tls = (t.enabled \/ t.reality # NoBlock)
              /\ m.security = IF t.reality # NoBlock THEN "reality"
                              ELSE IF t.enabled THEN First(n.security, "tls") ELSE n.security
              /\ t.reality # NoBlock => m.pbk = t.reality.pbk /\ m.sid = t.reality.sid

LEMMA TLSApplied ==
  ASSUME NEW n, Shaped(n), NEW t
  PROVE  Secured(n, t, ApplyJSONTLS(n, t))
  BY FieldNames DEF Secured, Shaped, ApplyJSONTLS

(* m is n, with what the transport block t says.                           *)
Sent(n, t, m) ==
         /\ Shaped(m)
         /\ m.type = n.type /\ m.server = n.server /\ m.port = n.port /\ m.method = n.method
         /\ m.password = n.password /\ m.uuid = n.uuid /\ m.flow = n.flow /\ m.congestion = n.congestion
         /\ m.sni = n.sni /\ m.alpn = n.alpn /\ m.insecure = n.insecure /\ m.fp = n.fp
         /\ m.tls = n.tls /\ m.security = n.security /\ m.pbk = n.pbk /\ m.sid = n.sid
         /\ t = NoBlock => m = n
         /\ t # NoBlock =>
              /\ m.transport = t.type
              /\ m.path = IF t.type = "grpc" THEN First(t.service, t.path) ELSE t.path
              /\ t.type = "ws" => m.host = First(t.header, t.host)
              /\ t.type = "httpupgrade" => m.host = First(t.host, t.header)
              /\ t.type \notin {"ws", "httpupgrade"} => m.host = ""

LEMMA TransportApplied ==
  ASSUME NEW n, Shaped(n), NEW t
  PROVE  Sent(n, t, ApplyJSONTransport(n, t))
  BY FieldNames DEF Sent, Shaped, ApplyJSONTransport


(* What becomes of an outbound of a document.                              *)
OutboundNode(e, n) ==
         /\ Shaped(n)
         /\ n.type = e.type /\ n.server = e.server /\ n.port = e.port /\ n.method = e.method
         /\ n.password = e.password /\ n.uuid = e.uuid /\ n.flow = e.flow /\ n.congestion = e.congestion
         /\ e.tls = NoBlock => /\ ~n.tls /\ n.security = e.security /\ n.alpn = "" /\ ~n.insecure
         /\ e.tls # NoBlock =>
              /\ n.sni = e.tls.sni /\ n.alpn = e.tls.alpn /\ n.insecure = e.tls.insecure /\ n.fp = e.tls.fp
              /\ n.tls = (e.tls.enabled \/ e.tls.reality # NoBlock)
              /\ n.security = IF e.tls.reality # NoBlock THEN "reality"
                              ELSE IF e.tls.enabled THEN First(e.security, "tls") ELSE e.security
              /\ e.tls.reality # NoBlock => n.pbk = e.tls.reality.pbk /\ n.sid = e.tls.reality.sid
         /\ e.transport = NoBlock => n.transport = ""
         /\ e.transport # NoBlock =>
              /\ n.transport = e.transport.type
              /\ n.path = IF e.transport.type = "grpc" THEN First(e.transport.service, e.transport.path)
                          ELSE e.transport.path
              /\ e.transport.type = "ws" => n.host = First(e.transport.header, e.transport.host)
              /\ e.transport.type = "httpupgrade" => n.host = First(e.transport.host, e.transport.header)
              /\ e.transport.type \notin {"ws", "httpupgrade"} => n.host = ""

LEMMA OutboundParsed ==
  ASSUME NEW e, OfDocument(e), IsProxy(e),
         NEW n, n = ParseEntry(e)
  PROVE  OutboundNode(e, n)
<1> DEFINE said == [Blank EXCEPT !.type = e.type, !.server = e.server, !.port = e.port,
                                 !.uuid = e.uuid, !.password = e.password, !.method = e.method,
                                 !.security = e.security, !.flow = e.flow, !.congestion = e.congestion]
           secured == ApplyJSONTLS(said, e.tls)
           sent == ApplyJSONTransport(secured, e.transport)
<1>1. n = [sent EXCEPT !.name = First(e.name, e.server)]
  <2>1. OutboundToNode(e) = sent
    BY DEF OutboundToNode
  <2> HIDE DEF sent
  <2>2. e.form = "outbound"
    BY DEF OfDocument
  <2> QED BY <2>1, <2>2 DEF ParseEntry
<1>2. /\ Shaped(said)
      /\ said.type = e.type /\ said.server = e.server /\ said.port = e.port /\ said.method = e.method
      /\ said.password = e.password /\ said.uuid = e.uuid /\ said.flow = e.flow
      /\ said.congestion = e.congestion /\ said.security = e.security
      /\ ~said.tls /\ said.alpn = "" /\ ~said.insecure /\ said.transport = ""
  <2>1. Shaped(said)
    <3>1. Shaped(Blank)
      BY DEF Shaped, Options, Blank
    <3> DEFINE a == [Blank EXCEPT !.type = e.type, !.server = e.server, !.port = e.port]
               b == [a EXCEPT !.uuid = e.uuid, !.password = e.password, !.method = e.method]
               c == [b EXCEPT !.security = e.security, !.flow = e.flow, !.congestion = e.congestion]
    <3>3. Shaped(a)
      BY <3>1 DEF Shaped, Options
    <3> HIDE DEF a
    <3>4. Shaped(b)
      BY <3>3 DEF Shaped, Options
    <3> HIDE DEF b
    <3>5. Shaped(c)
      BY <3>4 DEF Shaped, Options
    <3> QED BY <3>5 DEF a, b
  <2> QED BY <2>1 DEF Options, Blank
<1> HIDE DEF said
<1>3. Secured(said, e.tls, secured)
  BY <1>2, TLSApplied
<1>7. Sent(secured, e.transport, sent)
  <2>1. Shaped(secured)
    BY <1>3 DEF Secured
  <2> HIDE DEF secured
  <2> QED BY <2>1, TransportApplied
<1> HIDE DEF secured, sent
<1>4. Shaped(sent) /\ \A f \in Options \ {"name"} : n[f] = sent[f]
  <2>1. Shaped(sent)
    BY <1>7 DEF Sent
  <2> QED BY <1>1, <2>1 DEF Shaped, Options
<1>5. Shaped(n)
  BY <1>1, <1>4 DEF Shaped, Options
<1>6. /\ n.type = sent.type /\ n.server = sent.server /\ n.port = sent.port /\ n.method = sent.method
      /\ n.password = sent.password /\ n.uuid = sent.uuid /\ n.flow = sent.flow
      /\ n.congestion = sent.congestion /\ n.sni = sent.sni /\ n.alpn = sent.alpn
      /\ n.insecure = sent.insecure /\ n.fp = sent.fp /\ n.tls = sent.tls /\ n.security = sent.security
      /\ n.pbk = sent.pbk /\ n.sid = sent.sid /\ n.transport = sent.transport /\ n.path = sent.path
      /\ n.host = sent.host
  BY <1>4 DEF Options, Blank
<1>8. /\ secured.type = e.type /\ secured.server = e.server /\ secured.port = e.port
      /\ secured.method = e.method /\ secured.password = e.password /\ secured.uuid = e.uuid
      /\ secured.flow = e.flow /\ secured.congestion = e.congestion /\ secured.transport = ""
      /\ e.tls = NoBlock => /\ ~secured.tls /\ secured.security = e.security
                            /\ secured.alpn = "" /\ ~secured.insecure
  BY <1>2, <1>3 DEF Secured
<1>9. /\ n.type = e.type /\ n.server = e.server /\ n.port = e.port /\ n.method = e.method
      /\ n.password = e.password /\ n.uuid = e.uuid /\ n.flow = e.flow /\ n.congestion = e.congestion
  BY <1>6, <1>7, <1>8 DEF Sent
<1>10. /\ n.tls = secured.tls /\ n.security = secured.security /\ n.alpn = secured.alpn
       /\ n.insecure = secured.insecure /\ n.sni = secured.sni /\ n.fp = secured.fp
       /\ n.pbk = secured.pbk /\ n.sid = secured.sid
  BY <1>6, <1>7 DEF Sent
<1>11. e.tls = NoBlock => /\ ~n.tls /\ n.security = e.security /\ n.alpn = "" /\ ~n.insecure
  BY <1>8, <1>10
<1>12. ASSUME e.tls # NoBlock
       PROVE  /\ n.sni = e.tls.sni /\ n.alpn = e.tls.alpn /\ n.insecure = e.tls.insecure /\ n.fp = e.tls.fp
              /\ n.tls = (e.tls.enabled \/ e.tls.reality # NoBlock)
              /\ n.security = IF e.tls.reality # NoBlock THEN "reality"
                              ELSE IF e.tls.enabled THEN First(e.security, "tls") ELSE e.security
              /\ e.tls.reality # NoBlock => n.pbk = e.tls.reality.pbk /\ n.sid = e.tls.reality.sid
  BY <1>2, <1>3, <1>10, <1>12 DEF Secured
<1>13. e.transport = NoBlock => n.transport = ""
  BY <1>6, <1>7, <1>8 DEF Sent
<1> QED BY <1>2, <1>5, <1>6, <1>7, <1>9, <1>11, <1>12, <1>13 DEF OutboundNode, Sent


(* Credentials and the like, of whatever type.                             *)
Credentials(n, e) ==
  /\ n.type = e.type /\ n.server = e.server /\ n.port = e.port
  /\ e.type = "shadowsocks" => n.method = e.method
  /\ e.type \in {"shadowsocks", "trojan", "hysteria2", "tuic"} =>
       n.password = CASE e.form \in {"outbound", "shadowsocks"} -> e.password
                      [] e.form = "standard" -> IF e.type = "tuic" THEN e.pass ELSE e.user
  /\ e.type \in {"vmess", "vless", "tuic"} => n.uuid = IF e.form = "outbound" THEN e.uuid ELSE e.user
  /\ e.type = "vless" => n.flow = e.flow
  /\ e.type = "tuic" => n.congestion = e.congestion

LEMMA CredentialsGiven ==
  ASSUME NEW n, NEW e, NEW unread, Credentials(n, e), e.type \in Supported
  PROVE  SameProxy(RenderNodeOutbound(n), MeantWith(e, unread))
<1> DEFINE Give(option, value) == IF option \in Given(n.type) THEN value ELSE ""
           OfTypes(types, value) == IF e.type \in types THEN value ELSE ""
           password == CASE e.form \in {"outbound", "shadowsocks"} -> e.password
                         [] e.form = "standard" -> IF e.type = "tuic" THEN e.pass ELSE e.user
           uuid == IF e.form = "outbound" THEN e.uuid ELSE e.user
           R == RenderNodeOutbound(n)
           M == MeantWith(e, unread)
<1>1. /\ Give("method", n.method) = OfTypes({"shadowsocks"}, e.method)
      /\ Give("password", n.password) = OfTypes({"shadowsocks", "trojan", "hysteria2", "tuic"}, password)
      /\ Give("uuid", n.uuid) = OfTypes({"vmess", "vless", "tuic"}, uuid)
      /\ Give("flow", n.flow) = OfTypes({"vless"}, e.flow)
      /\ Give("congestion", n.congestion) = OfTypes({"tuic"}, e.congestion)
  BY DEF Credentials, Supported, Given
<1>2. n.type = e.type /\ n.server = e.server /\ n.port = e.port
  BY DEF Credentials
<1> HIDE DEF Give, OfTypes, password, uuid
<1>3. /\ R.type = n.type /\ R.server = n.server /\ R.port = n.port
      /\ R.method = Give("method", n.method) /\ R.password = Give("password", n.password)
      /\ R.uuid = Give("uuid", n.uuid) /\ R.flow = Give("flow", n.flow)
      /\ R.congestion = Give("congestion", n.congestion)
  BY DEF RenderNodeOutbound, Give
<1>4. /\ M.type = e.type /\ M.server = e.server /\ M.port = e.port
      /\ M.method = OfTypes({"shadowsocks"}, e.method)
      /\ M.password = OfTypes({"shadowsocks", "trojan", "hysteria2", "tuic"}, password)
      /\ M.uuid = OfTypes({"vmess", "vless", "tuic"}, uuid)
      /\ M.flow = OfTypes({"vless"}, e.flow) /\ M.congestion = OfTypes({"tuic"}, e.congestion)
  BY DEF MeantWith, OfTypes, password, uuid
<1> HIDE DEF R, M
<1>5. SameProxy(R, M)
  BY <1>1, <1>2, <1>3, <1>4 DEF SameProxy
<1> QED BY <1>5 DEF R, M

LEMMA FieldByField ==
  ASSUME NEW n, NEW e, Credentials(n, e), e.type \in Supported,
         e.type = "vmess" => VMessCipher(n.security) = MeantCipher(e),
         (IF e.type = "shadowsocks" THEN NoBlock ELSE AddTLS(n)) = MeantTLS(e, AllRead),
         (IF e.type \in Streams THEN AddTransport(n) ELSE NoBlock) = MeantTransport(e, AllRead)
  PROVE  RenderNodeOutbound(n) = Shortened(e)
<1> DEFINE R == RenderNodeOutbound(n)
           M == Shortened(e)
           Record(x) == [type |-> x.type, server |-> x.server, port |-> x.port,
                         cipher |-> x.cipher, tls |-> x.tls, transport |-> x.transport,
                         method |-> x.method, password |-> x.password, uuid |-> x.uuid,
                         flow |-> x.flow, congestion |-> x.congestion, extra |-> x.extra]
<1>1. SameProxy(R, M)
  BY CredentialsGiven DEF Shortened
<1>2. n.type = e.type
  BY DEF Credentials
<1>3. R.cipher = M.cipher /\ R.tls = M.tls /\ R.transport = M.transport /\ R.extra = M.extra
  <2>1. /\ R.cipher = IF n.type = "vmess" THEN VMessCipher(n.security) ELSE ""
        /\ R.tls = IF n.type = "shadowsocks" THEN NoBlock ELSE AddTLS(n)
        /\ R.transport = IF n.type \in Streams THEN AddTransport(n) ELSE NoBlock
        /\ R.extra = ""
    BY DEF RenderNodeOutbound
  <2>2. /\ M.cipher = IF e.type = "vmess" THEN MeantCipher(e) ELSE ""
        /\ M.tls = MeantTLS(e, AllRead) /\ M.transport = MeantTransport(e, AllRead)
        /\ M.extra = ""
    BY DEF Shortened, MeantWith, AllRead
  <2> QED BY <1>2, <2>1, <2>2
<1>4. R = Record(R)
  <2> DEFINE Give(option, value) == IF option \in Given(n.type) THEN value ELSE ""
             cipher == IF n.type = "vmess" THEN VMessCipher(n.security) ELSE ""
             tls == IF n.type = "shadowsocks" THEN NoBlock ELSE AddTLS(n)
             transport == IF n.type \in Streams THEN AddTransport(n) ELSE NoBlock
  <2>1. R = [type |-> n.type, server |-> n.server, port |-> n.port,
             cipher |-> cipher, tls |-> tls, transport |-> transport,
             method |-> Give("method", n.method), password |-> Give("password", n.password),
             uuid |-> Give("uuid", n.uuid), flow |-> Give("flow", n.flow),
             congestion |-> Give("congestion", n.congestion), extra |-> ""]
    BY DEF RenderNodeOutbound, Give, cipher, tls, transport
  <2> HIDE DEF Give, cipher, tls, transport, R
  <2> QED BY <2>1
<1>5. M = Record(M)
  <2> DEFINE OfTypes(types, value) == IF e.type \in types THEN value ELSE ""
             meant == IF e.type = "vmess" THEN MeantCipher(e) ELSE ""
             password == CASE e.form \in {"outbound", "shadowsocks"} -> e.password
                           [] e.form = "standard" -> IF e.type = "tuic" THEN e.pass ELSE e.user
             uuid == IF e.form = "outbound" THEN e.uuid ELSE e.user
  <2>1. M = [type |-> e.type, server |-> e.server, port |-> e.port,
             cipher |-> meant, tls |-> MeantTLS(e, AllRead), transport |-> MeantTransport(e, AllRead),
             method |-> OfTypes({"shadowsocks"}, e.method),
             password |-> OfTypes({"shadowsocks", "trojan", "hysteria2", "tuic"}, password),
             uuid |-> OfTypes({"vmess", "vless", "tuic"}, uuid),
             flow |-> OfTypes({"vless"}, e.flow), congestion |-> OfTypes({"tuic"}, e.congestion),
             extra |-> ""]
    BY DEF Shortened, MeantWith, AllRead, OfTypes, password, uuid, meant
  <2> HIDE DEF OfTypes, password, uuid, meant, M
  <2> QED BY <2>1
<1> HIDE DEF R, M
<1>6. Record(R) = Record(M)
  BY <1>1, <1>3 DEF SameProxy
<1> QED BY <1>4, <1>5, <1>6 DEF R, M

LEMMA OutboundRight ==
  ASSUME NEW e, OfDocument(e), IsProxy(e), ~Misread(e),
         NEW n, n = ParseEntry(e), Renders(n)
  PROVE  RenderNodeOutbound(n) = Shortened(e)
<1>1. e.form = "outbound" /\ e.type \in Supported
  BY DEF OfDocument, IsProxy
<1>6. OutboundNode(e, n)
  BY OutboundParsed
<1>2. Credentials(n, e)
  BY <1>1, <1>6 DEF Credentials, OutboundNode
<1>3. ASSUME e.type = "vmess" PROVE VMessCipher(n.security) = MeantCipher(e)
  <2>1. e.security \in Ciphers \cup {"", "auto"}
    BY <1>3 DEF OfDocument
  <2>2. CASE e.tls = NoBlock
    <3>1. n.security = e.security
      BY <1>6, <2>2 DEF OutboundNode
    <3> QED BY <1>1, <2>1, <3>1 DEF VMessCipher, MeantCipher, Ciphers
  <2>3. CASE e.tls # NoBlock
    <3>1. n.security = IF e.tls.reality # NoBlock THEN "reality"
                       ELSE IF e.tls.enabled THEN First(e.security, "tls") ELSE e.security
      BY <1>6, <2>3 DEF OutboundNode
    <3>2. e.tls.reality = NoBlock
      BY <1>1, <1>3, <2>3 DEF Misread, WantsTLS, WantsReality
    <3> QED BY <1>1, <2>1, <3>1, <3>2 DEF VMessCipher, MeantCipher, Ciphers, First
  <2> QED BY <2>2, <2>3
<1>4. (IF e.type = "shadowsocks" THEN NoBlock ELSE AddTLS(n)) = MeantTLS(e, AllRead)
  <2>1. CASE e.type = "shadowsocks"
    <3>1. ~WantsTLS(e)
      BY <1>1, <2>1 DEF WantsTLS
    <3> QED BY <2>1, <3>1 DEF MeantTLS
  <2>2. CASE e.type # "shadowsocks" /\ e.tls = NoBlock
    <3>1. ~n.tls /\ n.security = e.security /\ n.alpn = "" /\ ~n.insecure
      BY <1>6, <2>2 DEF OutboundNode
    <3>2. e.security \notin {"tls", "reality"}
      BY DEF OfDocument, Ciphers
    <3>3. ~WantsTLS(e)
      BY <1>1, <2>2 DEF WantsTLS
    <3> QED BY <2>2, <3>1, <3>2, <3>3 DEF MeantTLS, AddTLS
  <2>3. CASE e.type # "shadowsocks" /\ e.tls # NoBlock
    <3>1. /\ n.sni = e.tls.sni /\ n.alpn = e.tls.alpn /\ n.insecure = e.tls.insecure /\ n.fp = e.tls.fp
          /\ n.tls = (e.tls.enabled \/ e.tls.reality # NoBlock)
          /\ n.security = IF e.tls.reality # NoBlock THEN "reality"
                          ELSE IF e.tls.enabled THEN First(e.security, "tls") ELSE e.security
          /\ e.tls.reality # NoBlock => n.pbk = e.tls.reality.pbk /\ n.sid = e.tls.reality.sid
      BY <1>6, <2>3 DEF OutboundNode
    <3>2. e.security \notin {"tls", "reality"}
      BY DEF OfDocument, Ciphers
    <3>3. WantsTLS(e) <=> e.tls.enabled
      BY <1>1, <2>3 DEF WantsTLS
    <3>4. WantsReality(e) <=> e.tls.reality # NoBlock
      BY <1>1, <2>3 DEF WantsReality
    <3>5. CASE ~e.tls.enabled
      BY <1>1, <2>3, <3>1, <3>2, <3>3, <3>4, <3>5 DEF Misread, MeantTLS, AddTLS
    <3>6. CASE e.tls.enabled /\ e.tls.reality # NoBlock
      BY <1>1, <2>3, <3>1, <3>3, <3>4, <3>6 DEF MeantTLS, AddTLS
    <3>7. CASE e.tls.enabled /\ e.tls.reality = NoBlock
      <4>1. e.tls.insecure \in BOOLEAN
        BY <2>3 DEF OfDocument
      <4>2. (n.insecure /\ ~(n.security = "reality")) = e.tls.insecure
        BY <3>1, <3>2, <3>7, <4>1 DEF First
      <4> QED BY <1>1, <2>3, <3>1, <3>2, <3>3, <3>4, <3>7, <4>2 DEF MeantTLS, AddTLS, First
    <3> QED BY <3>5, <3>6, <3>7
  <2> QED BY <2>1, <2>2, <2>3
<1>5. (IF e.type \in Streams THEN AddTransport(n) ELSE NoBlock) = MeantTransport(e, AllRead)
  <2>1. CASE e.type \notin Streams \/ e.transport = NoBlock
    <3>1. ~WantsTransport(e)
      BY <1>1, <2>1 DEF WantsTransport, Streams
    <3>2. e.transport = NoBlock => n.transport = ""
      BY <1>6 DEF OutboundNode
    <3> QED BY <2>1, <3>1, <3>2 DEF MeantTransport, AddTransport
  <2>2. CASE e.type \in Streams /\ e.transport # NoBlock
    <3> DEFINE t == e.transport
    <3>1. /\ n.transport = t.type
          /\ n.path = IF t.type = "grpc" THEN First(t.service, t.path) ELSE t.path
          /\ t.type = "ws" => n.host = First(t.header, t.host)
          /\ t.type = "httpupgrade" => n.host = First(t.host, t.header)
          /\ t.type \notin {"ws", "httpupgrade"} => n.host = ""
      BY <1>6, <2>2 DEF OutboundNode
    <3>2. /\ t.type \notin {"", "tcp"}
          /\ t.type = "ws" => t.host = ""
          /\ t.type = "httpupgrade" => t.header = ""
          /\ t.type = "grpc" => t.path = ""
      BY <2>2 DEF OfDocument
    <3>3. WantsTransport(e)
      BY <1>1, <2>2 DEF WantsTransport, Streams
    <3>4. t.type = "http" => t.host = ""
      BY <1>1, <3>3 DEF Misread
    <3>5. t.type \in {"ws", "grpc", "http", "httpupgrade"}
      BY <1>2, <2>2, <3>1, <3>2 DEF Renders, Credentials
    <3>6. MeantTransport(e, AllRead) = [type |-> t.type, path |-> IF t.type = "grpc" THEN t.service ELSE t.path,
             host |-> CASE t.type = "ws" -> t.header [] t.type = "grpc" -> "" [] OTHER -> t.host]
      BY <1>1, <3>3 DEF MeantTransport
    <3> HIDE DEF t
    <3> QED BY <2>2, <3>1, <3>2, <3>4, <3>5, <3>6 DEF AddTransport, First
  <2> QED BY <2>1, <2>2
<1> QED BY <1>1, <1>2, <1>3, <1>4, <1>5, FieldByField


(* What becomes of a link of the standard form.                            *)
StandardNode(e, n) ==
  /\ Shaped(n) /\ Credentials(n, e)
  /\ n.transport = e.transport /\ n.path = e.path /\ n.host = e.host
  /\ n.sni = e.sni /\ n.alpn = e.alpn /\ n.insecure = e.insecure
  /\ n.pbk = e.pbk /\ n.sid = e.sid /\ n.fp = e.fp
  /\ n.security = "reality" <=> e.type # "vmess" /\ Asked(e) = "reality"
  /\ n.security = "tls" => WantsTLS(e)
  /\ ~Misread(e) => (n.tls <=> WantsTLS(e))
  /\ e.type = "vmess" => VMessCipher(n.security) = MeantCipher(e)

LEMMA StandardParsed ==
  ASSUME NEW e, OfList(e), e.form = "standard",
         NEW n, n = ParseEntry(e)
  PROVE  StandardNode(e, n)
<1> DEFINE wanted == First(e.security, e.tls)
           a == [Blank EXCEPT !.type = e.type, !.server = e.server, !.port = e.port]
           b == [a EXCEPT !.security = wanted, !.tls = wanted \in {"tls", "reality"}]
           c == [b EXCEPT !.transport = e.transport, !.host = e.host, !.path = e.path]
           d == [c EXCEPT !.sni = e.sni, !.alpn = e.alpn, !.insecure = e.insecure, !.flow = e.flow]
           node == [d EXCEPT !.pbk = e.pbk, !.sid = e.sid, !.fp = e.fp, !.congestion = e.congestion]
           cipher == IF e.cipher \in {"", "tls", "reality"} THEN "auto" ELSE e.cipher
           typed ==
             CASE e.type = "vless" -> [node EXCEPT !.uuid = e.user]
               [] e.type = "vmess" -> [node EXCEPT !.uuid = e.user, !.security = cipher]
               [] e.type \in {"trojan", "hysteria2"} ->
                    [node EXCEPT !.password = e.user,
                                 !.security = IF wanted = "" /\ e.sni # "" THEN "tls" ELSE wanted,
                                 !.tls = wanted \in {"tls", "reality"} \/ e.sni # ""]
               [] e.type = "tuic" ->
                    [node EXCEPT !.uuid = e.user, !.password = e.pass,
                                 !.security = First(wanted, "tls"), !.tls = TRUE]
           read == IF typed.security \in {"1", "true"}
                   THEN [typed EXCEPT !.security = "tls", !.tls = TRUE] ELSE typed
<1>1. /\ e.type \in {"vless", "vmess", "trojan", "hysteria2", "tuic"} /\ e.insecure \in BOOLEAN
      /\ wanted \in {"", "none", "tls", "reality", "1", "true"}
      /\ e.type \in {"trojan", "hysteria2"} => wanted # "none"
      /\ e.type = "vmess" => e.cipher \in Ciphers \cup {"", "auto", "tls", "reality"}
  BY DEF OfList, Supported, Asked, SaysTLS
<1>2. n = [read EXCEPT !.name = First(e.name, e.server)]
  <2>1. ParseStandardURI(e) = read
    BY DEF ParseStandardURI
  <2> HIDE DEF read
  <2> QED BY <2>1 DEF ParseEntry, ParseURI
<1>3. /\ Shaped(node)
      /\ node.type = e.type /\ node.server = e.server /\ node.port = e.port /\ node.flow = e.flow
      /\ node.congestion = e.congestion /\ node.transport = e.transport /\ node.path = e.path
      /\ node.host = e.host /\ node.sni = e.sni /\ node.alpn = e.alpn /\ node.insecure = e.insecure
      /\ node.pbk = e.pbk /\ node.sid = e.sid /\ node.fp = e.fp
      /\ node.security = wanted /\ node.tls = (wanted \in {"tls", "reality"})
  <2>1. Shaped(Blank)
    BY DEF Shaped, Options, Blank
  <2> HIDE DEF wanted
  <2>2. Shaped(a) /\ a.type = e.type /\ a.server = e.server /\ a.port = e.port
    BY <2>1, FieldNames DEF Shaped
  <2> HIDE DEF a
  <2>3. Shaped(b) /\ b.type = e.type /\ b.server = e.server /\ b.port = e.port
        /\ b.security = wanted /\ b.tls = (wanted \in {"tls", "reality"})
    BY <2>2, FieldNames DEF Shaped
  <2> HIDE DEF b
  <2>4. Shaped(c) /\ c.type = e.type /\ c.server = e.server /\ c.port = e.port
        /\ c.security = wanted /\ c.tls = (wanted \in {"tls", "reality"})
        /\ c.transport = e.transport /\ c.host = e.host /\ c.path = e.path
    BY <2>3, FieldNames DEF Shaped
  <2> HIDE DEF c
  <2>5. Shaped(d) /\ d.type = e.type /\ d.server = e.server /\ d.port = e.port
        /\ d.security = wanted /\ d.tls = (wanted \in {"tls", "reality"})
        /\ d.transport = e.transport /\ d.host = e.host /\ d.path = e.path
        /\ d.sni = e.sni /\ d.alpn = e.alpn /\ d.insecure = e.insecure /\ d.flow = e.flow
    BY <2>4, FieldNames DEF Shaped
  <2> HIDE DEF d
  <2> QED BY <2>5, FieldNames DEF Shaped
<1> HIDE DEF node, wanted
<1>4. /\ Shaped(typed)
      /\ \A f \in Options \ {"uuid", "password", "security", "tls"} : typed[f] = node[f]
      /\ e.type \in {"vless", "vmess", "tuic"} => typed.uuid = e.user
      /\ e.type \in {"trojan", "hysteria2"} => typed.password = e.user
      /\ e.type = "tuic" => typed.password = e.pass
      /\ e.type = "vless" => typed.security = wanted /\ typed.tls = (wanted \in {"tls", "reality"})
      /\ e.type = "vmess" => typed.security = cipher /\ typed.tls = (wanted \in {"tls", "reality"})
      /\ e.type \in {"trojan", "hysteria2"} =>
           /\ typed.security = IF wanted = "" /\ e.sni # "" THEN "tls" ELSE wanted
           /\ typed.tls = (wanted \in {"tls", "reality"} \/ e.sni # "")
      /\ e.type = "tuic" => typed.security = First(wanted, "tls") /\ typed.tls = TRUE
  <2> HIDE DEF cipher
  <2>1. CASE e.type = "vless"
    BY <1>3, <2>1, FieldNames DEF Shaped
  <2>2. CASE e.type = "vmess"
    BY <1>3, <2>2, FieldNames DEF Shaped
  <2>3. CASE e.type \in {"trojan", "hysteria2"}
    BY <1>3, <2>3, FieldNames DEF Shaped
  <2>4. CASE e.type = "tuic"
    BY <1>3, <2>4, FieldNames DEF Shaped
  <2> QED BY <1>1, <2>1, <2>2, <2>3, <2>4
<1> HIDE DEF typed
<1>5. /\ Shaped(n)
      /\ \A f \in Options \ {"name", "security", "tls"} : n[f] = typed[f]
      /\ n.security = IF typed.security \in {"1", "true"} THEN "tls" ELSE typed.security
      /\ n.tls <=> typed.tls \/ typed.security \in {"1", "true"}
  <2>1. /\ Shaped(read)
        /\ \A f \in Options \ {"security", "tls"} : read[f] = typed[f]
        /\ read.security = IF typed.security \in {"1", "true"} THEN "tls" ELSE typed.security
        /\ read.tls <=> typed.tls \/ typed.security \in {"1", "true"}
    BY <1>4, FieldNames DEF Shaped
  <2> HIDE DEF read
  <2> QED BY <1>2, <2>1, FieldNames DEF Shaped
<1>6. /\ n.type = e.type /\ n.server = e.server /\ n.port = e.port /\ n.flow = e.flow
      /\ n.congestion = e.congestion /\ n.transport = e.transport /\ n.path = e.path
      /\ n.host = e.host /\ n.sni = e.sni /\ n.alpn = e.alpn /\ n.insecure = e.insecure
      /\ n.pbk = e.pbk /\ n.sid = e.sid /\ n.fp = e.fp
      /\ n.uuid = typed.uuid /\ n.password = typed.password
  <2> DEFINE kept == {"type", "server", "port", "flow", "congestion", "transport", "path", "host", "sni",
                      "alpn", "insecure", "pbk", "sid", "fp", "uuid", "password"}
  <2> HIDE DEF read
  <2>1. kept \subseteq Options \ {"name", "security", "tls"}
    BY DEF Options, Blank
  <2>2. \A f \in kept : n[f] = typed[f]
    BY <1>5, <2>1
  <2>3. \A f \in kept \ {"uuid", "password"} : typed[f] = node[f]
    BY <1>4, <2>1
  <2> QED BY <1>3, <2>2, <2>3
<1>7. Credentials(n, e)
  BY <1>1, <1>4, <1>6 DEF Credentials
<1>8. n.security = "reality" <=> e.type # "vmess" /\ wanted = "reality"
  BY <1>1, <1>4, <1>5 DEF First, Ciphers
<1>9. WantsTLS(e) <=> wanted \in {"tls", "reality", "1", "true"} \/ e.type \in {"trojan", "hysteria2", "tuic"}
  BY <1>1 DEF WantsTLS, Asked, SaysTLS, wanted
<1>10. n.security = "tls" => WantsTLS(e)
  BY <1>1, <1>4, <1>5, <1>9 DEF First, Ciphers
<1>11. ~Misread(e) => (n.tls <=> WantsTLS(e))
  <2>1. ~Misread(e) => /\ e.type \in {"trojan", "hysteria2"} /\ wanted = "" => e.sni # ""
                       /\ e.type = "vmess" => wanted \notin {"1", "true"}
    BY DEF Misread, Asked, wanted
  <2>2. e.type = "vmess" => typed.security \notin {"1", "true"}
    BY <1>1, <1>4 DEF Ciphers
  <2> QED BY <1>1, <1>4, <1>5, <1>9, <2>1, <2>2 DEF First
<1>12. e.type = "vmess" => VMessCipher(n.security) = MeantCipher(e)
  BY <1>1, <1>4, <1>5 DEF VMessCipher, MeantCipher, Ciphers, cipher
<1> QED BY <1>5, <1>6, <1>7, <1>8, <1>10, <1>11, <1>12 DEF StandardNode, Asked, wanted


(* A transport named in a link.                                            *)
LEMMA LinkTransport ==
  ASSUME NEW e, NEW n, e.form # "outbound", n.type = e.type, Renders(n),
         e.type \in Streams =>
           n.transport = e.transport /\ n.path = e.path /\ n.host = e.host
  PROVE  (IF e.type \in Streams THEN AddTransport(n) ELSE NoBlock) = MeantTransport(e, AllRead)
<1>1. CASE e.type \notin Streams \/ e.transport \in {"", "tcp"}
  <2>1. ~WantsTransport(e)
    BY <1>1 DEF WantsTransport, Streams
  <2> QED BY <1>1, <2>1 DEF MeantTransport, AddTransport
<1>2. CASE e.type \in Streams /\ e.transport \notin {"", "tcp"}
  <2>1. WantsTransport(e)
    BY <1>2 DEF WantsTransport, Streams
  <2> QED BY <1>2, <2>1 DEF MeantTransport, AddTransport, AllRead, First
<1> QED BY <1>1, <1>2

LEMMA StandardRight ==
  ASSUME NEW e, OfList(e), e.form = "standard", ~Misread(e),
         NEW n, n = ParseEntry(e), Renders(n)
  PROVE  RenderNodeOutbound(n) = Shortened(e)
<1>1. StandardNode(e, n)
  BY StandardParsed
<1>2. e.type \in Supported \ {"shadowsocks"} /\ e.insecure \in BOOLEAN
  BY DEF OfList
<1>3. n.type = e.type /\ n.transport = e.transport /\ n.path = e.path /\ n.host = e.host
  BY <1>1 DEF StandardNode, Credentials
<1>4. (IF e.type \in Streams THEN AddTransport(n) ELSE NoBlock) = MeantTransport(e, AllRead)
  BY <1>3, LinkTransport
<1>5. AddTLS(n) = MeantTLS(e, AllRead)
  <2>1. /\ n.sni = e.sni /\ n.alpn = e.alpn /\ n.insecure = e.insecure
        /\ n.pbk = e.pbk /\ n.sid = e.sid /\ n.fp = e.fp
        /\ n.security = "reality" <=> e.type # "vmess" /\ Asked(e) = "reality"
        /\ n.security = "tls" => WantsTLS(e)
        /\ n.tls <=> WantsTLS(e)
    BY <1>1 DEF StandardNode
  <2>2. WantsReality(e) <=> Asked(e) = "reality"
    BY DEF WantsReality
  <2>3. Asked(e) = "reality" => WantsTLS(e)
    BY <1>2 DEF WantsTLS, SaysTLS
  <2>4. CASE ~WantsTLS(e)
    <3>1. e.alpn = "" /\ ~e.insecure
      BY <2>4 DEF Misread
    <3> QED BY <2>1, <2>3, <2>4, <3>1 DEF MeantTLS, AddTLS
  <2>5. CASE WantsTLS(e) /\ WantsReality(e)
    <3>1. n.security = "reality"
      BY <2>1, <2>2, <2>5 DEF Misread
    <3> QED BY <2>1, <2>5, <3>1 DEF MeantTLS, AddTLS
  <2>6. CASE WantsTLS(e) /\ ~WantsReality(e)
    <3>1. n.security # "reality"
      BY <2>1, <2>2, <2>6
    <3>2. (n.insecure /\ ~(n.security = "reality")) = e.insecure
      BY <1>2, <2>1, <3>1
    <3> QED BY <2>1, <2>6, <3>1, <3>2 DEF MeantTLS, AddTLS
  <2> QED BY <2>4, <2>5, <2>6
<1> QED
  <2>1. Credentials(n, e) /\ (e.type = "vmess" => VMessCipher(n.security) = MeantCipher(e))
    BY <1>1 DEF StandardNode
  <2>2. (IF e.type = "shadowsocks" THEN NoBlock ELSE AddTLS(n)) = MeantTLS(e, AllRead)
    BY <1>2, <1>5
  <2> QED BY <1>2, <1>4, <2>1, <2>2, FieldByField

(* The links without parameters.                                           *)
VMessNode(e, n) ==
  /\ Shaped(n) /\ n.type = e.type /\ n.server = e.server /\ n.port = e.port /\ n.uuid = e.user
  /\ n.alpn = "" /\ n.insecure = FALSE /\ n.fp = ""
  /\ n.security = e.cipher /\ (n.tls <=> e.tls = "tls") /\ n.transport = e.transport
  /\ n.host = e.host /\ n.path = e.path /\ n.sni = e.sni

LEMMA VMessParsed ==
  ASSUME NEW e, OfList(e), e.form = "vmess",
         NEW n, n = ParseEntry(e)
  PROVE  VMessNode(e, n)
<1> DEFINE a == [Blank EXCEPT !.type = e.type, !.server = e.server, !.port = e.port, !.uuid = e.user]
           b == [a EXCEPT !.security = e.cipher, !.tls = e.tls = "tls", !.transport = e.transport]
           c == [b EXCEPT !.host = e.host, !.path = e.path, !.sni = e.sni]
           d == [c EXCEPT !.name = First(e.name, e.server)]
<1>2. n = d
  <2>1. ParseVMess(e) = c
    BY DEF ParseVMess
  <2> HIDE DEF c
  <2> QED BY <2>1 DEF ParseEntry, ParseURI
<1>3. Shaped(a) /\ a.type = e.type /\ a.server = e.server /\ a.port = e.port /\ a.uuid = e.user
      /\ a.alpn = "" /\ a.insecure = FALSE /\ a.fp = ""
  BY BlankShaped, FieldNames DEF Shaped
<1> HIDE DEF a
<1>4. Shaped(b) /\ b.type = e.type /\ b.server = e.server /\ b.port = e.port /\ b.uuid = e.user
      /\ b.alpn = "" /\ b.insecure = FALSE /\ b.fp = ""
      /\ b.security = e.cipher /\ (b.tls <=> e.tls = "tls") /\ b.transport = e.transport
  BY <1>3, FieldNames DEF Shaped
<1> HIDE DEF b
<1>5. Shaped(c) /\ c.type = e.type /\ c.server = e.server /\ c.port = e.port /\ c.uuid = e.user
      /\ c.alpn = "" /\ c.insecure = FALSE /\ c.fp = ""
      /\ c.security = e.cipher /\ (c.tls <=> e.tls = "tls") /\ c.transport = e.transport
      /\ c.host = e.host /\ c.path = e.path /\ c.sni = e.sni
  BY <1>4, FieldNames DEF Shaped
<1> HIDE DEF c
<1>6. Shaped(d)
  BY <1>5 DEF Shaped
<1>7. \A f \in Options \ {"name"} : d[f] = c[f]
  BY <1>5 DEF Shaped
<1> HIDE DEF d
<1>8. /\ d.type = c.type /\ d.server = c.server /\ d.port = c.port /\ d.uuid = c.uuid /\ d.alpn = c.alpn
      /\ d.insecure = c.insecure /\ d.fp = c.fp /\ d.security = c.security /\ d.tls = c.tls
      /\ d.transport = c.transport /\ d.host = c.host /\ d.path = c.path /\ d.sni = c.sni
  BY <1>7, FieldNames
<1> QED BY <1>2, <1>5, <1>6, <1>8 DEF VMessNode

LEMMA VMessRight ==
  ASSUME NEW e, OfList(e), e.form = "vmess",
         NEW n, n = ParseEntry(e), Renders(n)
  PROVE  RenderNodeOutbound(n) = Shortened(e)
<1>1. e.type = "vmess" /\ e.cipher \in Ciphers \cup {"", "auto", "tls"}
  BY DEF OfList
<1>6. VMessNode(e, n)
  BY VMessParsed
<1>7. Credentials(n, e)
  BY <1>1, <1>6 DEF Credentials, VMessNode
<1>8. VMessCipher(n.security) = MeantCipher(e)
  BY <1>1, <1>6 DEF VMessNode, VMessCipher, MeantCipher, Ciphers
<1>9. WantsTLS(e) <=> e.tls = "tls" \/ e.cipher = "tls"
  BY <1>1 DEF WantsTLS
<1>10. AddTLS(n) = MeantTLS(e, AllRead)
  <2>1. n.security # "reality"
    BY <1>1, <1>6 DEF VMessNode, Ciphers
  <2>2. CASE WantsTLS(e)
    BY <1>6, <1>9, <2>1, <2>2 DEF VMessNode, MeantTLS, AddTLS, AllRead
  <2>3. CASE ~WantsTLS(e)
    BY <1>6, <1>9, <2>1, <2>3 DEF VMessNode, MeantTLS, AddTLS, AllRead
  <2> QED BY <2>2, <2>3
<1>11. (IF e.type \in Streams THEN AddTransport(n) ELSE NoBlock) = MeantTransport(e, AllRead)
  BY <1>6, LinkTransport DEF VMessNode
<1> QED BY <1>1, <1>7, <1>8, <1>10, <1>11, FieldByField DEF Supported

LEMMA ShadowsocksRight ==
  ASSUME NEW e, OfList(e), e.form = "shadowsocks",
         NEW n, n = ParseEntry(e)
  PROVE  /\ Shaped(n) /\ n.type = "shadowsocks" /\ Credentials(n, e) /\ e.type \in Supported
         /\ RenderNodeOutbound(n) = Shortened(e)
<1> DEFINE a == [Blank EXCEPT !.type = e.type, !.server = e.server, !.port = e.port]
           b == [a EXCEPT !.method = e.method, !.password = e.password]
           c == [b EXCEPT !.name = First(e.name, e.server)]
<1>1. e.type = "shadowsocks"
  BY DEF OfList
<1>2. n = c
  <2>1. ParseShadowsocks(e) = b
    BY DEF ParseShadowsocks
  <2> HIDE DEF b
  <2> QED BY <2>1 DEF ParseEntry, ParseURI
<1>3. Shaped(a) /\ a.type = e.type /\ a.server = e.server /\ a.port = e.port
  BY BlankShaped, FieldNames DEF Shaped
<1> HIDE DEF a
<1>4. Shaped(b) /\ b.type = e.type /\ b.server = e.server /\ b.port = e.port
      /\ b.method = e.method /\ b.password = e.password
  BY <1>3, FieldNames DEF Shaped
<1> HIDE DEF b
<1>5. Shaped(n) /\ n.type = e.type /\ n.server = e.server /\ n.port = e.port
      /\ n.method = e.method /\ n.password = e.password
  BY <1>2, <1>4, FieldNames DEF Shaped
<1>6. Credentials(n, e)
  BY <1>1, <1>5 DEF Credentials
<1>7. ~WantsTLS(e)
  BY <1>1 DEF WantsTLS
<1>8. ~WantsTransport(e)
  BY <1>1 DEF WantsTransport
<1>9. MeantTLS(e, AllRead) = NoBlock /\ MeantTransport(e, AllRead) = NoBlock
  BY <1>7, <1>8 DEF MeantTLS, MeantTransport
<1> QED BY <1>1, <1>5, <1>6, <1>9, FieldByField DEF Supported, Streams


-----------------------------------------------------------------------------
(* One entry, whatever its form.                                           *)
Proper(e) ==
  \/ OfDocument(e) /\ IsProxy(e)
  \/ OfList(e) /\ e.form # "unsupported"

LEMMA EntryRight ==
  ASSUME NEW e, Proper(e), NEW n, n = ParseEntry(e)
  PROVE  /\ Shaped(n)
         /\ Renders(n) /\ ~Misread(e) => RenderNodeOutbound(n) = Shortened(e)
         /\ Renders(n) => SameProxy(RenderNodeOutbound(n), Meant(e))
         /\ Dialable(e) => Renders(n)
<1>1. CASE OfDocument(e) /\ IsProxy(e)
  <2>1. OutboundNode(e, n)
    BY <1>1, OutboundParsed
  <2>2. /\ n.type = e.type /\ e.form = "outbound"
        /\ n.transport = IF e.transport = NoBlock THEN "" ELSE e.transport.type
    BY <1>1, <2>1 DEF OutboundNode, OfDocument
  <2>3. Dialable(e) => Renders(n)
    BY <2>2 DEF Dialable, WantsTransport, Renders, Streams
  <2>4. Renders(n) /\ ~Misread(e) => RenderNodeOutbound(n) = Shortened(e)
    BY <1>1, OutboundRight
  <2>5. Credentials(n, e) /\ e.type \in Supported
    BY <1>1, <2>1, <2>2 DEF OutboundNode, Credentials, IsProxy
  <2> QED BY <2>1, <2>3, <2>4, <2>5, CredentialsGiven DEF OutboundNode, Meant
<1>2. CASE OfList(e) /\ e.form = "standard"
  <2>1. StandardNode(e, n)
    BY <1>2, StandardParsed
  <2>2. n.type = e.type /\ n.transport = e.transport
    BY <2>1 DEF StandardNode, Credentials
  <2>3. Dialable(e) => Renders(n)
    BY <1>2, <2>2 DEF Dialable, WantsTransport, Renders, Streams
  <2>4. Renders(n) /\ ~Misread(e) => RenderNodeOutbound(n) = Shortened(e)
    BY <1>2, StandardRight
  <2>5. Credentials(n, e) /\ e.type \in Supported
    BY <1>2, <2>1 DEF StandardNode, OfList
  <2> QED BY <2>1, <2>3, <2>4, <2>5, CredentialsGiven DEF StandardNode, Meant
<1>3. CASE OfList(e) /\ e.form = "vmess"
  <2>1. VMessNode(e, n)
    BY <1>3, VMessParsed
  <2>2. n.type = e.type /\ n.transport = e.transport
    BY <2>1 DEF VMessNode
  <2>3. Dialable(e) => Renders(n)
    BY <1>3, <2>2 DEF Dialable, WantsTransport, Renders, Streams
  <2>4. Renders(n) => RenderNodeOutbound(n) = Shortened(e)
    BY <1>3, VMessRight
  <2>5. Credentials(n, e) /\ e.type \in Supported
    BY <1>3, <2>1 DEF VMessNode, Credentials, OfList, Supported
  <2> QED BY <2>1, <2>3, <2>4, <2>5, CredentialsGiven DEF VMessNode, Meant
<1>4. CASE OfList(e) /\ e.form = "shadowsocks"
  BY <1>4, ShadowsocksRight, CredentialsGiven DEF Renders, Streams, Meant
<1> QED BY <1>1, <1>2, <1>3, <1>4 DEF Proper, OfList

-----------------------------------------------------------------------------
(* The entries of an answer, and the nodes in the file.                    *)

Sieve == INSTANCE Iteration WITH Round <- AddParsed

LEMMA TakenProper ==
  ASSUME answer \in Answers \cup Later
  PROVE  Taken \in Seq({e \in ToSet(answer.entries) : Proper(e)})
<1> DEFINE s == answer.entries
           E == ToSet(s)
           P == {e \in E : Proper(e)}
           kept == [k \in 0 .. Len(s) |-> Seq(P)]
<1>1. s \in Seq(E) /\ \A e \in E : OfDocument(e) \/ OfList(e)
  BY ImportConstants
<1>2. Taken = Sieve!Fold(<< >>, s)
  BY DEF Taken, FoldLeft, MapThenFoldSet, Max, Sieve!Fold
<1> HIDE DEF E, s
<1>3. Len(s) \in Nat /\ << >> \in kept[0] /\ kept[Len(s)] = Seq(P)
  BY <1>1
<1>4. ASSUME NEW k \in 1 .. Len(s), NEW list \in kept[k - 1]
      PROVE  AddParsed(list, s[k]) \in kept[k]
  <2>1. s[k] \in E /\ list \in Seq(P) /\ kept[k] = Seq(P)
    BY <1>1, <1>3
  <2>2. Parsed(s[k]) => Proper(s[k])
    BY <1>1, <2>1 DEF Parsed, Proper, OfDocument, OfList
  <2>3. Parsed(s[k]) => s[k] \in P
    BY <2>1, <2>2
  <2> HIDE DEF kept, P
  <2>4. Parsed(s[k]) => Append(list, s[k]) \in Seq(P)
    BY <2>1, <2>3
  <2> QED BY <2>1, <2>4 DEF AddParsed
<1> HIDE DEF kept
<1>5. Sieve!Fold(<< >>, s) \in kept[Len(s)]
  BY <1>1, <1>3, <1>4, Sieve!FoldKeeps
<1> QED BY <1>2, <1>3, <1>5 DEF s, E

(* What is written is what is read, for a node of this type.               *)
LEMMA WrittenAndRead ==
  ASSUME NEW n, Shaped(n)
  PROVE  OptionsNode(NodeOptions(n)) = n
<1>1. \A f \in DOMAIN Blank : OptionsNode(NodeOptions(n))[f] = n[f]
  BY DEF OptionsNode, NodeOptions
<1> QED BY <1>1 DEF Shaped, Options, OptionsNode

(* No two entries get the same id.                                         *)
LEMMA IdsDiffer ==
  ASSUME NEW list, NEW N \in Nat, DOMAIN list = 1 .. N, NEW k \in 1 .. N, NEW l \in 1 .. N,
         AssignSource(list)[k].id = AssignSource(list)[l].id
  PROVE  k = l
<1> DEFINE Same(i) == {j \in 1 .. i : StableNodeID(list[j]) = StableNodeID(list[i])}
<1>1. ASSUME NEW i \in 1 .. N
      PROVE  /\ AssignSource(list)[i].id = <<StableNodeID(list[i]), Cardinality(Same(i))>>
             /\ IsFiniteSet(Same(i))
  <2>1. IsFiniteSet(1 .. i)
    BY FS_Interval
  <2>2. IsFiniteSet(Same(i))
    BY <2>1, FS_Subset
  <2> QED BY <2>2 DEF AssignSource
<1>2. ASSUME NEW i \in 1 .. N, NEW j \in 1 .. N, i < j,
             AssignSource(list)[i].id = AssignSource(list)[j].id
      PROVE  FALSE
  <2>1. StableNodeID(list[i]) = StableNodeID(list[j]) /\ Cardinality(Same(i)) = Cardinality(Same(j))
    <3> HIDE DEF Same
    <3>1. <<StableNodeID(list[i]), Cardinality(Same(i))>> = <<StableNodeID(list[j]), Cardinality(Same(j))>>
      BY <1>1, <1>2
    <3> QED BY <3>1
  <2>2. Same(i) \subseteq Same(j) /\ j \in Same(j) /\ j \notin Same(i)
    BY <1>2, <2>1
  <2> HIDE DEF Same
  <2>3. Same(j) = Same(i)
    BY <1>1, <2>1, <2>2, FS_Subset
  <2> QED BY <2>2, <2>3
<1> QED BY <1>2

(* The file has a node for each entry, which is what Parse made of it.     *)
Holds(stored, entries) ==
  LET id == [k \in DOMAIN entries |-> AssignSource(Parse(entries))[k].id]
  IN /\ DOMAIN stored = {id[k] : k \in DOMAIN entries}
     /\ \A k \in DOMAIN entries   : stored[id[k]] = ParseEntry(entries[k])

LEMMA AllStored ==
  ASSUME NEW E, NEW entries \in Seq(E), \A e \in E : Proper(e)
  PROVE  Holds(Stored(AssignSource(Parse(entries))), entries)
<1> DEFINE N == Len(entries)
           list == Parse(entries)
           assigned == AssignSource(list)
           Latest(id) == CHOOSE k \in DOMAIN assigned :
                           assigned[k].id = id /\ \A j \in DOMAIN assigned : assigned[j].id = id => j <= k
<1>1. N \in Nat /\ DOMAIN entries = 1 .. N /\ DOMAIN list = 1 .. N /\ DOMAIN assigned = 1 .. N
  BY DEF Parse, AssignSource
<1>2. ASSUME NEW k \in 1 .. N
      PROVE  Latest(assigned[k].id) = k
  <2> HIDE DEF list
  <2>1. \A j \in 1 .. N : assigned[j].id = assigned[k].id => j = k
    BY <1>1, IdsDiffer
  <2> HIDE DEF assigned
  <2> QED BY <1>1, <2>1
<1>3. ASSUME NEW k \in 1 .. N
      PROVE  OptionsNode(NodeOptions(assigned[k].node)) = ParseEntry(entries[k])
  <2>1. assigned[k].node = list[k]
    BY <1>1 DEF AssignSource
  <2>2. list[k] = ParseEntry(entries[k])
    BY <1>1 DEF Parse
  <2>3. entries[k] \in E
    BY <1>1
  <2>4. Shaped(ParseEntry(entries[k]))
    BY <2>3, EntryRight
  <2> QED BY <2>1, <2>2, <2>4, WrittenAndRead
<1>4. Stored(assigned) = [id \in {assigned[k].id : k \in DOMAIN assigned} |->
                            OptionsNode(NodeOptions(assigned[Latest(id)].node))]
  BY DEF Stored
<1> HIDE DEF assigned, Latest
<1>5. DOMAIN Stored(assigned) = {assigned[k].id : k \in 1 .. N}
  BY <1>1, <1>4
<1>6. \A k \in 1 .. N : Stored(assigned)[assigned[k].id] = ParseEntry(entries[k])
  BY <1>1, <1>2, <1>3, <1>4
<1> QED BY <1>1, <1>5, <1>6 DEF Holds, assigned


-----------------------------------------------------------------------------
(* The inductive invariant: the nodes in the file are those of the entries *)
(* that were taken, and each of these is an entry that can be dialled.     *)
ImportInv ==
  /\ answer \in Answers \cup Later
  /\ taken \in Seq({taken[k] : k \in DOMAIN taken})
  /\ \A k \in DOMAIN taken : Proper(taken[k])
  /\ Holds(nodes, taken)

LEMMA ImportStarts ==
  ImportInit => ImportInv
<1> SUFFICES ASSUME ImportInit PROVE ImportInv
  OBVIOUS
<1>1. answer \in Answers /\ nodes = << >> /\ taken = << >>
  BY DEF ImportInit
<1>2. DOMAIN taken = {} /\ DOMAIN nodes = {}
  BY <1>1
<1>3. Holds(nodes, taken)
  BY <1>2 DEF Holds
<1>4. taken \in Seq({taken[k] : k \in DOMAIN taken})
  BY <1>1
<1> QED BY <1>1, <1>2, <1>3, <1>4 DEF ImportInv

LEMMA ImportStep ==
  ImportInv /\ [ImportNext]_importVars => ImportInv'
<1> SUFFICES ASSUME ImportInv, [ImportNext]_importVars PROVE ImportInv'
  OBVIOUS
<1>1. CASE Refresh
  <2>1. answer' = answer
    BY <1>1 DEF Refresh
  <2>2. CASE nodes' = nodes /\ taken' = taken
    BY <2>1, <2>2 DEF ImportInv
  <2>3. CASE nodes' = Stored(AssignSource(Parse(Taken))) /\ taken' = Taken
    <3> DEFINE P == {e \in ToSet(answer.entries) : Proper(e)}
    <3>1. Taken \in Seq(P)
      BY TakenProper DEF ImportInv
    <3>2. \A e \in P : Proper(e)
      OBVIOUS
    <3> HIDE DEF P
    <3>3. Holds(Stored(AssignSource(Parse(Taken))), Taken)
      BY <3>1, <3>2, AllStored
    <3>4. Taken \in Seq({Taken[k] : k \in DOMAIN Taken}) /\ \A k \in DOMAIN Taken : Proper(Taken[k])
      BY <3>1, <3>2
    <3>5. Holds(nodes', taken')
      BY <2>3, <3>3
    <3> QED BY <2>1, <2>3, <3>4, <3>5 DEF ImportInv
  <2> QED BY <1>1, <2>2, <2>3 DEF Refresh
<1>2. CASE Serve
  BY <1>2 DEF Serve, ImportInv
<1>3. CASE UNCHANGED importVars
  BY <1>3 DEF importVars, ImportInv
<1> QED BY <1>1, <1>2, <1>3 DEF ImportNext

LEMMA HeldIsDialled ==
  ImportInv => DialledAsProvided
<1> SUFFICES ASSUME ImportInv PROVE DialledAsProvided
  OBVIOUS
<1> DEFINE N == Len(taken)
           key == [k \in 1 .. N |-> AssignSource(Parse(taken))[k].id]
           Expected(k) == IF Dropped(taken[k]) THEN Shortened(taken[k]) ELSE Meant(taken[k])
           Right(k) == Dialable(taken[k]) /\ ~Misread(taken[k])
           Dialled(d) == {id \in DOMAIN Outbounds : Outbounds[id] = d}
           Listed(d) == {k \in DOMAIN taken : Right(k) /\ Expected(k) = d}
<1>1. N \in Nat /\ DOMAIN taken = 1 .. N /\ \A k \in 1 .. N : Proper(taken[k])
  BY DEF ImportInv
<1>2. DOMAIN nodes = {key[k] : k \in 1 .. N} /\ \A k \in 1 .. N : nodes[key[k]] = ParseEntry(taken[k])
  BY <1>1 DEF ImportInv, Holds
<1>3. ASSUME NEW k \in 1 .. N, NEW l \in 1 .. N, key[k] = key[l]
      PROVE  k = l
  <2>1. DOMAIN Parse(taken) = 1 .. N
    BY <1>1 DEF Parse
  <2> QED BY <1>1, <1>3, <2>1, IdsDiffer
<1> HIDE DEF key, N
<1>4. DOMAIN Outbounds = {id \in DOMAIN nodes : Renders(nodes[id])}
      /\ \A id \in DOMAIN Outbounds : Outbounds[id] = RenderNodeOutbound(nodes[id])
  BY DEF Outbounds
<1>9. \A k : Expected(k) = Shortened(taken[k])
  BY DEF Dropped, Meant, Shortened
<1> HIDE DEF Expected
<1>5. ASSUME NEW k \in 1 .. N, Renders(ParseEntry(taken[k])), ~Misread(taken[k])
      PROVE  key[k] \in DOMAIN Outbounds /\ Outbounds[key[k]] = Expected(k)
  <2>1. key[k] \in DOMAIN nodes /\ nodes[key[k]] = ParseEntry(taken[k])
    BY <1>2
  <2>2. RenderNodeOutbound(ParseEntry(taken[k])) = Expected(k)
    BY <1>1, <1>5, <1>9, EntryRight
  <2> QED BY <1>4, <1>5, <2>1, <2>2
<1>6. ASSUME NEW id \in DOMAIN Outbounds
      PROVE  \E k \in DOMAIN taken :
               \/ Outbounds[id] = Expected(k)
               \/ Misread(taken[k]) /\ SameProxy(Outbounds[id], Meant(taken[k]))
  <2>1. PICK k \in 1 .. N : id = key[k]
    BY <1>2, <1>4
  <2>2. Renders(ParseEntry(taken[k])) /\ Outbounds[id] = RenderNodeOutbound(ParseEntry(taken[k]))
    BY <1>2, <1>4, <2>1
  <2>3. SameProxy(Outbounds[id], Meant(taken[k]))
    BY <1>1, <2>2, EntryRight
  <2> QED BY <1>1, <1>5, <2>1, <2>2, <2>3
<1>7. ASSUME NEW d
      PROVE  Cardinality(Dialled(d)) >= Cardinality(Listed(d))
  <2>1. \A k \in Listed(d) : key[k] \in Dialled(d)
    <3>1. ASSUME NEW k \in Listed(d)
          PROVE  key[k] \in Dialled(d)
      <4>1. k \in 1 .. N /\ Right(k) /\ Expected(k) = d
        BY <1>1
      <4>2. Renders(ParseEntry(taken[k]))
        BY <1>1, <4>1, EntryRight
      <4> QED BY <1>5, <4>1, <4>2
    <3> QED BY <3>1
  <2>2. IsFiniteSet(Dialled(d))
    <3>1. IsFiniteSet(1 .. N)
      BY <1>1, FS_Interval
    <3> DEFINE K == {key[k] : k \in 1 .. N}
               f == [k \in 1 .. N |-> key[k]]
    <3>2. f \in Surjection(1 .. N, K)
      BY DEF Surjection
    <3>3. IsFiniteSet(K)
      <4> HIDE DEF K, f
      <4>1. IsFiniteSet(K) /\ Cardinality(K) <= Cardinality(1 .. N)
        BY <3>1, <3>2, FS_Surjection
      <4> QED BY <4>1
    <3>4. Dialled(d) \in SUBSET K
      BY <1>2, <1>4
    <3> HIDE DEF K, Dialled
    <3> QED BY <3>3, <3>4, FS_Subset
  <2> DEFINE g == [k \in Listed(d) |-> key[k]]
  <2>3. g \in Injection(Listed(d), Dialled(d))
    <3>1. Listed(d) \subseteq 1 .. N
      BY <1>1
    <3> HIDE DEF Listed, Dialled
    <3> QED BY <1>3, <2>1, <3>1 DEF Injection, IsInjective
  <2> HIDE DEF g, Listed, Dialled
  <2>4. IsFiniteSet(Listed(d)) /\ Cardinality(Listed(d)) <= Cardinality(Dialled(d))
    BY <2>2, <2>3, FS_Injection
  <2>5. Cardinality(Listed(d)) \in Nat /\ Cardinality(Dialled(d)) \in Nat
    BY <2>2, <2>4, FS_CardinalityType
  <2> QED BY <2>4, <2>5
<1> QED BY <1>6, <1>7 DEF DialledAsProvided, Expected

(* Whatever providers serve in the shapes ImportConstants allows, in       *)
(* whatever order and however often, sing-box dials what was listed when   *)
(* it was last imported and nothing else, entry for entry and option for   *)
(* option (Parse, AssignSource, nodeSection, readNode,                     *)
(* renderNodeOutbound).  The exceptions are those of DialledAsProvided:    *)
(* entries with a transport that is not rendered (Dialable), the options   *)
(* Unread names, which are dropped, and the entries Misread names, which   *)
(* keep place and credentials.                                             *)
THEOREM ImportCorrect == ImportSpec => []DialledAsProvided
<1>1. ImportInit => ImportInv
  BY ImportStarts
<1>2. ImportInv /\ [ImportNext]_importVars => ImportInv'
  BY ImportStep
<1>3. ImportInv => DialledAsProvided
  BY HeldIsDialled
<1> QED BY <1>1, <1>2, <1>3, PTL DEF ImportSpec

-----------------------------------------------------------------------------
(* Sections: lists.                                                        *)

(* A list that is cut down has what stood at the places that are kept,     *)
(* each place once.                                                        *)
LEMMA KeptList ==
  ASSUME NEW A, NEW s \in Seq(A), NEW I \in SUBSET DOMAIN s
  PROVE  \E at \in Bijection(1 .. Cardinality(I), I) :
            /\ Cardinality(I) \in Nat
            /\ Kept(s, I) = [k \in 1 .. Cardinality(I) |-> s[at[k]]]
<1> DEFINE n == Cardinality(I)
           Rank(i) == Cardinality({j \in I : j <= i})
           at == [k \in 1 .. n |-> CHOOSE i \in I : Rank(i) = k]
           rank == [i \in I |-> Rank(i)]
<1>1. IsFiniteSet(I) /\ n \in Nat /\ I \subseteq Nat
  <2>1. IsFiniteSet(1 .. Len(s))
    BY FS_Interval
  <2>2. I \in SUBSET (1 .. Len(s))
    OBVIOUS
  <2> QED BY <2>1, <2>2, FS_Subset, FS_CardinalityType
<1>2. ASSUME NEW i \in I
      PROVE  IsFiniteSet({j \in I : j <= i}) /\ Rank(i) \in 1 .. n
  <2>1. {j \in I : j <= i} \in SUBSET I /\ i \in {j \in I : j <= i}
    BY <1>1
  <2>2. IsFiniteSet({j \in I : j <= i}) /\ Rank(i) <= n /\ Rank(i) \in Nat
    BY <1>1, <2>1, FS_Subset, FS_CardinalityType
  <2>3. Rank(i) # 0
    BY <2>1, <2>2, FS_EmptySet
  <2> QED BY <2>2, <2>3, <1>1
<1>3. ASSUME NEW i \in I, NEW j \in I, i < j
      PROVE  Rank(i) # Rank(j)
  <2>1. {k \in I : k <= i} \in SUBSET {k \in I : k <= j} /\ j \in {k \in I : k <= j} /\ j \notin {k \in I : k <= i}
    BY <1>1, <1>3
  <2> QED BY <1>2, <2>1, FS_Subset
<1> HIDE DEF Rank
<1>4. \A i, j \in I : Rank(i) = Rank(j) => i = j
  <2>1. \A i, j \in I : i < j \/ j < i \/ i = j
    BY <1>1
  <2> QED BY <1>3, <2>1
<1>5. rank \in Injection(I, 1 .. n)
  BY <1>2, <1>4 DEF Injection, IsInjective
<1>6. rank \in Surjection(I, 1 .. n)
  <2>1. IsFiniteSet(1 .. n) /\ Cardinality(1 .. n) = n
    BY <1>1, FS_Interval
  <2> HIDE DEF rank, n
  <2> QED BY <1>5, <2>1, FS_Injection DEF n
<1>7. \A k \in 1 .. n : at[k] \in I /\ Rank(at[k]) = k
  BY <1>6 DEF Surjection
<1>8. \A i \in I : at[Rank(i)] = i
  <2> HIDE DEF at
  <2> QED BY <1>2, <1>7, <1>4
<1>9. at \in Bijection(1 .. n, I)
  <2>1. at \in [1 .. n -> I]
    BY <1>7
  <2> HIDE DEF at, n
  <2>2. \A a, b \in 1 .. n : at[a] = at[b] => a = b
    BY <1>7
  <2>3. \A i \in I : Rank(i) \in 1 .. n /\ at[Rank(i)] = i
    BY <1>2, <1>8
  <2> QED BY <2>1, <2>2, <2>3 DEF Bijection, Injection, IsInjective, Surjection
<1>10. Kept(s, I) = [k \in 1 .. n |-> s[at[k]]]
  BY DEF Kept, Rank
<1> QED BY <1>1, <1>9, <1>10

(* A set as a list.                                                        *)
LEMMA ListedOnce ==
  ASSUME NEW S, IsFiniteSet(S)
  PROVE  SetToSeq(S) \in Bijection(1 .. Cardinality(S), S) /\ Cardinality(S) \in Nat
<1> DEFINE n == Cardinality(S)
<1>1. n \in Nat /\ IsFiniteSet(1 .. n) /\ Cardinality(1 .. n) = n
  BY FS_CardinalityType, FS_Interval
<1>2. \E f \in [1 .. n -> S] : IsInjective(f)
  <2>1. ExistsBijection(1 .. n, S)
    BY <1>1, FS_SameCardinalityBij
  <2> QED BY <2>1 DEF ExistsBijection, Bijection, Injection
<1>3. SetToSeq(S) \in Injection(1 .. n, S)
  BY <1>2 DEF SetToSeq, Injection
<1>4. SetToSeq(S) \in Surjection(1 .. n, S)
  <2> HIDE DEF n
  <2>1. SetToSeq(S) \in Injection(1 .. n, S) /\ Cardinality(1 .. n) = Cardinality(S)
    BY <1>1, <1>3 DEF n
  <2> QED BY <2>1, FS_Injection
<1> QED BY <1>1, <1>3, <1>4 DEF Bijection

-----------------------------------------------------------------------------
(* Tidy files.                                                             *)

LEMMA TidyList ==
  ASSUME NEW f, Tidy(f)
  PROVE  Len(f) \in Nat /\ DOMAIN f = 1 .. Len(f) /\ f = [i \in 1 .. Len(f) |-> f[i]]
  BY DEF Tidy

LEMMA ListByPlace ==
  ASSUME NEW A, NEW g \in Seq(A), NEW n, Len(g) = n
  PROVE  g = [i \in 1 .. n |-> g[i]]
  OBVIOUS

LEMMA ListOf ==
  ASSUME NEW g, NEW n \in Nat, g = [i \in 1 .. n |-> g[i]]
  PROVE  g \in Seq(ToSet(g)) /\ Len(g) = n /\ DOMAIN g = 1 .. n
<1>1. \A i \in 1 .. n : g[i] \in ToSet(g)
  BY DEF ToSet
<1> QED BY <1>1

(* Sections that are changed where they are.                               *)
LEMMA Changed ==
  ASSUME NEW f, Tidy(f), NEW g, g = [i \in DOMAIN f |-> g[i]],
         \A i \in DOMAIN f : IsSection(g[i]) /\ g[i].typ = f[i].typ /\ Id(g[i]) = Id(f[i])
  PROVE  Tidy(g) /\ DOMAIN g = DOMAIN f
<1>1. Len(f) \in Nat /\ DOMAIN f = 1 .. Len(f)
  BY TidyList
<1>2. g \in Seq(ToSet(g)) /\ DOMAIN g = DOMAIN f
  BY <1>1, ListOf
<1>3. \A i, j \in DOMAIN g : Alike(g[i], g[j]) => Alike(f[i], f[j])
  BY <1>2 DEF Alike
<1>4. \A typ \in {"manager", "group"} : Typed(g, typ) = Typed(f, typ)
  BY <1>2 DEF Typed
<1> QED BY <1>2, <1>3, <1>4 DEF Tidy

(* Some are left out.                                                      *)
LEMMA KeptTidy ==
  ASSUME NEW f, Tidy(f), NEW I \in SUBSET DOMAIN f,
         \A typ \in {"manager", "group"} : Typed(f, typ) \subseteq I
  PROVE  Tidy(Kept(f, I)) /\ ToSet(Kept(f, I)) = {f[i] : i \in I}
<1> DEFINE g == Kept(f, I)
           n == Cardinality(I)
<1>1. f \in Seq(ToSet(f))
  BY DEF Tidy
<1>2. PICK at \in Bijection(1 .. n, I) : n \in Nat /\ g = [k \in 1 .. n |-> f[at[k]]]
  BY <1>1, KeptList
<1> HIDE DEF g, n
<1>3. g \in Seq(ToSet(g)) /\ DOMAIN g = 1 .. n
  <2>1. g = [k \in 1 .. n |-> g[k]]
    BY <1>2
  <2> QED BY <1>2, <2>1, ListOf
<1>4. /\ \A k \in 1 .. n : at[k] \in I /\ g[k] = f[at[k]]
      /\ \A k, l \in 1 .. n : at[k] = at[l] => k = l
      /\ \A i \in I : \E k \in 1 .. n : at[k] = i
  BY <1>2 DEF Bijection, Injection, IsInjective, Surjection
<1>5. ToSet(g) = {f[i] : i \in I}
  BY <1>3, <1>4 DEF ToSet
<1>6. \A k \in DOMAIN g : IsSection(g[k])
  BY <1>3, <1>4 DEF Tidy
<1>7. \A k, l \in DOMAIN g : Alike(g[k], g[l]) => k = l
  BY <1>3, <1>4 DEF Tidy
<1>8. \A typ \in {"manager", "group"} : Typed(g, typ) # {}
  <2>1. TAKE typ \in {"manager", "group"}
  <2>2. PICK i \in I : f[i].typ = typ
    BY DEF Tidy, Typed
  <2> QED BY <1>3, <1>4, <2>2 DEF Typed
<1> QED BY <1>3, <1>5, <1>6, <1>7, <1>8 DEF Tidy, g

(* One more.                                                               *)
LEMMA Appended ==
  ASSUME NEW f, Tidy(f), NEW sec, IsSection(sec), \A x \in ToSet(f) : ~Alike(x, sec)
  PROVE  Tidy(Append(f, sec)) /\ ToSet(Append(f, sec)) = ToSet(f) \cup {sec}
<1> DEFINE g == Append(f, sec)
<1>1. Len(f) \in Nat /\ DOMAIN f = 1 .. Len(f) /\ f \in Seq(ToSet(f))
  BY TidyList DEF Tidy
<1>2. g = [i \in 1 .. Len(f) + 1 |-> g[i]] /\ (\A i \in 1 .. Len(f) : g[i] = f[i]) /\ g[Len(f) + 1] = sec
  <2> DEFINE A == ToSet(f) \cup {sec}
  <2>1. f \in Seq(A) /\ sec \in A
    <3>1. \A i \in 1 .. Len(f) : f[i] \in A
      BY <1>1 DEF ToSet
    <3> QED BY <1>1, <3>1, TidyList
  <2> HIDE DEF A
  <2>2. g \in Seq(A) /\ Len(g) = Len(f) + 1
    BY <2>1
  <2>3. g = [i \in 1 .. Len(f) + 1 |-> g[i]]
    <3> HIDE DEF g
    <3> QED BY <2>2, ListByPlace
  <2> QED BY <1>1, <2>1, <2>3
<1> HIDE DEF g
<1>3. g \in Seq(ToSet(g)) /\ DOMAIN g = 1 .. Len(f) + 1
  <2>1. Len(f) + 1 \in Nat
    BY <1>1
  <2> QED BY <1>2, <2>1, ListOf
<1>4. \A i \in DOMAIN g : i \in DOMAIN f \/ i = Len(f) + 1
  BY <1>1, <1>3
<1>5. DOMAIN f \subseteq DOMAIN g /\ Len(f) + 1 \in DOMAIN g /\ Len(f) + 1 \notin DOMAIN f
  BY <1>1, <1>3
<1>6. ToSet(g) = ToSet(f) \cup {sec}
  BY <1>1, <1>2, <1>4, <1>5 DEF ToSet
<1>7. \A i \in DOMAIN g : IsSection(g[i])
  BY <1>1, <1>2, <1>4 DEF Tidy
<1>8. \A i, j \in DOMAIN g : Alike(g[i], g[j]) => i = j
  <2>1. \A i \in DOMAIN f : ~Alike(f[i], sec) /\ ~Alike(sec, f[i])
    BY DEF ToSet, Alike
  <2>2. \A i, j \in DOMAIN f : Alike(f[i], f[j]) => i = j
    BY DEF Tidy
  <2>3. /\ \A i \in DOMAIN f : i \in 1 .. Len(f) /\ g[i] = f[i]
        /\ g[Len(f) + 1] = sec
    BY <1>1, <1>2
  <2> QED BY <1>4, <2>1, <2>2, <2>3
<1>9. \A typ \in {"manager", "group"} : Typed(g, typ) # {}
  <2>1. \A i \in DOMAIN f : i \in DOMAIN g /\ g[i] = f[i]
    BY <1>1, <1>2, <1>5
  <2> QED BY <2>1 DEF Tidy, Typed
<1> QED BY <1>3, <1>6, <1>7, <1>8, <1>9 DEF Tidy, g

(* Upsert, with the places where the test holds.                           *)
Put(f, I, sec) ==
  LET i == IF I # {} THEN Min(I) ELSE 0 IN IF i = 0 THEN Append(f, sec) ELSE ReplaceAt(f, i, sec)

LEMMA PutTidy ==
  ASSUME NEW f, Tidy(f), NEW sec, IsSection(sec),
         NEW I, I = {i \in 1 .. Len(f) : Alike(f[i], sec)}
  PROVE  /\ Tidy(Put(f, I, sec))
         /\ ToSet(Put(f, I, sec)) = {x \in ToSet(f) : ~Alike(x, sec)} \cup {sec}
         /\ I = {} => \A x \in ToSet(f) : ~Alike(x, sec)
         /\ I # {} => Min(I) \in DOMAIN f /\ Min(I) # 0 /\ Alike(f[Min(I)], sec)
<1>1. Len(f) \in Nat /\ DOMAIN f = 1 .. Len(f)
  BY TidyList
<1>2. CASE I = {}
  <2>1. \A x \in ToSet(f) : ~Alike(x, sec)
    BY <1>1, <1>2 DEF ToSet
  <2>2. Put(f, I, sec) = Append(f, sec)
    BY <1>2 DEF Put
  <2>3. ToSet(f) = {x \in ToSet(f) : ~Alike(x, sec)}
    BY <2>1
  <2>4. Tidy(Append(f, sec)) /\ ToSet(Append(f, sec)) = ToSet(f) \cup {sec}
    BY <2>1, Appended
  <2> QED BY <1>2, <2>1, <2>2, <2>3, <2>4
<1>3. CASE I # {}
  <2>1. PICK i \in 1 .. Len(f) : I = {i} /\ Alike(f[i], sec)
    <3>1. \A i, j \in I : Alike(f[i], f[j])
      BY <1>1 DEF Alike
    <3>2. \A i, j \in I : i = j
      BY <1>1, <3>1 DEF Tidy
    <3>3. PICK i \in I : TRUE
      BY <1>3
    <3> QED BY <3>2, <3>3
  <2>2. Min(I) = i
    BY <1>1, <2>1 DEF Min
  <2> DEFINE g == ReplaceAt(f, i, sec)
  <2>3. Put(f, I, sec) = g
    BY <1>1, <1>3, <2>1, <2>2 DEF Put
  <2>4. DOMAIN g = DOMAIN f /\ g = [j \in DOMAIN f |-> g[j]] /\ g[i] = sec
        /\ \A j \in DOMAIN f : j # i => g[j] = f[j]
    BY <1>1, <2>1 DEF ReplaceAt
  <2> HIDE DEF g
  <2>5. g \in Seq(ToSet(g))
    BY <1>1, <2>4, ListOf
  <2>6. \A j \in DOMAIN f : IsSection(g[j])
    BY <2>4 DEF Tidy
  <2>7. \A j, k \in DOMAIN f : Alike(g[j], g[k]) => Alike(f[j], f[k])
    BY <2>1, <2>4 DEF Alike
  <2>8. \A typ \in {"manager", "group"} : Typed(g, typ) = Typed(f, typ)
    BY <2>1, <2>4 DEF Typed, Alike
  <2>9. Tidy(g)
    BY <2>4, <2>5, <2>6, <2>7, <2>8 DEF Tidy
  <2>10. \A j \in DOMAIN f : j # i => ~Alike(f[j], sec)
    BY <1>1, <2>1
  <2>11. ToSet(g) = {x \in ToSet(f) : ~Alike(x, sec)} \cup {sec}
    <3>1. \A x \in ToSet(g) : x = sec \/ (x \in ToSet(f) /\ ~Alike(x, sec))
      BY <2>4, <2>10 DEF ToSet
    <3>2. \A x \in ToSet(f) : ~Alike(x, sec) => x \in ToSet(g)
      BY <2>1, <2>4 DEF ToSet
    <3>3. sec \in ToSet(g)
      BY <1>1, <2>1, <2>4 DEF ToSet
    <3> QED BY <3>1, <3>2, <3>3
  <2>12. Min(I) \in DOMAIN f /\ Min(I) # 0 /\ Alike(f[Min(I)], sec)
    BY <1>1, <2>1, <2>2
  <2>13. Tidy(Put(f, I, sec)) /\ ToSet(Put(f, I, sec)) = {x \in ToSet(f) : ~Alike(x, sec)} \cup {sec}
    BY <2>3, <2>9, <2>11
  <2> QED BY <1>3, <2>12, <2>13
<1> QED BY <1>2, <1>3

(* A set of sections is added.                                             *)
LEMMA Added ==
  ASSUME NEW f, Tidy(f), NEW N, IsFiniteSet(N), \A x \in N : IsSection(x),
         \A x, y \in N : Alike(x, y) => x = y,
         \A x \in ToSet(f), y \in N : ~Alike(x, y)
  PROVE  Tidy(f \o SetToSeq(N)) /\ ToSet(f \o SetToSeq(N)) = ToSet(f) \cup N
<1> DEFINE m == Cardinality(N)
           l == SetToSeq(N)
           g == f \o l
           n == Len(f)
<1>1. n \in Nat /\ DOMAIN f = 1 .. n /\ f \in Seq(ToSet(f))
  BY TidyList DEF Tidy
<1>2. m \in Nat /\ l \in Bijection(1 .. m, N)
  BY ListedOnce
<1> HIDE DEF m, l
<1>3. /\ l \in [1 .. m -> N]
      /\ \A i, j \in 1 .. m : l[i] = l[j] => i = j
      /\ \A x \in N : \E i \in 1 .. m : l[i] = x
  BY <1>2 DEF Bijection, Injection, IsInjective, Surjection
<1>4. l \in Seq(N) /\ Len(l) = m
  BY <1>2, <1>3
<1>5. g = [i \in 1 .. n + m |-> g[i]] /\ (\A i \in 1 .. n : g[i] = f[i])
      /\ \A i \in n + 1 .. n + m : g[i] = l[i - n]
  <2> DEFINE A == ToSet(f) \cup N
  <2>1. f \in Seq(A) /\ l \in Seq(A)
    <3>1. (\A i \in 1 .. n : f[i] \in A) /\ \A i \in 1 .. m : l[i] \in A
      BY <1>1, <1>3 DEF ToSet
    <3> QED BY <1>1, <1>3, <1>4, <3>1, TidyList
  <2> HIDE DEF A
  <2>2. g \in Seq(A) /\ Len(g) = n + m
    BY <1>4, <2>1
  <2>3. g = [i \in 1 .. n + m |-> g[i]]
    <3> HIDE DEF g
    <3> QED BY <2>2, ListByPlace
  <2> QED BY <1>1, <1>2, <1>4, <2>1, <2>3
<1> HIDE DEF g, n
<1>6. g \in Seq(ToSet(g)) /\ DOMAIN g = 1 .. n + m
  <2>1. n + m \in Nat
    BY <1>1, <1>2
  <2> QED BY <1>5, <2>1, ListOf
<1>7. ASSUME NEW i \in DOMAIN g
      PROVE  \/ i \in DOMAIN f /\ g[i] = f[i]
             \/ i - n \in 1 .. m /\ g[i] = l[i - n]
  <2>1. i \in 1 .. n \/ (i \in n + 1 .. n + m /\ i - n \in 1 .. m)
    BY <1>1, <1>2, <1>6
  <2> QED BY <1>1, <1>5, <2>1
<1>8. \A i \in DOMAIN g : IsSection(g[i])
  BY <1>3, <1>7 DEF Tidy
<1>9. \A i, j \in DOMAIN g : Alike(g[i], g[j]) => i = j
  <2>1. TAKE i, j \in DOMAIN g
  <2>2. \A x \in N : \A k \in DOMAIN f : ~Alike(f[k], x) /\ ~Alike(x, f[k])
    BY DEF ToSet, Alike
  <2>3. CASE i \in DOMAIN f /\ g[i] = f[i]
    BY <1>3, <1>7, <2>2, <2>3 DEF Tidy
  <2>4. CASE i - n \in 1 .. m /\ g[i] = l[i - n]
    <3>1. CASE j \in DOMAIN f /\ g[j] = f[j]
      BY <1>3, <2>2, <2>4, <3>1
    <3>2. CASE j - n \in 1 .. m /\ g[j] = l[j - n]
      <4>1. Alike(g[i], g[j]) => i - n = j - n
        BY <1>3, <2>4, <3>2
      <4> QED BY <1>1, <1>2, <1>6, <4>1
    <3> QED BY <1>7, <3>1, <3>2
  <2> QED BY <1>7, <2>3, <2>4
<1>10. \A typ \in {"manager", "group"} : Typed(g, typ) # {}
  <2>1. \A i \in DOMAIN f : i \in DOMAIN g /\ g[i] = f[i]
    <3>1. \A i \in 1 .. n : i \in 1 .. n + m
      BY <1>1, <1>2
    <3> QED BY <1>1, <1>5, <1>6, <3>1
  <2> QED BY <2>1 DEF Tidy, Typed
<1>11. ToSet(g) = ToSet(f) \cup N
  <2>1. \A x \in ToSet(f) : x \in ToSet(g)
    <3>1. \A i \in 1 .. n : i \in 1 .. n + m
      BY <1>1, <1>2
    <3> QED BY <1>1, <1>5, <1>6, <3>1 DEF ToSet
  <2>2. \A x \in N : x \in ToSet(g)
    <3>1. TAKE x \in N
    <3>2. PICK i \in 1 .. m : l[i] = x
      BY <1>3
    <3>3. n + i \in 1 .. n + m /\ n + i \in n + 1 .. n + m /\ (n + i) - n = i
      BY <1>1, <1>2
    <3>4. n + i \in DOMAIN g /\ g[n + i] = x
      BY <1>5, <1>6, <3>2, <3>3
    <3> QED BY <3>4 DEF ToSet
  <2>3. \A x \in ToSet(g) : x \in ToSet(f) \cup N
    BY <1>3, <1>7 DEF ToSet
  <2> QED BY <2>1, <2>2, <2>3
<1> QED BY <1>6, <1>8, <1>9, <1>10, <1>11 DEF Tidy, g, l

-----------------------------------------------------------------------------
(* What the sections of a file show of the configuration.                  *)

LEMMA SectionTypes ==
  ASSUME NEW sec, IsSection(sec)
  PROVE  /\ sec.typ = "manager" => sec \in Managers
         /\ sec.typ = "group" => sec \in Groups
         /\ sec.typ = "subscription" => sec \in SubscriptionSections
         /\ sec.typ = "node" => sec \in NodeSections
         /\ sec.typ = "dns_server" => sec \in ServerSections
         /\ sec.typ \in {"dns_rule", "route_rule"} => sec \in RuleSections
         /\ sec.typ = "ruleset" => sec \in RuleSetSections
         /\ sec.typ \in {"transparent", "tun"} => sec \in Switches
<1>1. (sec \in Managers => sec.typ = "manager") /\ (sec \in Groups => sec.typ = "group")
  BY DEF Managers, Groups
<1>2. (sec \in SubscriptionSections => sec.typ = "subscription") /\ (sec \in ServerSections => sec.typ = "dns_server")
  BY DEF SubscriptionSections, ServerSections
<1>3. sec \in NodeSections => sec.typ = "node"
  BY DEF NodeSections, NodeSection
<1>4. sec \in RuleSections => sec.typ \in {"dns_rule", "route_rule"}
  BY DEF RuleSections
<1>5. sec \in RuleSetSections => sec.typ = "ruleset"
  BY DEF RuleSetSections
<1>6. sec \in Switches => sec.typ \in {"transparent", "tun"}
  BY DEF Switches
<1> QED BY <1>1, <1>2, <1>3, <1>4, <1>5, <1>6 DEF IsSection

(* The ids are the names, but for rule sets, where they are one of the two *)
(* keys that the edits look for.                                           *)
LEMMA IdIsName ==
  ASSUME NEW sec, sec.typ # "ruleset"
  PROVE  Id(sec) = sec.name
  BY DEF Id

LEMMA IdOfRuleSet ==
  ASSUME NEW sec \in RuleSetSections, NEW g \in RuleSets
  PROVE  /\ Id(sec) \in RuleSets
         /\ IsRuleSetSection(sec, g) <=> Id(sec) = g
<1>1. sec.typ = "ruleset" /\ {sec.name, sec.id} \cap RuleSets = {Id(sec)}
  BY DEF RuleSetSections
<1> QED BY <1>1 DEF IsRuleSetSection

LEMMA NamedSection ==
  ASSUME NEW sec, IsSection(sec)
  PROVE  /\ sec.typ = "manager" => sec.name = "main"
         /\ sec.typ = "group" => sec.name = "home"
         /\ sec.typ = "node" => sec.name \in Abstract!Nodes /\ sec = NodeSection(sec.name)
         /\ sec.typ = "subscription" => sec.name \in Subs
         /\ sec.typ = "dns_server" => sec.name \in Servers
         /\ sec.typ \in {"dns_rule", "route_rule"} =>
              sec.name \in DNSRules \cup RouteRules /\ sec.typ = RuleType(sec.name)
<1>1. sec.typ = "node" => sec.name \in Abstract!Nodes /\ sec = NodeSection(sec.name)
  BY SectionTypes DEF NodeSections, NodeSection
<1>2. sec.typ \in {"dns_rule", "route_rule"} =>
        sec.name \in DNSRules \cup RouteRules /\ sec.typ = RuleType(sec.name)
  BY SectionTypes DEF RuleSections
<1>3. /\ sec.typ = "manager" => sec.name = "main"
      /\ sec.typ = "group" => sec.name = "home"
      /\ sec.typ = "subscription" => sec.name \in Subs
      /\ sec.typ = "dns_server" => sec.name \in Servers
  BY SectionTypes DEF Managers, Groups, SubscriptionSections, ServerSections
<1> QED BY <1>1, <1>2, <1>3

(* In a set of sections: those of a type, the names of some, and for the   *)
(* sections of each type, what they say of the configuration.              *)
Of(S, typ) == {x \in S : x.typ = typ}
Called(S) == {x.name : x \in S}

ManagerShown(M, enabled, paused, mode) ==
  \A x \in M : enabled = x.enabled /\ paused = x.paused /\ mode = x.mode
GroupShown(G, members, selected, final) ==
  \A x \in G : members = ToSet(x.members) /\ selected = x.selected /\ final = x.final
SubsShown(U, subs, on) ==
  subs = Called(U) /\ on = Called({x \in U : x.on})
DatesShown(U, R, fresh, failed) ==
  /\ fresh = Called({x \in U : x.updated = "now"}) \cup {Id(x) : x \in {y \in R : y.updated = "now"}}
  /\ failed = Called({x \in U : x.error}) \cup {Id(x) : x \in {y \in R : y.error}}
RulesShown(D, E, rules) ==
  /\ rules = [r \in DNSRules \cup RouteRules |-> rules[r]]
  /\ \A x \in D \cup E : rules[x.name] = ReadRule(x)
  /\ \A r \in (DNSRules \cup RouteRules) \ Called(D \cup E) : rules[r] = None
SetsShown(R, rulesets) == rulesets = {Id(x) : x \in R}
SwitchShown(X, on) == on = \E x \in X : x.on

(* The sections S say c of the configuration.                              *)
Shows(S, c) ==
  /\ ManagerShown(Of(S, "manager"), c.enabled, c.paused, c.mode)
  /\ GroupShown(Of(S, "group"), c.members, c.selected, c.final)
  /\ SubsShown(Of(S, "subscription"), c.subs, c.on)
  /\ DatesShown(Of(S, "subscription"), Of(S, "ruleset"), c.fresh, c.failed)
  /\ c.nodes = Called(Of(S, "node"))
  /\ c.servers = Called(Of(S, "dns_server"))
  /\ RulesShown(Of(S, "dns_rule"), Of(S, "route_rule"), c.rules)
  /\ SetsShown(Of(S, "ruleset"), c.rulesets)
  /\ SwitchShown(Of(S, "transparent"), c.tproxy)
  /\ SwitchShown(Of(S, "tun"), c.tun)

Fields == {"enabled", "paused", "mode", "subs", "on", "fresh", "failed", "nodes", "members", "selected",
           "final", "servers", "rules", "rulesets", "tproxy", "tun"}
Whole(c) == c = [k \in Fields |-> c[k]]

(* A file shows one configuration.                                         *)
LEMMA ShowsOne ==
  ASSUME NEW f, Tidy(f), NEW c, NEW d, Whole(c), Whole(d), Shows(ToSet(f), c), Shows(ToSet(f), d)
  PROVE  c = d
<1> DEFINE S == ToSet(f)
<1>1. PICK x \in Of(S, "manager") : TRUE
  BY DEF Tidy, Typed, Of, ToSet
<1>2. PICK y \in Of(S, "group") : TRUE
  BY DEF Tidy, Typed, Of, ToSet
<1> HIDE DEF S
<1>3. c.enabled = d.enabled /\ c.paused = d.paused /\ c.mode = d.mode
  BY <1>1 DEF Shows, ManagerShown, S
<1>4. c.members = d.members /\ c.selected = d.selected /\ c.final = d.final
  BY <1>2 DEF Shows, GroupShown, S
<1>5. c.subs = d.subs /\ c.on = d.on /\ c.fresh = d.fresh /\ c.failed = d.failed
  BY DEF Shows, SubsShown, DatesShown
<1>6. c.nodes = d.nodes /\ c.servers = d.servers /\ c.rulesets = d.rulesets
  BY DEF Shows, SetsShown
<1>7. c.tproxy = d.tproxy /\ c.tun = d.tun
  BY DEF Shows, SwitchShown
<1>8. c.rules = d.rules
  <2> DEFINE D == Of(ToSet(f), "dns_rule")
             E == Of(ToSet(f), "route_rule")
             A == DNSRules \cup RouteRules
  <2>1. RulesShown(D, E, c.rules) /\ RulesShown(D, E, d.rules)
    BY DEF Shows
  <2> HIDE DEF D, E
  <2>2. \A r \in A : c.rules[r] = d.rules[r]
    BY <2>1 DEF RulesShown, Called
  <2>3. c.rules = [r \in A |-> c.rules[r]] /\ d.rules = [r \in A |-> d.rules[r]]
    BY <2>1 DEF RulesShown
  <2> HIDE DEF A
  <2> QED BY <2>2, <2>3
<1>9. \A k \in Fields : c[k] = d[k]
  BY <1>3, <1>4, <1>5, <1>6, <1>7, <1>8 DEF Fields
<1> QED BY <1>9 DEF Whole

(* The section that counts, where there is one.                            *)
LEMMA LastIs ==
  ASSUME NEW f, Tidy(f), NEW i \in DOMAIN f
  PROVE  LastOf(f, f[i].typ, Id(f[i])) = f[i]
<1> DEFINE typ == f[i].typ
           id == Id(f[i])
           Q(k) == Id(f[k]) = id /\ \A j \in Typed(f, typ) : Id(f[j]) = id => j <= k
<1>1. \A j \in Typed(f, typ) : Id(f[j]) = id => j = i
  BY DEF Typed, Tidy, Alike
<1>2. i \in Typed(f, typ) /\ Len(f) \in Nat /\ DOMAIN f = 1 .. Len(f)
  BY TidyList DEF Typed
<1>3. Q(i)
  BY <1>1, <1>2
<1>4. \A k \in Typed(f, typ) : Q(k) => k = i
  BY <1>1
<1> HIDE DEF Q
<1>5. (CHOOSE k \in Typed(f, typ) : Q(k)) = i
  BY <1>2, <1>3, <1>4
<1> QED BY <1>5 DEF LastOf, Q

LEMMA IdsAre ==
  ASSUME NEW f, NEW typ
  PROVE  Ids(f, typ) = {Id(x) : x \in Of(ToSet(f), typ)}
  BY DEF Ids, Typed, Of, ToSet

LEMMA NamesAre ==
  ASSUME NEW f, NEW typ, typ # "ruleset"
  PROVE  Ids(f, typ) = Called(Of(ToSet(f), typ))
<1>1. \A x \in Of(ToSet(f), typ) : Id(x) = x.name
  BY IdIsName DEF Of
<1> QED BY <1>1, IdsAre DEF Called

(* The last sections with the ids of a type are those of the type.         *)
LEMMA LastOfType ==
  ASSUME NEW f, Tidy(f), NEW typ
  PROVE  /\ \A x \in Of(ToSet(f), typ) : Id(x) \in Ids(f, typ) /\ LastOf(f, typ, Id(x)) = x
         /\ \A id \in Ids(f, typ) : LastOf(f, typ, id) \in Of(ToSet(f), typ) /\ Id(LastOf(f, typ, id)) = id
<1>1. \A x \in Of(ToSet(f), typ) : Id(x) \in Ids(f, typ) /\ LastOf(f, typ, Id(x)) = x
  <2>1. TAKE x \in Of(ToSet(f), typ)
  <2>2. PICK i \in DOMAIN f : f[i] = x /\ x.typ = typ
    BY DEF Of, ToSet
  <2> QED BY <2>1, <2>2, LastIs, IdsAre
<1> QED BY <1>1, IdsAre

LEMMA SwitchRead ==
  ASSUME NEW f, Tidy(f), NEW typ \in {"transparent", "tun"}
  PROVE  SwitchShown(Of(ToSet(f), typ), Enabled(f, typ))
<1>1. Len(f) \in Nat /\ DOMAIN f = 1 .. Len(f)
  BY TidyList
<1>2. \A i, j \in Typed(f, typ) : i = j
  BY DEF Tidy, Typed, Alike
<1>3. Enabled(f, typ) <=> \E i \in Typed(f, typ) : f[i].on
  <2>1. \A i \in Typed(f, typ) : \A j \in Typed(f, typ) : j <= i
    BY <1>1, <1>2 DEF Typed
  <2> QED BY <2>1 DEF Enabled
<1>4. (\E i \in Typed(f, typ) : f[i].on) <=> \E x \in Of(ToSet(f), typ) : x.on
  BY DEF Typed, Of, ToSet
<1> QED BY <1>3, <1>4 DEF SwitchShown, Enabled

(* What applySections reads is what the sections show.                     *)
LEMMA ReadShows ==
  ASSUME NEW f, Tidy(f)
  PROVE  Whole(Read(f)) /\ Shows(ToSet(f), Read(f))
<1> DEFINE S == ToSet(f)
           c == Read(f)
           manager == LastOf(f, "manager", "main")
           group == LastOf(f, "group", "home")
           Sub(s) == LastOf(f, "subscription", s)
           Set(g) == LastOf(f, "ruleset", g)
           subs == Ids(f, "subscription")
           sets == Ids(f, "ruleset")
           U == Of(S, "subscription")
           R == Of(S, "ruleset")
           D == Of(S, "dns_rule")
           E == Of(S, "route_rule")
<1>1. \A x \in S : IsSection(x)
  BY DEF Tidy, ToSet
<1>2. Whole(c)
  BY DEF Read, Whole, Fields
<1>3. /\ c.enabled = manager.enabled /\ c.paused = manager.paused /\ c.mode = manager.mode
      /\ c.subs = subs /\ c.on = {s \in subs : Sub(s).on}
      /\ c.nodes = {ReadNode(LastOf(f, "node", n)) : n \in Ids(f, "node")}
      /\ c.members = ToSet(group.members) /\ c.selected = group.selected /\ c.final = group.final
      /\ c.servers = Ids(f, "dns_server") /\ c.rulesets = sets
  BY DEF Read
<1>4. /\ c.fresh = {s \in subs : Sub(s).updated = "now"} \cup {g \in sets : Set(g).updated = "now"}
      /\ c.failed = {s \in subs : Sub(s).error} \cup {g \in sets : Set(g).error}
  BY DEF Read
<1>5. c.rules = [r \in DNSRules \cup RouteRules |->
                   IF r \in Ids(f, RuleType(r)) THEN ReadRule(LastOf(f, RuleType(r), r)) ELSE None]
  BY DEF Read
<1>6. c.tproxy = Enabled(f, "transparent") /\ c.tun = Enabled(f, "tun")
  BY DEF Read
<1> HIDE DEF c
<1>7. ManagerShown(Of(S, "manager"), c.enabled, c.paused, c.mode)
  <2>1. \A x \in Of(S, "manager") : x = manager
    <3>1. \A x \in Of(S, "manager") : Id(x) = "main"
      BY <1>1, NamedSection, IdIsName DEF Of
    <3> QED BY <3>1, LastOfType
  <2> QED BY <1>3, <2>1 DEF ManagerShown
<1>8. GroupShown(Of(S, "group"), c.members, c.selected, c.final)
  <2>1. \A x \in Of(S, "group") : x = group
    <3>1. \A x \in Of(S, "group") : Id(x) = "home"
      BY <1>1, NamedSection, IdIsName DEF Of
    <3> QED BY <3>1, LastOfType
  <2> QED BY <1>3, <2>1 DEF GroupShown
<1>9. \A x \in U : x.name \in subs /\ Sub(x.name) = x
  <2>1. \A x \in U : Id(x) = x.name
    BY IdIsName DEF Of
  <2> QED BY <2>1, LastOfType
<1>10. \A s \in subs : Sub(s) \in U /\ Sub(s).name = s
  <2>1. \A s \in subs : Sub(s) \in U /\ Id(Sub(s)) = s
    BY LastOfType
  <2>2. \A x \in U : Id(x) = x.name
    BY IdIsName DEF Of
  <2> QED BY <2>1, <2>2
<1>11. \A x \in R : Id(x) \in sets /\ Set(Id(x)) = x
  BY LastOfType
<1>12. \A g \in sets : Set(g) \in R /\ Id(Set(g)) = g
  BY LastOfType
<1> HIDE DEF U, R, D, E, S, Sub, Set, subs, sets
<1>13. SubsShown(U, c.subs, c.on)
  <2>1. c.subs = Called(U)
    BY <1>3, <1>9, <1>10 DEF Called
  <2>2. {s \in subs : Sub(s).on} = Called({x \in U : x.on})
    BY <1>9, <1>10 DEF Called
  <2> QED BY <1>3, <2>1, <2>2 DEF SubsShown
<1>14. DatesShown(U, R, c.fresh, c.failed)
  <2>1. {s \in subs : Sub(s).updated = "now"} = Called({x \in U : x.updated = "now"})
    BY <1>9, <1>10 DEF Called
  <2>2. {g \in sets : Set(g).updated = "now"} = {Id(x) : x \in {y \in R : y.updated = "now"}}
    BY <1>11, <1>12
  <2>3. {s \in subs : Sub(s).error} = Called({x \in U : x.error})
    BY <1>9, <1>10 DEF Called
  <2>4. {g \in sets : Set(g).error} = {Id(x) : x \in {y \in R : y.error}}
    BY <1>11, <1>12
  <2> QED BY <1>4, <2>1, <2>2, <2>3, <2>4 DEF DatesShown
<1>15. c.nodes = Called(Of(S, "node"))
  <2>1. Ids(f, "node") = Called(Of(S, "node"))
    BY NamesAre DEF S
  <2>2. \A n \in Ids(f, "node") : LastOf(f, "node", n) \in Of(S, "node") /\ Id(LastOf(f, "node", n)) = n
    BY LastOfType DEF S
  <2>3. \A x \in Of(S, "node") : Id(x) = x.name /\ ReadNode(x) = x.name
    <3>1. TAKE x \in Of(S, "node")
    <3>2. x.typ = "node" /\ x.name \in Abstract!Nodes /\ x = NodeSection(x.name)
      BY <1>1, NamedSection DEF Of
    <3>3. ReadNode(x) = x.name
      <4>1. x.name = <<x.name[1], x.name[2]>> /\ x.name[1] \in Subs \cup {Manual}
        BY <3>2 DEF Abstract!Nodes
      <4>2. x.from = IF x.name[1] = Manual THEN None ELSE x.name[1]
        BY <3>2 DEF NodeSection
      <4> QED BY <4>1, <4>2, SectionConstants DEF ReadNode
    <3> QED BY <3>2, <3>3, IdIsName
  <2>4. \A n \in Ids(f, "node") : ReadNode(LastOf(f, "node", n)) = n
    BY <2>2, <2>3
  <2> QED BY <1>3, <2>1, <2>4
<1>16. c.servers = Called(Of(S, "dns_server"))
  BY <1>3, NamesAre DEF S
<1>17. RulesShown(D, E, c.rules)
  <2> DEFINE A == DNSRules \cup RouteRules
  <2>1. c.rules = [r \in A |-> c.rules[r]]
    BY <1>5
  <2>2. ASSUME NEW x \in D \cup E
        PROVE  c.rules[x.name] = ReadRule(x)
    <3>1. x \in S /\ x.typ \in {"dns_rule", "route_rule"}
      BY DEF D, E, Of
    <3>2. x.name \in A /\ x.typ = RuleType(x.name) /\ Id(x) = x.name
      BY <1>1, <3>1, NamedSection, IdIsName
    <3>3. x.name \in Ids(f, RuleType(x.name)) /\ LastOf(f, RuleType(x.name), x.name) = x
      BY <3>1, <3>2, LastOfType DEF Of, S
    <3> QED BY <1>5, <3>2, <3>3
  <2>3. ASSUME NEW r \in A, r \notin Called(D \cup E)
        PROVE  c.rules[r] = None
    <3>1. RuleType(r) \in {"dns_rule", "route_rule"}
      BY DEF RuleType
    <3>2. r \notin Ids(f, RuleType(r))
      BY <2>3, <3>1, NamesAre DEF Called, D, E, S
    <3> QED BY <1>5, <3>2
  <2> QED BY <2>1, <2>2, <2>3 DEF RulesShown
<1>18. SetsShown(R, c.rulesets)
  BY <1>3, <1>11, <1>12 DEF SetsShown
<1>19. SwitchShown(Of(S, "transparent"), c.tproxy) /\ SwitchShown(Of(S, "tun"), c.tun)
  BY <1>6, SwitchRead DEF S
<1> QED BY <1>2, <1>7, <1>8, <1>13, <1>14, <1>15, <1>16, <1>17, <1>18, <1>19
        DEF Shows, c, S, U, R, D, E

-----------------------------------------------------------------------------
(* What becomes of the configuration when sections of some types change.   *)

(* The file g is tidy and shows the configuration d.                       *)
Implements(g, d) == Tidy(g) /\ Whole(d) /\ Shows(ToSet(g), d)

(* d is c but for the fields in K.                                         *)
Agree(c, d, K) == Whole(d) /\ \A k \in Fields \ K : d[k] = c[k]

(* Sections that change where they are keep their type.                    *)
LEMMA SectionsOf ==
  ASSUME NEW f, NEW g, DOMAIN g = DOMAIN f, \A i \in DOMAIN f : g[i].typ = f[i].typ, NEW typ
  PROVE  /\ Of(ToSet(f), typ) = {f[i] : i \in Typed(f, typ)}
         /\ Of(ToSet(g), typ) = {g[i] : i \in Typed(f, typ)}
         /\ (\A i \in Typed(f, typ) : g[i] = f[i]) => Of(ToSet(g), typ) = Of(ToSet(f), typ)
<1>1. Of(ToSet(f), typ) = {f[i] : i \in Typed(f, typ)}
  BY DEF Of, ToSet, Typed
<1>2. Of(ToSet(g), typ) = {g[i] : i \in Typed(f, typ)}
  BY DEF Of, ToSet, Typed
<1> QED BY <1>1, <1>2

LEMMA ManagerChanged ==
  ASSUME NEW f, Tidy(f), NEW c, Shows(ToSet(f), c), NEW g, g = [i \in DOMAIN f |-> g[i]],
         NEW d, Agree(c, d, {"enabled", "paused", "mode"}),
         \A i \in DOMAIN f : f[i].typ # "manager" => g[i] = f[i],
         \A i \in DOMAIN f : f[i].typ = "manager" =>
           /\ g[i] \in Managers
           /\ g[i].enabled = d.enabled /\ g[i].paused = d.paused /\ g[i].mode = d.mode
  PROVE  Implements(g, d)
<1>1. \A i \in DOMAIN f : IsSection(f[i])
  BY DEF Tidy
<1>2. \A i \in DOMAIN f : IsSection(g[i]) /\ g[i].typ = f[i].typ /\ Id(g[i]) = Id(f[i])
  <2>1. TAKE i \in DOMAIN f
  <2>2. CASE f[i].typ = "manager"
    <3>1. f[i] \in Managers /\ g[i] \in Managers
      BY <1>1, <2>2, SectionTypes
    <3>2. \A x \in Managers : IsSection(x) /\ x.typ = "manager" /\ Id(x) = "main"
      BY DEF IsSection, Managers, Id
    <3> QED BY <3>1, <3>2
  <2> QED BY <1>1, <2>2
<1>3. Tidy(g) /\ DOMAIN g = DOMAIN f
  BY <1>2, Changed
<1>4. \A typ : typ # "manager" => Of(ToSet(g), typ) = Of(ToSet(f), typ)
  BY <1>2, <1>3, SectionsOf DEF Typed
<1>5. ManagerShown(Of(ToSet(g), "manager"), d.enabled, d.paused, d.mode)
  BY <1>2, <1>3, SectionsOf DEF Typed, ManagerShown
<1>6. \A k \in Fields \ {"enabled", "paused", "mode"} : d[k] = c[k]
  BY DEF Agree
<1> QED BY <1>3, <1>4, <1>5, <1>6 DEF Implements, Shows, Agree, Fields

(* g is f but for the group, which is that of d.                           *)
OtherGroup(f, g, d) ==
  /\ g = [i \in DOMAIN f |-> g[i]]
  /\ \A i \in DOMAIN f : f[i].typ # "group" => g[i] = f[i]
  /\ \A i \in DOMAIN f : f[i].typ = "group" =>
       /\ g[i] \in Groups
       /\ ToSet(g[i].members) = d.members /\ g[i].selected = d.selected /\ g[i].final = d.final

LEMMA GroupChanged ==
  ASSUME NEW f, Tidy(f), NEW c, Shows(ToSet(f), c), NEW g, NEW d, OtherGroup(f, g, d),
         Agree(c, d, {"members", "selected", "final"})
  PROVE  Implements(g, d)
<1>0. /\ g = [i \in DOMAIN f |-> g[i]]
      /\ \A i \in DOMAIN f : f[i].typ # "group" => g[i] = f[i]
      /\ \A i \in DOMAIN f : f[i].typ = "group" =>
           /\ g[i] \in Groups
           /\ ToSet(g[i].members) = d.members /\ g[i].selected = d.selected /\ g[i].final = d.final
  BY DEF OtherGroup
<1>1. \A i \in DOMAIN f : IsSection(f[i])
  BY DEF Tidy
<1>2. \A i \in DOMAIN f : IsSection(g[i]) /\ g[i].typ = f[i].typ /\ Id(g[i]) = Id(f[i])
  <2>1. TAKE i \in DOMAIN f
  <2>2. CASE f[i].typ = "group"
    <3>1. f[i] \in Groups /\ g[i] \in Groups
      BY <1>0, <1>1, <2>2, SectionTypes
    <3>2. \A x \in Groups : IsSection(x) /\ x.typ = "group" /\ Id(x) = "home"
      BY DEF IsSection, Groups, Id
    <3> QED BY <3>1, <3>2
  <2> QED BY <1>0, <1>1, <2>2
<1>3. Tidy(g) /\ DOMAIN g = DOMAIN f
  BY <1>0, <1>2, Changed
<1>4. \A typ : typ # "group" => Of(ToSet(g), typ) = Of(ToSet(f), typ)
  BY <1>0, <1>2, <1>3, SectionsOf DEF Typed
<1>5. GroupShown(Of(ToSet(g), "group"), d.members, d.selected, d.final)
  BY <1>0, <1>2, <1>3, SectionsOf DEF Typed, GroupShown
<1>6. \A k \in Fields \ {"members", "selected", "final"} : d[k] = c[k]
  BY DEF Agree
<1> QED BY <1>3, <1>4, <1>5, <1>6 DEF Implements, Shows, Agree, Fields

(* The dates and errors of subscriptions, and of rule sets.                *)
(* g is f but for when the subscriptions were updated, and their errors.   *)
OtherDates(f, g) ==
  /\ g = [i \in DOMAIN f |-> g[i]]
  /\ \A i \in DOMAIN f : f[i].typ # "subscription" => g[i] = f[i]
  /\ \A i \in DOMAIN f : f[i].typ = "subscription" =>
       g[i] \in SubscriptionSections /\ g[i].name = f[i].name /\ g[i].on = f[i].on

LEMMA SubscriptionsMarked ==
  ASSUME NEW f, Tidy(f), NEW c, Shows(ToSet(f), c), NEW g, OtherDates(f, g),
         NEW d, Agree(c, d, {"fresh", "failed"}),
         DatesShown(Of(ToSet(g), "subscription"), Of(ToSet(f), "ruleset"), d.fresh, d.failed)
  PROVE  Implements(g, d)
<1>0. /\ g = [i \in DOMAIN f |-> g[i]]
      /\ \A i \in DOMAIN f : f[i].typ # "subscription" => g[i] = f[i]
      /\ \A i \in DOMAIN f : f[i].typ = "subscription" =>
           g[i] \in SubscriptionSections /\ g[i].name = f[i].name /\ g[i].on = f[i].on
  BY DEF OtherDates
<1>1. \A i \in DOMAIN f : IsSection(f[i])
  BY DEF Tidy
<1>2. \A i \in DOMAIN f : IsSection(g[i]) /\ g[i].typ = f[i].typ /\ Id(g[i]) = Id(f[i])
  <2>1. TAKE i \in DOMAIN f
  <2>2. CASE f[i].typ = "subscription"
    <3>1. \A x \in SubscriptionSections : IsSection(x) /\ x.typ = "subscription" /\ Id(x) = x.name
      BY DEF IsSection, SubscriptionSections, Id
    <3>2. f[i] \in SubscriptionSections
      BY <1>1, <2>2, SectionTypes
    <3> QED BY <1>0, <2>2, <3>1, <3>2
  <2> QED BY <1>0, <1>1, <2>2
<1>3. Tidy(g) /\ DOMAIN g = DOMAIN f
  BY <1>0, <1>2, Changed
<1>4. \A typ : typ # "subscription" => Of(ToSet(g), typ) = Of(ToSet(f), typ)
  BY <1>0, <1>2, <1>3, SectionsOf DEF Typed
<1>5. SubsShown(Of(ToSet(g), "subscription"), c.subs, c.on)
  <2> DEFINE I == Typed(f, "subscription")
             U == {f[i] : i \in I}
             V == {g[i] : i \in I}
  <2>1. Of(ToSet(f), "subscription") = U /\ Of(ToSet(g), "subscription") = V
    BY <1>2, <1>3, SectionsOf
  <2>2. \A i \in I : g[i].name = f[i].name /\ g[i].on = f[i].on
    BY <1>0 DEF Typed
  <2>3. Called(V) = Called(U) /\ Called({x \in V : x.on}) = Called({x \in U : x.on})
    <3> HIDE DEF I
    <3> QED BY <2>2 DEF Called
  <2> QED BY <2>1, <2>3 DEF Shows, SubsShown
<1>6. \A k \in Fields \ {"fresh", "failed"} : d[k] = c[k]
  BY DEF Agree
<1> QED BY <1>3, <1>4, <1>5, <1>6 DEF Implements, Shows, Agree, Fields

(* The same of the rule sets.                                              *)
OtherSetDates(f, g) ==
  /\ g = [i \in DOMAIN f |-> g[i]]
  /\ \A i \in DOMAIN f : f[i].typ # "ruleset" => g[i] = f[i]
  /\ \A i \in DOMAIN f : f[i].typ = "ruleset" => g[i] \in RuleSetSections /\ Id(g[i]) = Id(f[i])

LEMMA RuleSetsMarked ==
  ASSUME NEW f, Tidy(f), NEW c, Shows(ToSet(f), c), NEW g, OtherSetDates(f, g),
         NEW d, Agree(c, d, {"fresh", "failed"}),
         DatesShown(Of(ToSet(f), "subscription"), Of(ToSet(g), "ruleset"), d.fresh, d.failed)
  PROVE  Implements(g, d)
<1>0. /\ g = [i \in DOMAIN f |-> g[i]]
      /\ \A i \in DOMAIN f : f[i].typ # "ruleset" => g[i] = f[i]
      /\ \A i \in DOMAIN f : f[i].typ = "ruleset" => g[i] \in RuleSetSections /\ Id(g[i]) = Id(f[i])
  BY DEF OtherSetDates
<1>1. \A i \in DOMAIN f : IsSection(f[i])
  BY DEF Tidy
<1>2. \A i \in DOMAIN f : IsSection(g[i]) /\ g[i].typ = f[i].typ /\ Id(g[i]) = Id(f[i])
  <2>1. TAKE i \in DOMAIN f
  <2>2. CASE f[i].typ = "ruleset"
    <3>1. \A x \in RuleSetSections : IsSection(x) /\ x.typ = "ruleset"
      BY DEF IsSection, RuleSetSections
    <3> QED BY <1>0, <2>2, <3>1
  <2> QED BY <1>0, <1>1, <2>2
<1>3. Tidy(g) /\ DOMAIN g = DOMAIN f
  BY <1>0, <1>2, Changed
<1>4. \A typ : typ # "ruleset" => Of(ToSet(g), typ) = Of(ToSet(f), typ)
  BY <1>0, <1>2, <1>3, SectionsOf DEF Typed
<1>5. SetsShown(Of(ToSet(g), "ruleset"), c.rulesets)
  <2> DEFINE I == Typed(f, "ruleset")
  <2>1. Of(ToSet(f), "ruleset") = {f[i] : i \in I} /\ Of(ToSet(g), "ruleset") = {g[i] : i \in I}
    BY <1>2, <1>3, SectionsOf
  <2>2. \A i \in I : Id(g[i]) = Id(f[i])
    BY <1>0 DEF Typed
  <2>3. {Id(x) : x \in {g[i] : i \in I}} = {Id(x) : x \in {f[i] : i \in I}}
    <3> HIDE DEF I
    <3> QED BY <2>2
  <2> QED BY <2>1, <2>3 DEF Shows, SetsShown
<1>6. \A k \in Fields \ {"fresh", "failed"} : d[k] = c[k]
  BY DEF Agree
<1> QED BY <1>3, <1>4, <1>5, <1>6 DEF Implements, Shows, Agree, Fields

(* The section of the manager, and that of the group.                      *)
LEMMA ManagerSection ==
  ASSUME NEW f, Tidy(f), NEW c, Shows(ToSet(f), c), NEW i \in DOMAIN f
  PROVE  /\ Is(f[i], "manager", "main") <=> f[i].typ = "manager"
         /\ f[i].typ = "manager" =>
              /\ f[i] \in Managers
              /\ f[i].enabled = c.enabled /\ f[i].paused = c.paused /\ f[i].mode = c.mode
<1>1. IsSection(f[i])
  BY DEF Tidy
<1>2. f[i].typ = "manager" => f[i] \in Managers /\ f[i].name = "main"
  BY <1>1, SectionTypes, NamedSection
<1>3. f[i].typ = "manager" => f[i] \in Of(ToSet(f), "manager")
  BY DEF Of, ToSet
<1> QED BY <1>2, <1>3 DEF Is, Shows, ManagerShown

LEMMA GroupSection ==
  ASSUME NEW f, Tidy(f), NEW c, Shows(ToSet(f), c), NEW i \in DOMAIN f
  PROVE  /\ Is(f[i], "group", "home") <=> f[i].typ = "group"
         /\ f[i].typ = "group" =>
              /\ f[i] \in Groups
              /\ ToSet(f[i].members) = c.members /\ f[i].selected = c.selected /\ f[i].final = c.final
<1>1. IsSection(f[i])
  BY DEF Tidy
<1>2. f[i].typ = "group" => f[i] \in Groups /\ f[i].name = "home"
  BY <1>1, SectionTypes, NamedSection
<1>3. f[i].typ = "group" => f[i] \in Of(ToSet(f), "group")
  BY DEF Of, ToSet
<1> QED BY <1>2, <1>3 DEF Is, Shows, GroupShown

-----------------------------------------------------------------------------
(* Each edit: the manager section and the traffic settings.                *)

LEMMA SetManagerEnabledRight ==
  ASSUME NEW f, Tidy(f), NEW c, Whole(c), Shows(ToSet(f), c), NEW b \in BOOLEAN
  PROVE  Implements(SetManagerEnabled(f, b), Abstract!SetManagerEnabled(c, b))
<1> DEFINE g == SetManagerEnabled(f, b)
           d == Abstract!SetManagerEnabled(c, b)
<1>1. g = [i \in DOMAIN f |-> IF Is(f[i], "manager", "main") THEN [f[i] EXCEPT !.enabled = b] ELSE f[i]]
  BY DEF SetManagerEnabled, ChangeManager, Change
<1>2. Agree(c, d, {"enabled", "paused", "mode"}) /\ d.enabled = b /\ d.paused = c.paused /\ d.mode = c.mode
  BY DEF Abstract!SetManagerEnabled, Agree, Whole, Fields
<1> HIDE DEF g, d
<1>3. \A i \in DOMAIN f : f[i].typ = "manager" =>
        /\ g[i] \in Managers
        /\ g[i].enabled = b /\ g[i].paused = c.paused /\ g[i].mode = c.mode
  BY <1>1, ManagerSection DEF Managers
<1>4. \A i \in DOMAIN f : f[i].typ # "manager" => g[i] = f[i]
  BY <1>1, ManagerSection
<1>5. g = [i \in DOMAIN f |-> g[i]]
  BY <1>1
<1>6. Implements(g, d)
  BY <1>2, <1>3, <1>4, <1>5, ManagerChanged
<1> QED BY <1>6 DEF g, d

LEMMA SetManagerPausedRight ==
  ASSUME NEW f, Tidy(f), NEW c, Whole(c), Shows(ToSet(f), c), NEW b \in BOOLEAN
  PROVE  Implements(SetManagerPaused(f, b), Abstract!SetManagerPaused(c, b))
<1> DEFINE g == SetManagerPaused(f, b)
           d == Abstract!SetManagerPaused(c, b)
<1>1. g = [i \in DOMAIN f |-> IF Is(f[i], "manager", "main") THEN [f[i] EXCEPT !.paused = b] ELSE f[i]]
  BY DEF SetManagerPaused, ChangeManager, Change
<1>2. Agree(c, d, {"enabled", "paused", "mode"}) /\ d.enabled = c.enabled /\ d.paused = b /\ d.mode = c.mode
  BY DEF Abstract!SetManagerPaused, Agree, Whole, Fields
<1> HIDE DEF g, d
<1>3. \A i \in DOMAIN f : f[i].typ = "manager" =>
        /\ g[i] \in Managers
        /\ g[i].enabled = c.enabled /\ g[i].paused = b /\ g[i].mode = c.mode
  BY <1>1, ManagerSection DEF Managers
<1>4. \A i \in DOMAIN f : f[i].typ # "manager" => g[i] = f[i]
  BY <1>1, ManagerSection
<1>5. g = [i \in DOMAIN f |-> g[i]]
  BY <1>1
<1>6. Implements(g, d)
  BY <1>2, <1>3, <1>4, <1>5, ManagerChanged
<1> QED BY <1>6 DEF g, d

LEMMA SetManagerRuntimeModeRight ==
  ASSUME NEW f, Tidy(f), NEW c, Whole(c), Shows(ToSet(f), c), NEW m \in {"direct", "rule", "global"}
  PROVE  Implements(SetManagerRuntimeMode(f, m), Abstract!SetManagerRuntimeMode(c, m))
<1> DEFINE g == SetManagerRuntimeMode(f, m)
           d == Abstract!SetManagerRuntimeMode(c, m)
<1>1. g = [i \in DOMAIN f |-> IF Is(f[i], "manager", "main") THEN [f[i] EXCEPT !.mode = m] ELSE f[i]]
  BY DEF SetManagerRuntimeMode, ChangeManager, Change
<1>2. Agree(c, d, {"enabled", "paused", "mode"}) /\ d.enabled = c.enabled /\ d.paused = c.paused /\ d.mode = m
  BY DEF Abstract!SetManagerRuntimeMode, Agree, Whole, Fields
<1> HIDE DEF g, d
<1>3. \A i \in DOMAIN f : f[i].typ = "manager" =>
        /\ g[i] \in Managers
        /\ g[i].enabled = c.enabled /\ g[i].paused = c.paused /\ g[i].mode = m
  BY <1>1, ManagerSection DEF Managers
<1>4. \A i \in DOMAIN f : f[i].typ # "manager" => g[i] = f[i]
  BY <1>1, ManagerSection
<1>5. g = [i \in DOMAIN f |-> g[i]]
  BY <1>1
<1>6. Implements(g, d)
  BY <1>2, <1>3, <1>4, <1>5, ManagerChanged
<1> QED BY <1>6 DEF g, d

LEMMA UpsertTransparentRight ==
  ASSUME NEW f, Tidy(f), NEW c, Whole(c), Shows(ToSet(f), c), NEW b \in BOOLEAN
  PROVE  Implements(UpsertTransparent(f, b), Abstract!UpsertTransparent(c, b))
<1> DEFINE I == {i \in DOMAIN f : f[i].typ # "transparent"}
           rest == Kept(f, I)
           sec == [typ |-> "transparent", name |-> "transparent", on |-> b]
           d == Abstract!UpsertTransparent(c, b)
           T == {f[i] : i \in I} \cup {sec}
<1>1. UpsertTransparent(f, b) = Append(rest, sec)
  BY DEF UpsertTransparent, Drop
<1>2. Tidy(rest) /\ ToSet(rest) = {f[i] : i \in I}
  BY KeptTidy DEF Typed
<1>3. IsSection(sec) /\ sec.typ = "transparent" /\ sec.on = b
  BY DEF IsSection, Switches
<1>4. \A i \in I : ~Alike(f[i], sec)
  BY DEF Alike
<1> HIDE DEF sec, rest
<1>5. Tidy(Append(rest, sec)) /\ ToSet(Append(rest, sec)) = T
  BY <1>2, <1>3, <1>4, Appended
<1>6. Agree(c, d, {"tproxy"}) /\ d.tproxy = b
  BY DEF Abstract!UpsertTransparent, Agree, Whole, Fields
<1>7. \A typ : typ # "transparent" => Of(T, typ) = Of(ToSet(f), typ)
  BY <1>3 DEF Of, ToSet
<1>8. Of(T, "transparent") = {sec}
  BY <1>3 DEF Of
<1>9. SwitchShown(Of(T, "transparent"), d.tproxy)
  BY <1>3, <1>6, <1>8 DEF SwitchShown
<1> HIDE DEF T, d
<1>10. Shows(T, d)
  BY <1>6, <1>7, <1>9 DEF Shows, Agree, Fields
<1> QED BY <1>1, <1>5, <1>6, <1>10 DEF Implements, Agree, d

LEMMA UpsertTUNRight ==
  ASSUME NEW f, Tidy(f), NEW c, Whole(c), Shows(ToSet(f), c), NEW b \in BOOLEAN
  PROVE  Implements(UpsertTUN(f, b), Abstract!UpsertTUN(c, b))
<1> DEFINE I == {i \in 1 .. Len(f) : f[i].typ = "tun"}
           at == IF I # {} THEN Min(I) ELSE 0
           sec == [typ |-> "tun", name |-> IF at = 0 THEN "tun" ELSE f[at].name, on |-> b]
           g == UpsertTUN(f, b)
           d == Abstract!UpsertTUN(c, b)
           T == {x \in ToSet(f) : ~Alike(x, sec)} \cup {sec}
<1>1. g = Put(f, I, sec)
  BY DEF UpsertTUN, Upsert, SelectInSeq, Put
<1>2. at = 0 \/ (at \in DOMAIN f /\ f[at].typ = "tun")
  <2>1. Len(f) \in Nat /\ DOMAIN f = 1 .. Len(f)
    BY TidyList
  <2>2. ASSUME I # {}
        PROVE  Min(I) \in I
    <3>1. PICK i \in I : TRUE
      BY <2>2
    <3>2. \A j \in I : j = i
      BY <2>1 DEF Tidy, Alike
    <3> QED BY <2>1, <3>1, <3>2 DEF Min
  <2> QED BY <2>1, <2>2
<1>3. IsSection(sec) /\ sec.typ = "tun" /\ sec.on = b
  <2>1. at # 0 => f[at].name \in {"main", "transparent", "tun"}
    BY <1>2, SectionTypes DEF Tidy, Switches
  <2> HIDE DEF at
  <2> QED BY <2>1 DEF IsSection, Switches
<1> HIDE DEF sec, g
<1>4. I = {i \in 1 .. Len(f) : Alike(f[i], sec)}
  BY <1>3 DEF Alike
<1>5. Tidy(g) /\ ToSet(g) = T
  BY <1>1, <1>3, <1>4, PutTidy
<1>6. Agree(c, d, {"tun"}) /\ d.tun = b
  BY DEF Abstract!UpsertTUN, Agree, Whole, Fields
<1>7. (\A typ : typ # "tun" => Of(T, typ) = Of(ToSet(f), typ)) /\ Of(T, "tun") = {sec}
  BY <1>3 DEF Of, Alike
<1>8. SwitchShown(Of(T, "tun"), d.tun)
  BY <1>3, <1>6, <1>7 DEF SwitchShown
<1> HIDE DEF T, d
<1>9. Shows(T, d)
  BY <1>6, <1>7, <1>8 DEF Shows, Agree, Fields
<1> QED BY <1>5, <1>6, <1>9 DEF Implements, Agree, d, g


-----------------------------------------------------------------------------
(* Each edit: the group, and what is put in.                               *)

(* What is left of a list of names, and what it has with one more.         *)
LEMMA KeptSet ==
  ASSUME NEW A, NEW s \in Seq(A), NEW I \in SUBSET DOMAIN s
  PROVE  Kept(s, I) \in Seq(A) /\ ToSet(Kept(s, I)) = {s[i] : i \in I}
<1> DEFINE n == Cardinality(I)
           g == Kept(s, I)
<1>1. PICK at \in Bijection(1 .. n, I) : n \in Nat /\ g = [k \in 1 .. n |-> s[at[k]]]
  BY KeptList
<1> HIDE DEF g, n
<1>2. (\A k \in 1 .. n : at[k] \in I) /\ \A i \in I : \E k \in 1 .. n : at[k] = i
  BY <1>1 DEF Bijection, Injection, IsInjective, Surjection
<1>3. \A k \in 1 .. n : g[k] \in A /\ g[k] = s[at[k]]
  BY <1>1, <1>2
<1>4. g \in Seq(A) /\ DOMAIN g = 1 .. n
  BY <1>1, <1>3
<1>5. ToSet(g) = {s[i] : i \in I}
  BY <1>2, <1>3, <1>4 DEF ToSet
<1> QED BY <1>4, <1>5 DEF g

LEMMA ListedSet ==
  ASSUME NEW S, IsFiniteSet(S)
  PROVE  SetToSeq(S) \in Seq(S) /\ ToSet(SetToSeq(S)) = S
<1> DEFINE n == Cardinality(S)
           l == SetToSeq(S)
<1>1. l \in Bijection(1 .. n, S) /\ n \in Nat
  BY ListedOnce
<1> HIDE DEF l, n
<1>2. l \in [1 .. n -> S] /\ \A x \in S : \E i \in 1 .. n : l[i] = x
  BY <1>1 DEF Bijection, Injection, Surjection
<1>3. l \in Seq(S) /\ ToSet(l) = S
  BY <1>1, <1>2 DEF ToSet
<1> QED BY <1>3 DEF l

LEMMA SelectNodeRight ==
  ASSUME NEW f, Tidy(f), NEW c, Whole(c), Shows(ToSet(f), c), NEW n \in Abstract!Nodes
  PROVE  Implements(SelectNode(f, n), Abstract!SelectNode(c, n))
<1> DEFINE g == SelectNode(f, n)
           d == Abstract!SelectNode(c, n)
<1>1. g = [i \in DOMAIN f |-> IF Is(f[i], "group", "home") THEN [f[i] EXCEPT !.selected = n] ELSE f[i]]
  BY DEF SelectNode, ChangeGroup, Change
<1>2. Agree(c, d, {"members", "selected", "final"}) /\ d.members = c.members /\ d.selected = n /\ d.final = c.final
  BY DEF Abstract!SelectNode, Agree, Whole, Fields
<1> HIDE DEF g, d
<1>3. \A i \in DOMAIN f : f[i].typ = "group" =>
        /\ g[i] \in Groups
        /\ ToSet(g[i].members) = c.members /\ g[i].selected = n /\ g[i].final = c.final
  BY <1>1, GroupSection DEF Groups
<1>4. \A i \in DOMAIN f : f[i].typ # "group" => g[i] = f[i]
  BY <1>1, GroupSection
<1>5. g = [i \in DOMAIN f |-> g[i]]
  BY <1>1
<1>6. Implements(g, d)
  <2>1. OtherGroup(f, g, d)
    BY <1>2, <1>3, <1>4, <1>5 DEF OtherGroup
  <2> QED BY <1>2, <2>1, GroupChanged
<1> QED BY <1>6 DEF g, d

LEMMA SetGroupSettingsRight ==
  ASSUME NEW f, Tidy(f), NEW c, Whole(c), Shows(ToSet(f), c), NEW members \in SUBSET Subs,
         NEW selected \in Abstract!Nodes \cup {None}, NEW final \in Servers \cup {None}
  PROVE  Implements(SetGroupSettings(f, members, selected, final),
                    Abstract!SetGroupSettings(c, members, selected, final))
<1> DEFINE l == SetToSeq(members)
           g == SetGroupSettings(f, members, selected, final)
           d == Abstract!SetGroupSettings(c, members, selected, final)
<1>1. g = [i \in DOMAIN f |-> IF Is(f[i], "group", "home")
             THEN [f[i] EXCEPT !.members = l, !.selected = selected, !.final = final] ELSE f[i]]
  BY DEF SetGroupSettings, ChangeGroup, Change
<1>2. Agree(c, d, {"members", "selected", "final"})
      /\ d.members = members /\ d.selected = selected /\ d.final = final
  BY DEF Abstract!SetGroupSettings, Agree, Whole, Fields
<1>3. l \in Seq(Subs) /\ ToSet(l) = members
  <2>1. IsFiniteSet(members)
    BY SectionConstants, FS_Subset
  <2>2. l \in Seq(members) /\ ToSet(l) = members
    BY <2>1, ListedSet
  <2> HIDE DEF l
  <2> QED BY <2>2
<1> HIDE DEF g, d, l
<1>4. \A i \in DOMAIN f : f[i].typ = "group" =>
        /\ g[i] \in Groups
        /\ ToSet(g[i].members) = members /\ g[i].selected = selected /\ g[i].final = final
  <2>1. TAKE i \in DOMAIN f
  <2>2. HAVE f[i].typ = "group"
  <2>3. f[i] \in Groups /\ g[i] = [f[i] EXCEPT !.members = l, !.selected = selected, !.final = final]
    BY <1>1, <2>2, GroupSection
  <2>4. g[i] \in Groups /\ g[i].members = l /\ g[i].selected = selected /\ g[i].final = final
    BY <1>3, <2>3 DEF Groups
  <2> QED BY <1>3, <2>4
<1>5. \A i \in DOMAIN f : f[i].typ # "group" => g[i] = f[i]
  BY <1>1, GroupSection
<1>6. g = [i \in DOMAIN f |-> g[i]]
  BY <1>1
<1>7. Implements(g, d)
  <2>1. OtherGroup(f, g, d)
    BY <1>2, <1>4, <1>5, <1>6 DEF OtherGroup
  <2> QED BY <1>2, <2>1, GroupChanged
<1> QED BY <1>7 DEF g, d

LEMMA UpsertManualNodeRight ==
  ASSUME NEW f, Tidy(f), NEW c, Whole(c), Shows(ToSet(f), c), NEW n \in Abstract!Nodes
  PROVE  Implements(UpsertManualNode(f, n), Abstract!UpsertManualNode(c, n))
<1> DEFINE I == {i \in 1 .. Len(f) : Is(f[i], "node", n)}
           sec == NodeSection(n)
           g == UpsertManualNode(f, n)
           d == Abstract!UpsertManualNode(c, n)
           T == {x \in ToSet(f) : ~Alike(x, sec)} \cup {sec}
<1>1. g = Put(f, I, sec)
  BY DEF UpsertManualNode, Upsert, SelectInSeq, Put
<1>2. IsSection(sec) /\ sec.typ = "node" /\ sec.name = n
  BY DEF IsSection, NodeSections, NodeSection
<1> HIDE DEF sec, g
<1>3. I = {i \in 1 .. Len(f) : Alike(f[i], sec)}
  BY <1>2 DEF Alike, Is, Id
<1>4. Tidy(g) /\ ToSet(g) = T
  BY <1>1, <1>2, <1>3, PutTidy
<1>5. Agree(c, d, {"nodes"}) /\ d.nodes = c.nodes \cup {n}
  BY DEF Abstract!UpsertManualNode, Agree, Whole, Fields
<1>6. \A typ : typ # "node" => Of(T, typ) = Of(ToSet(f), typ)
  BY <1>2 DEF Of, Alike
<1>7. Of(T, "node") = {x \in Of(ToSet(f), "node") : x.name # n} \cup {sec}
  BY <1>2 DEF Of, Alike, Id
<1>8. d.nodes = Called(Of(T, "node"))
  BY <1>2, <1>5, <1>7 DEF Called, Shows
<1> HIDE DEF T, d
<1>9. Shows(T, d)
  BY <1>5, <1>6, <1>8 DEF Shows, Agree, Fields
<1> QED BY <1>4, <1>5, <1>9 DEF Implements, Agree, d, g

LEMMA UpsertDNSServerRight ==
  ASSUME NEW f, Tidy(f), NEW c, Whole(c), Shows(ToSet(f), c), NEW s \in Servers
  PROVE  Implements(UpsertDNSServer(f, s), Abstract!UpsertDNSServer(c, s))
<1> DEFINE I == {i \in 1 .. Len(f) : Is(f[i], "dns_server", s)}
           sec == [typ |-> "dns_server", name |-> s]
           g == UpsertDNSServer(f, s)
           d == Abstract!UpsertDNSServer(c, s)
           T == {x \in ToSet(f) : ~Alike(x, sec)} \cup {sec}
<1>1. g = Put(f, I, sec)
  BY DEF UpsertDNSServer, Upsert, SelectInSeq, Put
<1>2. IsSection(sec) /\ sec.typ = "dns_server" /\ sec.name = s
  BY DEF IsSection, ServerSections
<1> HIDE DEF sec, g
<1>3. I = {i \in 1 .. Len(f) : Alike(f[i], sec)}
  BY <1>2 DEF Alike, Is, Id
<1>4. Tidy(g) /\ ToSet(g) = T
  BY <1>1, <1>2, <1>3, PutTidy
<1>5. Agree(c, d, {"servers"}) /\ d.servers = c.servers \cup {s}
  BY DEF Abstract!UpsertDNSServer, Agree, Whole, Fields
<1>6. \A typ : typ # "dns_server" => Of(T, typ) = Of(ToSet(f), typ)
  BY <1>2 DEF Of, Alike
<1>7. Of(T, "dns_server") = {x \in Of(ToSet(f), "dns_server") : x.name # s} \cup {sec}
  BY <1>2 DEF Of, Alike, Id
<1>8. d.servers = Called(Of(T, "dns_server"))
  BY <1>2, <1>5, <1>7 DEF Called, Shows
<1> HIDE DEF T, d
<1>9. Shows(T, d)
  BY <1>5, <1>6, <1>8 DEF Shows, Agree, Fields
<1> QED BY <1>4, <1>5, <1>9 DEF Implements, Agree, d, g


(* The sections about a subscription that a file shows.                    *)
LEMMA SubscriptionSection ==
  ASSUME NEW f, Tidy(f), NEW c, Shows(ToSet(f), c), NEW s \in Subs, NEW x \in ToSet(f)
  PROVE  /\ IsSection(x)
         /\ Is(x, "subscription", s) <=> x.typ = "subscription" /\ x.name = s
         /\ ImportedFrom(x, s) <=> x.typ = "node" /\ x.name \in Abstract!NodesOf(s)
<1>1. IsSection(x)
  BY DEF Tidy, ToSet
<1>2. ImportedFrom(x, s) <=> x.typ = "node" /\ x.name \in Abstract!NodesOf(s)
  <2>1. CASE x.typ = "node"
    <3>1. x.name \in Abstract!Nodes /\ x = NodeSection(x.name)
      BY <1>1, <2>1, NamedSection
    <3>2. x.from = IF x.name[1] = Manual THEN None ELSE x.name[1]
      BY <3>1 DEF NodeSection
    <3>3. x.name \in Abstract!NodesOf(s) <=> x.name[1] = s
      BY <3>1 DEF Abstract!Nodes, Abstract!NodesOf
    <3> QED BY <2>1, <3>2, <3>3, SectionConstants DEF ImportedFrom
  <2> QED BY <2>1 DEF ImportedFrom
<1> QED BY <1>1, <1>2 DEF Is

LEMMA MarkSubscriptionErrorRight ==
  ASSUME NEW f, Tidy(f), NEW c, Whole(c), Shows(ToSet(f), c), NEW s \in Subs
  PROVE  Implements(MarkSubscriptionError(f, s), Abstract!MarkSubscriptionError(c, s))
<1> DEFINE g == MarkSubscriptionError(f, s)
           d == Abstract!MarkSubscriptionError(c, s)
           I == Typed(f, "subscription")
           U == Of(ToSet(f), "subscription")
           V == Of(ToSet(g), "subscription")
<1>1. g = [i \in DOMAIN f |-> IF Is(f[i], "subscription", s) THEN [f[i] EXCEPT !.error = TRUE] ELSE f[i]]
  BY DEF MarkSubscriptionError, Change
<1>2. Agree(c, d, {"fresh", "failed"}) /\ d.fresh = c.fresh /\ d.failed = c.failed \cup ({s} \cap c.subs)
  BY DEF Abstract!MarkSubscriptionError, Agree, Whole, Fields
<1> HIDE DEF g, d
<1>3. ASSUME NEW i \in DOMAIN f, f[i].typ = "subscription"
      PROVE  /\ g[i] \in SubscriptionSections /\ g[i].typ = f[i].typ
             /\ g[i].name = f[i].name /\ g[i].on = f[i].on /\ g[i].updated = f[i].updated
             /\ (g[i].error <=> f[i].error \/ f[i].name = s)
  <2>1. f[i] \in SubscriptionSections
    BY <1>3, SectionTypes DEF Tidy
  <2> QED BY <1>1, <1>3, <2>1 DEF SubscriptionSections, Is
<1>4. \A i \in DOMAIN f : f[i].typ # "subscription" => g[i] = f[i]
  BY <1>1 DEF Is
<1>5. g = [i \in DOMAIN f |-> g[i]]
  BY <1>1
<1>6. U = {f[i] : i \in I} /\ V = {g[i] : i \in I}
  <2>1. DOMAIN g = DOMAIN f /\ \A i \in DOMAIN f : g[i].typ = f[i].typ
    BY <1>1, <1>3, <1>4
  <2> QED BY <2>1, SectionsOf
<1>7. \A i \in I : g[i].name = f[i].name /\ g[i].updated = f[i].updated
                   /\ (g[i].error <=> f[i].error \/ f[i].name = s)
  BY <1>3 DEF Typed
<1> HIDE DEF U, V, I
<1>8. Called({x \in V : x.updated = "now"}) = Called({x \in U : x.updated = "now"})
  BY <1>6, <1>7 DEF Called
<1>9. Called({x \in V : x.error}) = Called({x \in U : x.error}) \cup ({s} \cap Called(U))
  BY <1>6, <1>7 DEF Called
<1>10. c.subs = Called(U)
  BY DEF Shows, SubsShown, U
<1>11. DatesShown(U, Of(ToSet(f), "ruleset"), c.fresh, c.failed)
  BY DEF Shows, U
<1>12. DatesShown(V, Of(ToSet(f), "ruleset"), d.fresh, d.failed)
  BY <1>2, <1>8, <1>9, <1>10, <1>11 DEF DatesShown
<1>13. \A i \in DOMAIN f : f[i].typ = "subscription" =>
         g[i] \in SubscriptionSections /\ g[i].name = f[i].name /\ g[i].on = f[i].on
  BY <1>3
<1>14. DatesShown(Of(ToSet(g), "subscription"), Of(ToSet(f), "ruleset"), d.fresh, d.failed)
  BY <1>12 DEF V
<1>15. Implements(g, d)
  <2>1. OtherDates(f, g)
    BY <1>4, <1>5, <1>13 DEF OtherDates
  <2> QED BY <1>2, <1>14, <2>1, SubscriptionsMarked
<1> QED BY <1>15 DEF g, d


LEMMA RuleSetSection ==
  ASSUME NEW f, Tidy(f), NEW i \in DOMAIN f, NEW g \in RuleSets
  PROVE  /\ IsRuleSetSection(f[i], g) <=> f[i].typ = "ruleset" /\ Id(f[i]) = g
         /\ f[i].typ = "ruleset" => f[i] \in RuleSetSections /\ Id(f[i]) \in RuleSets
<1>1. IsSection(f[i])
  BY DEF Tidy
<1>2. f[i].typ = "ruleset" => f[i] \in RuleSetSections
  BY <1>1, SectionTypes
<1> QED BY <1>2, IdOfRuleSet DEF IsRuleSetSection

LEMMA MarkRuleSetErrorRight ==
  ASSUME NEW f, Tidy(f), NEW c, Whole(c), Shows(ToSet(f), c), NEW s \in RuleSets
  PROVE  Implements(MarkRuleSetError(f, s), Abstract!MarkRuleSetError(c, s))
<1> DEFINE g == MarkRuleSetError(f, s)
           d == Abstract!MarkRuleSetError(c, s)
           I == Typed(f, "ruleset")
           R == Of(ToSet(f), "ruleset")
           V == Of(ToSet(g), "ruleset")
<1>1. g = [i \in DOMAIN f |-> IF IsRuleSetSection(f[i], s) THEN [f[i] EXCEPT !.error = TRUE] ELSE f[i]]
  BY DEF MarkRuleSetError, Change
<1>2. Agree(c, d, {"fresh", "failed"}) /\ d.fresh = c.fresh /\ d.failed = c.failed \cup ({s} \cap c.rulesets)
  BY DEF Abstract!MarkRuleSetError, Agree, Whole, Fields
<1> HIDE DEF g, d
<1>3. ASSUME NEW i \in DOMAIN f, f[i].typ = "ruleset"
      PROVE  /\ g[i] \in RuleSetSections /\ g[i].typ = f[i].typ /\ Id(g[i]) = Id(f[i])
             /\ g[i].updated = f[i].updated
             /\ (g[i].error <=> f[i].error \/ Id(f[i]) = s)
  <2>1. f[i] \in RuleSetSections
    BY <1>3, RuleSetSection
  <2>2. g[i] = IF Id(f[i]) = s THEN [f[i] EXCEPT !.error = TRUE] ELSE f[i]
    BY <1>1, <1>3, RuleSetSection
  <2> QED BY <2>1, <2>2 DEF RuleSetSections, Id
<1>4. \A i \in DOMAIN f : f[i].typ # "ruleset" => g[i] = f[i]
  BY <1>1, RuleSetSection
<1>5. OtherSetDates(f, g)
  BY <1>1, <1>3, <1>4 DEF OtherSetDates
<1>6. R = {f[i] : i \in I} /\ V = {g[i] : i \in I}
  <2>1. DOMAIN g = DOMAIN f /\ \A i \in DOMAIN f : g[i].typ = f[i].typ
    BY <1>1, <1>3, <1>4
  <2> QED BY <2>1, SectionsOf
<1>7. \A i \in I : Id(g[i]) = Id(f[i]) /\ g[i].updated = f[i].updated
                   /\ (g[i].error <=> f[i].error \/ Id(f[i]) = s)
  BY <1>3 DEF Typed
<1>8. c.rulesets = {Id(x) : x \in R}
  BY DEF Shows, SetsShown
<1>9. DatesShown(Of(ToSet(f), "subscription"), R, c.fresh, c.failed)
  BY DEF Shows
<1> HIDE DEF R, V, I
<1>10. {Id(x) : x \in {y \in V : y.updated = "now"}} = {Id(x) : x \in {y \in R : y.updated = "now"}}
  BY <1>6, <1>7
<1>11. {Id(x) : x \in {y \in V : y.error}} = {Id(x) : x \in {y \in R : y.error}} \cup ({s} \cap {Id(x) : x \in R})
  BY <1>6, <1>7
<1>12. DatesShown(Of(ToSet(f), "subscription"), V, d.fresh, d.failed)
  BY <1>2, <1>8, <1>9, <1>10, <1>11 DEF DatesShown
<1>13. Implements(g, d)
  <2>1. DatesShown(Of(ToSet(f), "subscription"), Of(ToSet(g), "ruleset"), d.fresh, d.failed)
    BY <1>12 DEF V
  <2> QED BY <1>2, <1>5, <2>1, RuleSetsMarked
<1> QED BY <1>13 DEF g, d

LEMMA MarkRuleSetUpdatedRight ==
  ASSUME NEW f, Tidy(f), NEW c, Whole(c), Shows(ToSet(f), c), NEW s \in RuleSets
  PROVE  Implements(MarkRuleSetUpdated(f, s), Abstract!MarkRuleSetUpdated(c, s))
<1> DEFINE g == MarkRuleSetUpdated(f, s)
           d == Abstract!MarkRuleSetUpdated(c, s)
           I == Typed(f, "ruleset")
           R == Of(ToSet(f), "ruleset")
           V == Of(ToSet(g), "ruleset")
           U == Of(ToSet(f), "subscription")
<1>1. g = [i \in DOMAIN f |-> IF IsRuleSetSection(f[i], s)
             THEN [f[i] EXCEPT !.updated = "now", !.error = FALSE] ELSE f[i]]
  BY DEF MarkRuleSetUpdated, Change
<1>2. /\ Agree(c, d, {"fresh", "failed"})
      /\ d.fresh = c.fresh \cup ({s} \cap c.rulesets) /\ d.failed = c.failed \ {s}
  BY DEF Abstract!MarkRuleSetUpdated, Agree, Whole, Fields
<1> HIDE DEF g, d
<1>3. ASSUME NEW i \in DOMAIN f, f[i].typ = "ruleset"
      PROVE  /\ g[i] \in RuleSetSections /\ g[i].typ = f[i].typ /\ Id(g[i]) = Id(f[i])
             /\ (g[i].updated = "now" <=> f[i].updated = "now" \/ Id(f[i]) = s)
             /\ (g[i].error <=> f[i].error /\ Id(f[i]) # s)
  <2>1. f[i] \in RuleSetSections
    BY <1>3, RuleSetSection
  <2>2. g[i] = IF Id(f[i]) = s THEN [f[i] EXCEPT !.updated = "now", !.error = FALSE] ELSE f[i]
    BY <1>1, <1>3, RuleSetSection
  <2> DEFINE Shape == [typ : {"ruleset"}, name : RuleSets \cup {SectionName[q] : q \in RuleSets},
                       id : RuleSets \cup {None}, updated : Dates, error : BOOLEAN]
  <2>3. f[i] \in Shape /\ {f[i].name, f[i].id} \cap RuleSets = {Id(f[i])}
    BY <2>1 DEF RuleSetSections
  <2>4. "now" \in Dates
    BY DEF Dates
  <2>5. /\ g[i] \in Shape /\ g[i].typ = f[i].typ /\ g[i].name = f[i].name /\ g[i].id = f[i].id
        /\ (g[i].updated = "now" <=> f[i].updated = "now" \/ Id(f[i]) = s)
        /\ (g[i].error <=> f[i].error /\ Id(f[i]) # s)
    <3>1. CASE Id(f[i]) = s
      <4>1. g[i] = [f[i] EXCEPT !.updated = "now", !.error = FALSE]
        BY <2>2, <3>1
      <4>2. g[i] \in Shape /\ g[i].typ = f[i].typ /\ g[i].name = f[i].name /\ g[i].id = f[i].id
        BY <2>3, <2>4, <4>1
      <4>3. g[i].updated = "now" /\ g[i].error = FALSE
        BY <2>3, <4>1
      <4> QED BY <3>1, <4>2, <4>3
    <3>2. CASE Id(f[i]) # s
      BY <2>2, <2>3, <3>2
    <3> QED BY <3>1, <3>2
  <2>6. Id(g[i]) = Id(f[i])
    BY <2>5 DEF Id
  <2>7. g[i] \in RuleSetSections
    BY <2>3, <2>5, <2>6 DEF RuleSetSections
  <2> QED BY <2>5, <2>6, <2>7
<1>4. \A i \in DOMAIN f : f[i].typ # "ruleset" => g[i] = f[i]
  BY <1>1, RuleSetSection
<1>5. OtherSetDates(f, g)
  BY <1>1, <1>3, <1>4 DEF OtherSetDates
<1>6. R = {f[i] : i \in I} /\ V = {g[i] : i \in I}
  <2>1. DOMAIN g = DOMAIN f /\ \A i \in DOMAIN f : g[i].typ = f[i].typ
    BY <1>1, <1>3, <1>4
  <2> QED BY <2>1, SectionsOf
<1>7. \A i \in I : /\ Id(g[i]) = Id(f[i])
                   /\ (g[i].updated = "now" <=> f[i].updated = "now" \/ Id(f[i]) = s)
                   /\ (g[i].error <=> f[i].error /\ Id(f[i]) # s)
  BY <1>3 DEF Typed
<1>8. c.rulesets = {Id(x) : x \in R}
  BY DEF Shows, SetsShown
<1>9. DatesShown(U, R, c.fresh, c.failed)
  BY DEF Shows
<1>10. s \notin Called({x \in U : x.error})
  <2>1. \A x \in U : x.name \in Subs
    BY NamedSection DEF Tidy, ToSet, Of
  <2> QED BY <2>1, SectionConstants DEF Called
<1> HIDE DEF R, V, I, U
<1>11. {Id(x) : x \in {y \in V : y.updated = "now"}}
         = {Id(x) : x \in {y \in R : y.updated = "now"}} \cup ({s} \cap {Id(x) : x \in R})
  BY <1>6, <1>7
<1>12. {Id(x) : x \in {y \in V : y.error}} = {Id(x) : x \in {y \in R : y.error}} \ {s}
  BY <1>6, <1>7
<1>13. DatesShown(U, V, d.fresh, d.failed)
  <2>1. /\ c.fresh = Called({x \in U : x.updated = "now"}) \cup {Id(x) : x \in {y \in R : y.updated = "now"}}
        /\ c.failed = Called({x \in U : x.error}) \cup {Id(x) : x \in {y \in R : y.error}}
    BY <1>9 DEF DatesShown
  <2>2. d.fresh = Called({x \in U : x.updated = "now"}) \cup {Id(x) : x \in {y \in V : y.updated = "now"}}
    BY <1>2, <1>8, <1>11, <2>1
  <2>3. d.failed = Called({x \in U : x.error}) \cup {Id(x) : x \in {y \in V : y.error}}
    BY <1>2, <1>10, <1>12, <2>1
  <2> QED BY <2>2, <2>3 DEF DatesShown
<1>14. Implements(g, d)
  <2>1. DatesShown(Of(ToSet(f), "subscription"), Of(ToSet(g), "ruleset"), d.fresh, d.failed)
    BY <1>13 DEF V, U
  <2> QED BY <1>2, <1>5, <2>1, RuleSetsMarked
<1> QED BY <1>14 DEF g, d


(* The sections that are left when some go.                                *)
LEMMA KeptWhere ==
  ASSUME NEW f, Tidy(f), NEW T \in SUBSET ToSet(f), NEW I, I = {i \in DOMAIN f : f[i] \in T},
         Of(ToSet(f), "manager") \cup Of(ToSet(f), "group") \subseteq T
  PROVE  Tidy(Kept(f, I)) /\ ToSet(Kept(f, I)) = T
<1>1. \A typ \in {"manager", "group"} : Typed(f, typ) \subseteq I
  BY DEF Typed, Of, ToSet
<1>2. Tidy(Kept(f, I)) /\ ToSet(Kept(f, I)) = {f[i] : i \in I}
  BY <1>1, KeptTidy
<1>3. {f[i] : i \in I} = T
  BY DEF ToSet
<1> QED BY <1>2, <1>3

(* The subscription s was updated.                                         *)
Refreshed(f, s) ==
  Change(f, LAMBDA sec : Is(sec, "subscription", s),
            LAMBDA sec : [sec EXCEPT !.updated = "now", !.error = FALSE])

LEMMA RefreshedRight ==
  ASSUME NEW f, Tidy(f), NEW c, Whole(c), Shows(ToSet(f), c), NEW s \in Subs,
         NEW d, Agree(c, d, {"fresh", "failed"}),
         d.fresh = c.fresh \cup ({s} \cap c.subs), d.failed = c.failed \ {s}
  PROVE  Implements(Refreshed(f, s), d)
<1> DEFINE g == Refreshed(f, s)
           I == Typed(f, "subscription")
           U == Of(ToSet(f), "subscription")
           V == Of(ToSet(g), "subscription")
           R == Of(ToSet(f), "ruleset")
<1>1. g = [i \in DOMAIN f |-> IF Is(f[i], "subscription", s)
             THEN [f[i] EXCEPT !.updated = "now", !.error = FALSE] ELSE f[i]]
  BY DEF Refreshed, Change
<1> HIDE DEF g
<1>2. ASSUME NEW i \in DOMAIN f, f[i].typ = "subscription"
      PROVE  /\ g[i] \in SubscriptionSections /\ g[i].typ = f[i].typ
             /\ g[i].name = f[i].name /\ g[i].on = f[i].on
             /\ (g[i].updated = "now" <=> f[i].updated = "now" \/ f[i].name = s)
             /\ (g[i].error <=> f[i].error /\ f[i].name # s)
  <2>1. f[i] \in SubscriptionSections
    BY <1>2, SectionTypes DEF Tidy
  <2> QED BY <1>1, <1>2, <2>1 DEF SubscriptionSections, Is, Dates
<1>3. \A i \in DOMAIN f : f[i].typ # "subscription" => g[i] = f[i]
  BY <1>1 DEF Is
<1>4. OtherDates(f, g)
  BY <1>1, <1>2, <1>3 DEF OtherDates
<1>5. U = {f[i] : i \in I} /\ V = {g[i] : i \in I}
  <2>1. DOMAIN g = DOMAIN f /\ \A i \in DOMAIN f : g[i].typ = f[i].typ
    BY <1>1, <1>2, <1>3
  <2> QED BY <2>1, SectionsOf
<1>6. \A i \in I : /\ g[i].name = f[i].name
                   /\ (g[i].updated = "now" <=> f[i].updated = "now" \/ f[i].name = s)
                   /\ (g[i].error <=> f[i].error /\ f[i].name # s)
  BY <1>2 DEF Typed
<1>7. s \notin {Id(x) : x \in {y \in R : y.error}}
  <2>1. \A i \in DOMAIN f : f[i].typ = "ruleset" => Id(f[i]) \in RuleSets
    BY SectionTypes, IdOfRuleSet DEF Tidy, RuleSetSections
  <2>2. \A x \in R : Id(x) \in RuleSets
    BY <2>1 DEF Of, ToSet
  <2> QED BY <2>2, SectionConstants
<1>8. c.subs = Called(U) /\ DatesShown(U, R, c.fresh, c.failed)
  BY DEF Shows, SubsShown
<1> HIDE DEF R, V, I, U
<1>9. Called({x \in V : x.updated = "now"}) = Called({x \in U : x.updated = "now"}) \cup ({s} \cap Called(U))
  BY <1>5, <1>6 DEF Called
<1>10. Called({x \in V : x.error}) = Called({x \in U : x.error}) \ {s}
  BY <1>5, <1>6 DEF Called
<1>11. DatesShown(V, R, d.fresh, d.failed)
  <2>1. /\ c.fresh = Called({x \in U : x.updated = "now"}) \cup {Id(x) : x \in {y \in R : y.updated = "now"}}
        /\ c.failed = Called({x \in U : x.error}) \cup {Id(x) : x \in {y \in R : y.error}}
    BY <1>8 DEF DatesShown
  <2>2. d.fresh = Called({x \in V : x.updated = "now"}) \cup {Id(x) : x \in {y \in R : y.updated = "now"}}
    BY <1>4, <1>8, <1>9, <2>1
  <2>3. d.failed = Called({x \in V : x.error}) \cup {Id(x) : x \in {y \in R : y.error}}
    BY <1>4, <1>7, <1>10, <2>1
  <2> QED BY <2>2, <2>3 DEF DatesShown
<1>12. Implements(g, d)
  <2>1. DatesShown(Of(ToSet(g), "subscription"), Of(ToSet(f), "ruleset"), d.fresh, d.failed)
    BY <1>11 DEF V, R
  <2> QED BY <1>4, <2>1, SubscriptionsMarked
<1> QED BY <1>12 DEF g

LEMMA ReplaceSubscriptionNodesRight ==
  ASSUME NEW f, Tidy(f), NEW c, Whole(c), Shows(ToSet(f), c),
         NEW s \in Subs, NEW given \in SUBSET Abstract!NodesOf(s)
  PROVE  Implements(ReplaceSubscriptionNodes(f, s, given), Abstract!ReplaceSubscriptionNodes(c, s, given))
<1> DEFINE I == {i \in DOMAIN f : ~ImportedFrom(f[i], s)}
           rest == Kept(f, I)
           mid == Refreshed(rest, s)
           N == {NodeSection(n) : n \in given}
           own == Abstract!NodesOf(s)
           c1 == [c EXCEPT !.nodes = @ \ own]
           c2 == [c1 EXCEPT !.fresh = @ \cup ({s} \cap c.subs), !.failed = @ \ {s}]
           d == Abstract!ReplaceSubscriptionNodes(c, s, given)
           K == {x \in ToSet(f) : ~ImportedFrom(x, s)}
<1>1. ReplaceSubscriptionNodes(f, s, given) = mid \o SetToSeq(N)
  BY DEF ReplaceSubscriptionNodes, Refreshed, Drop
<1>2. Tidy(rest) /\ ToSet(rest) = K
  <2>1. I = {i \in DOMAIN f : f[i] \in K}
    BY DEF ToSet
  <2>2. K \in SUBSET ToSet(f) /\ Of(ToSet(f), "manager") \cup Of(ToSet(f), "group") \subseteq K
    BY DEF ImportedFrom, Of
  <2> HIDE DEF K, I
  <2> QED BY <2>1, <2>2, KeptWhere
<1>3. Agree(c, c1, {"nodes"}) /\ c1.nodes = c.nodes \ own
  BY DEF Agree, Whole, Fields
<1>4. Agree(c1, c2, {"fresh", "failed"})
      /\ c2.fresh = c1.fresh \cup ({s} \cap c1.subs) /\ c2.failed = c1.failed \ {s}
  BY DEF Agree, Whole, Fields
<1>5. Agree(c2, d, {"nodes"}) /\ d.nodes = c2.nodes \cup given
  BY DEF Abstract!ReplaceSubscriptionNodes, Agree, Whole, Fields
<1> HIDE DEF c1, c2, d, rest, mid
<1>6. Shows(ToSet(rest), c1)
  <2>1. \A x \in ToSet(f) : x \in K <=> ~(x.typ = "node" /\ x.name \in own)
    BY SubscriptionSection
  <2>2. \A typ : typ # "node" => Of(K, typ) = Of(ToSet(f), typ)
    BY <2>1 DEF Of
  <2>3. Of(K, "node") = {x \in Of(ToSet(f), "node") : x.name \notin own}
    BY <2>1 DEF Of
  <2>4. c1.nodes = Called(Of(K, "node"))
    BY <1>3, <2>3 DEF Called, Shows
  <2> HIDE DEF K, own
  <2> QED BY <1>2, <1>3, <2>2, <2>4 DEF Shows, Agree, Fields
<1>7. Tidy(mid) /\ Whole(c2) /\ Shows(ToSet(mid), c2)
  <2>1. Implements(mid, c2)
    BY <1>2, <1>3, <1>4, <1>6, RefreshedRight DEF Agree, mid
  <2> QED BY <2>1 DEF Implements
<1>8. IsFiniteSet(N)
  <2>1. IsFiniteSet(own)
    BY SectionConstants, FS_Singleton, FS_Product DEF Abstract!NodesOf
  <2>2. IsFiniteSet(given)
    BY <2>1, FS_Subset
  <2>3. [n \in given |-> NodeSection(n)] \in Surjection(given, N)
    BY DEF Surjection
  <2> HIDE DEF N
  <2> QED BY <2>2, <2>3, FS_Surjection
<1>9. \A y \in N : IsSection(y) /\ y.typ = "node" /\ Id(y) = y.name /\ y.name \in given
  <2>1. given \subseteq Abstract!Nodes
    BY DEF Abstract!NodesOf, Abstract!Nodes
  <2> QED BY <2>1 DEF IsSection, NodeSections, NodeSection, Id
<1>10. \A x, y \in N : Alike(x, y) => x = y
  BY <1>9 DEF Alike, NodeSection
<1>11. \A x \in ToSet(mid), y \in N : ~Alike(x, y)
  <2>1. c2.nodes \cap own = {}
    BY <1>3, <1>4 DEF Agree, Fields
  <2>2. c2.nodes = Called(Of(ToSet(mid), "node"))
    BY <1>7 DEF Shows
  <2>3. \A x \in ToSet(mid) : x.typ = "node" => x.name \notin own /\ Id(x) = x.name
    BY <2>1, <2>2 DEF Of, Called, Id
  <2> HIDE DEF N
  <2> QED BY <1>9, <2>3 DEF Alike
<1>12. Called(N) = given
  <2>1. \A n \in given : NodeSection(n) \in N /\ NodeSection(n).name = n
    BY DEF NodeSection
  <2> HIDE DEF N
  <2> QED BY <1>9, <2>1 DEF Called
<1> HIDE DEF N
<1> DEFINE g == mid \o SetToSeq(N)
<1>13. Tidy(g) /\ ToSet(g) = ToSet(mid) \cup N
  BY <1>7, <1>8, <1>9, <1>10, <1>11, Added
<1>14. Shows(ToSet(g), d)
  <2> DEFINE T == ToSet(mid) \cup N
  <2>1. \A typ : typ # "node" => Of(T, typ) = Of(ToSet(mid), typ)
    BY <1>9 DEF Of
  <2>2. Of(T, "node") = Of(ToSet(mid), "node") \cup N
    BY <1>9 DEF Of
  <2>3. d.nodes = Called(Of(T, "node"))
    BY <1>5, <1>7, <1>12, <2>2 DEF Called, Shows
  <2> HIDE DEF T
  <2>4. Shows(T, d)
    BY <1>5, <1>7, <2>1, <2>3 DEF Shows, Agree, Fields
  <2> QED BY <1>13, <2>4 DEF T
<1> QED BY <1>1, <1>5, <1>13, <1>14 DEF Implements, Agree, d


LEMMA AppendSet ==
  ASSUME NEW A, NEW l \in Seq(A), NEW x \in A
  PROVE  Append(l, x) \in Seq(A) /\ ToSet(Append(l, x)) = ToSet(l) \cup {x}
<1> DEFINE g == Append(l, x)
           n == Len(l)
<1>1. n \in Nat /\ DOMAIN l = 1 .. n
  OBVIOUS
<1>2. g \in Seq(A) /\ DOMAIN g = 1 .. n + 1 /\ (\A i \in 1 .. n : g[i] = l[i]) /\ g[n + 1] = x
  OBVIOUS
<1> HIDE DEF g, n
<1>3. \A i : i \in 1 .. n + 1 <=> i \in 1 .. n \/ i = n + 1
  BY <1>1
<1>4. ToSet(g) = ToSet(l) \cup {x}
  BY <1>1, <1>2, <1>3 DEF ToSet
<1> QED BY <1>2, <1>4 DEF g

LEMMA UpsertSubscriptionRight ==
  ASSUME NEW f, Tidy(f), NEW c, Whole(c), Shows(ToSet(f), c),
         NEW s \in Subs, NEW on \in BOOLEAN, NEW attach \in BOOLEAN
  PROVE  Implements(UpsertSubscription(f, s, on, attach), Abstract!UpsertSubscription(c, s, on, attach))
<1> DEFINE I == {i \in 1 .. Len(f) : Is(f[i], "subscription", s)}
           at == IF I # {} THEN Min(I) ELSE 0
           sec == [typ |-> "subscription", name |-> s, on |-> on,
                   updated |-> IF at = 0 THEN "" ELSE f[at].updated,
                   error |-> at # 0 /\ f[at].error]
           mid == Put(f, I, sec)
           g == UpsertSubscription(f, s, on, attach)
           c1 == [c EXCEPT !.subs = @ \cup {s}, !.on = IF on THEN @ \cup {s} ELSE @ \ {s}]
           d == Abstract!UpsertSubscription(c, s, on, attach)
           T == {x \in ToSet(f) : ~Alike(x, sec)} \cup {sec}
           U == Of(ToSet(f), "subscription")
           V == Of(T, "subscription")
<1>1. g = [i \in DOMAIN mid |->
             IF attach /\ Is(mid[i], "group", "home")
             THEN [mid[i] EXCEPT !.members = IF Contains(@, s) THEN @ ELSE Append(@, s)]
             ELSE mid[i]]
  BY DEF UpsertSubscription, Upsert, SelectInSeq, Put, Change
<1>2. /\ at = 0 => \A x \in U : x.name # s
      /\ at # 0 => f[at] \in U /\ f[at].name = s /\ \A x \in U : x.name = s => x = f[at]
  <2>1. Len(f) \in Nat /\ DOMAIN f = 1 .. Len(f)
    BY TidyList
  <2>2. CASE I = {}
    BY <2>1, <2>2 DEF Is, Of, ToSet
  <2>3. CASE I # {}
    <3>1. PICK i \in I : TRUE
      BY <2>3
    <3>2. \A j \in I : j = i
      BY <2>1 DEF Tidy, Alike, Is, Id
    <3>3. at = i /\ i \in DOMAIN f /\ Is(f[i], "subscription", s) /\ i # 0
      BY <2>1, <3>1, <3>2 DEF Min
    <3> HIDE DEF at
    <3>4. \A x \in U : x.name = s => x = f[i]
      <4>1. TAKE x \in U
      <4>2. PICK j \in DOMAIN f : f[j] = x /\ x.typ = "subscription"
        BY DEF Of, ToSet
      <4>3. x.name = s => j \in I
        BY <2>1, <4>2 DEF Is
      <4> QED BY <3>2, <4>2, <4>3
    <3> QED BY <3>3, <3>4 DEF Is, Of, ToSet
  <2> QED BY <2>2, <2>3
<1> HIDE DEF at
<1>3. \A x \in U : x \in SubscriptionSections
  BY SectionTypes DEF Of, ToSet, Tidy
<1>4. /\ IsSection(sec) /\ sec.typ = "subscription" /\ sec.name = s /\ sec.on = on
      /\ sec.updated = (IF at = 0 THEN "" ELSE f[at].updated) /\ sec.error = (at # 0 /\ f[at].error)
  <2>1. (IF at = 0 THEN "" ELSE f[at].updated) \in Dates /\ (at # 0 /\ f[at].error) \in BOOLEAN
    BY <1>2, <1>3 DEF Dates, SubscriptionSections
  <2> QED BY <2>1 DEF IsSection, SubscriptionSections
<1> HIDE DEF sec, mid, g
<1>5. Tidy(mid) /\ ToSet(mid) = T
  <2>1. I = {i \in 1 .. Len(f) : Alike(f[i], sec)}
    BY <1>4 DEF Alike, Is, Id
  <2> HIDE DEF I
  <2> QED BY <1>4, <2>1, PutTidy DEF mid
<1>6. /\ Agree(c, c1, {"subs", "on"}) /\ c1.subs = c.subs \cup {s}
      /\ c1.on = IF on THEN c.on \cup {s} ELSE c.on \ {s}
  BY DEF Agree, Whole, Fields
<1>7. /\ Agree(c1, d, {"members", "selected", "final"})
      /\ d.members = (IF attach THEN c1.members \cup {s} ELSE c1.members)
      /\ d.selected = c1.selected /\ d.final = c1.final
  BY DEF Abstract!UpsertSubscription, Agree, Whole, Fields
<1> HIDE DEF c1, d
<1>8. Shows(ToSet(mid), c1)
  <2>1. \A typ : typ # "subscription" => Of(T, typ) = Of(ToSet(f), typ)
    BY <1>4 DEF Of, Alike
  <2>2. V = {x \in U : x.name # s} \cup {sec}
    BY <1>4 DEF Of, Alike, Id
  <2>3. SubsShown(U, c.subs, c.on) /\ DatesShown(U, Of(ToSet(f), "ruleset"), c.fresh, c.failed)
    BY DEF Shows
  <2> HIDE DEF U, V, T
  <2>4. SubsShown(V, c1.subs, c1.on)
    <3>1. c1.subs = Called(V)
      BY <1>4, <1>6, <2>2, <2>3 DEF SubsShown, Called
    <3>2. c.on = Called({x \in U : x.on})
      BY <2>3 DEF SubsShown
    <3>3. c1.on = Called({x \in V : x.on})
      <4>1. Called({x \in U : x.name # s /\ x.on}) = c.on \ {s}
        BY <3>2 DEF Called
      <4>2. {x \in V : x.on} = {x \in U : x.name # s /\ x.on} \cup {x \in {sec} : on}
        BY <1>4, <2>2
      <4>3. Called({x \in V : x.on}) = (c.on \ {s}) \cup {x \in {s} : on}
        BY <1>4, <4>1, <4>2 DEF Called
      <4> QED BY <1>6, <4>3
    <3> QED BY <3>1, <3>3 DEF SubsShown
  <2>5. Called({x \in V : x.updated = "now"}) = Called({x \in U : x.updated = "now"})
    BY <1>2, <1>4, <2>2 DEF Called
  <2>6. Called({x \in V : x.error}) = Called({x \in U : x.error})
    BY <1>2, <1>4, <2>2 DEF Called
  <2>7. DatesShown(V, Of(T, "ruleset"), c1.fresh, c1.failed)
    BY <1>6, <2>1, <2>3, <2>5, <2>6 DEF DatesShown, Agree, Fields
  <2>8. Shows(T, c1)
    BY <1>6, <2>1, <2>4, <2>7 DEF Shows, Agree, Fields, V
  <2> QED BY <1>5, <2>8
<1>9. \A i \in DOMAIN mid : mid[i].typ # "group" => g[i] = mid[i]
  BY <1>1 DEF Is
<1>10. ASSUME NEW i \in DOMAIN mid, mid[i].typ = "group"
       PROVE  /\ g[i] \in Groups
              /\ ToSet(g[i].members) = d.members /\ g[i].selected = d.selected /\ g[i].final = d.final
  <2> DEFINE l == mid[i].members
             m == IF Contains(l, s) THEN l ELSE Append(l, s)
  <2>1. /\ Is(mid[i], "group", "home") /\ mid[i] \in Groups
        /\ ToSet(l) = c1.members /\ mid[i].selected = c1.selected /\ mid[i].final = c1.final
    BY <1>5, <1>8, <1>10, GroupSection
  <2>2. CASE ~attach
    BY <1>1, <1>7, <2>1, <2>2
  <2>3. CASE attach
    <3>1. l \in Seq(Subs)
      BY <2>1 DEF Groups
    <3>2. m \in Seq(Subs) /\ ToSet(m) = ToSet(l) \cup {s}
      <4>1. Contains(l, s) => s \in ToSet(l)
        BY <3>1 DEF Contains, ToSet
      <4> HIDE DEF l
      <4> QED BY <3>1, <4>1, AppendSet
    <3>3. g[i] = [mid[i] EXCEPT !.members = m]
      BY <1>1, <2>1, <2>3
    <3> HIDE DEF m
    <3> QED BY <1>7, <2>1, <2>3, <3>2, <3>3 DEF Groups
  <2> QED BY <2>2, <2>3
<1>11. g = [i \in DOMAIN mid |-> g[i]]
  BY <1>1
<1>12. Implements(g, d)
  <2>1. OtherGroup(mid, g, d)
    BY <1>9, <1>10, <1>11 DEF OtherGroup
  <2> QED BY <1>5, <1>7, <1>8, <2>1, GroupChanged
<1> QED BY <1>12 DEF g, d

LEMMA DeleteManualNodeRight ==
  ASSUME NEW f, Tidy(f), NEW c, Whole(c), Shows(ToSet(f), c), NEW n \in Abstract!Nodes
  PROVE  Implements(DeleteManualNode(f, n), Abstract!DeleteManualNode(c, n))
<1> DEFINE I == {i \in DOMAIN f : ~Is(f[i], "node", n)}
           rest == Kept(f, I)
           g == DeleteManualNode(f, n)
           c1 == [c EXCEPT !.nodes = @ \ {n}]
           d == Abstract!DeleteManualNode(c, n)
           K == {x \in ToSet(f) : ~Is(x, "node", n)}
<1>1. g = [i \in DOMAIN rest |->
             IF rest[i].typ = "group" /\ rest[i].selected = n
             THEN [rest[i] EXCEPT !.selected = None] ELSE rest[i]]
  BY DEF DeleteManualNode, Change, Drop
<1>2. Tidy(rest) /\ ToSet(rest) = K
  <2>1. I = {i \in DOMAIN f : f[i] \in K}
    BY DEF ToSet
  <2>2. K \in SUBSET ToSet(f) /\ Of(ToSet(f), "manager") \cup Of(ToSet(f), "group") \subseteq K
    BY DEF Is, Of
  <2> HIDE DEF K, I
  <2> QED BY <2>1, <2>2, KeptWhere
<1>3. Agree(c, c1, {"nodes"}) /\ c1.nodes = c.nodes \ {n}
  BY DEF Agree, Whole, Fields
<1>4. /\ Agree(c1, d, {"members", "selected", "final"}) /\ d.members = c1.members
      /\ d.selected = (IF c1.selected = n THEN None ELSE c1.selected) /\ d.final = c1.final
  BY DEF Abstract!DeleteManualNode, Agree, Whole, Fields
<1> HIDE DEF c1, d, rest, g
<1>5. Shows(ToSet(rest), c1)
  <2>1. \A typ : typ # "node" => Of(K, typ) = Of(ToSet(f), typ)
    BY DEF Of, Is
  <2>2. Of(K, "node") = {x \in Of(ToSet(f), "node") : x.name # n}
    BY DEF Of, Is
  <2>3. c1.nodes = Called(Of(K, "node"))
    BY <1>3, <2>2 DEF Called, Shows
  <2> HIDE DEF K
  <2> QED BY <1>2, <1>3, <2>1, <2>3 DEF Shows, Agree, Fields
<1>6. \A i \in DOMAIN rest : rest[i].typ # "group" => g[i] = rest[i]
  BY <1>1
<1>7. ASSUME NEW i \in DOMAIN rest, rest[i].typ = "group"
      PROVE  /\ g[i] \in Groups
             /\ ToSet(g[i].members) = d.members /\ g[i].selected = d.selected /\ g[i].final = d.final
  <2>1. /\ rest[i] \in Groups /\ ToSet(rest[i].members) = c1.members
        /\ rest[i].selected = c1.selected /\ rest[i].final = c1.final
    BY <1>2, <1>5, <1>7, GroupSection
  <2>2. g[i] = IF c1.selected = n THEN [rest[i] EXCEPT !.selected = None] ELSE rest[i]
    BY <1>1, <1>7, <2>1
  <2> QED BY <1>4, <2>1, <2>2 DEF Groups
<1>8. g = [i \in DOMAIN rest |-> g[i]]
  BY <1>1
<1>9. Implements(g, d)
  <2>1. OtherGroup(rest, g, d)
    BY <1>6, <1>7, <1>8 DEF OtherGroup
  <2> QED BY <1>2, <1>4, <1>5, <2>1, GroupChanged
<1> QED BY <1>9 DEF g, d


LEMMA RuleSetIds ==
  ASSUME NEW f, Tidy(f)
  PROVE  \A x \in Of(ToSet(f), "ruleset") : x \in RuleSetSections /\ Id(x) \in RuleSets
<1>1. TAKE x \in Of(ToSet(f), "ruleset")
<1>2. IsSection(x) /\ x.typ = "ruleset"
  BY DEF Of, ToSet, Tidy
<1>3. x \in RuleSetSections
  BY <1>2, SectionTypes
<1>4. Id(x) \in {x.name, x.id} \cap RuleSets
  BY <1>3 DEF RuleSetSections
<1> QED BY <1>3, <1>4

LEMMA DeleteSubscriptionRight ==
  ASSUME NEW f, Tidy(f), NEW c, Whole(c), Shows(ToSet(f), c), NEW s \in Subs
  PROVE  Implements(DeleteSubscription(f, s), Abstract!DeleteSubscription(c, s))
<1> DEFINE Gone(x) == Is(x, "subscription", s) \/ ImportedFrom(x, s)
           I == {i \in DOMAIN f : ~Gone(f[i])}
           rest == Kept(f, I)
           own == Abstract!NodesOf(s)
           deleted == {f[i].name : i \in {j \in DOMAIN f : ImportedFrom(f[j], s)}}
           g == DeleteSubscription(f, s)
           c1 == [c EXCEPT !.subs = @ \ {s}, !.on = @ \ {s}, !.fresh = @ \ {s}, !.failed = @ \ {s},
                           !.nodes = @ \ own]
           d == Abstract!DeleteSubscription(c, s)
           K == {x \in ToSet(f) : ~Gone(x)}
           U == Of(ToSet(f), "subscription")
           V == Of(K, "subscription")
           R == Of(ToSet(f), "ruleset")
<1>1. g = [i \in DOMAIN rest |->
             IF rest[i].typ = "group"
             THEN [rest[i] EXCEPT
                     !.members = Kept(@, {k \in DOMAIN @ : ~(@[k] = s)}),
                     !.selected = IF @ \in deleted THEN None ELSE @]
             ELSE rest[i]]
  BY DEF DeleteSubscription, Change, Drop
<1>2. Tidy(rest) /\ ToSet(rest) = K
  <2>1. I = {i \in DOMAIN f : f[i] \in K}
    BY DEF ToSet
  <2>2. K \in SUBSET ToSet(f) /\ Of(ToSet(f), "manager") \cup Of(ToSet(f), "group") \subseteq K
    BY DEF Is, ImportedFrom, Of
  <2> HIDE DEF K, I
  <2> QED BY <2>1, <2>2, KeptWhere
<1>3. /\ Agree(c, c1, {"subs", "on", "fresh", "failed", "nodes"})
      /\ c1.subs = c.subs \ {s} /\ c1.on = c.on \ {s} /\ c1.fresh = c.fresh \ {s}
      /\ c1.failed = c.failed \ {s} /\ c1.nodes = c.nodes \ own
  BY DEF Agree, Whole, Fields
<1>4. /\ Agree(c1, d, {"members", "selected", "final"})
      /\ d.members = c1.members \ {s} /\ d.final = c1.final
      /\ d.selected = (IF c1.selected \in own \cap c.nodes THEN None ELSE c1.selected)
  BY DEF Abstract!DeleteSubscription, Agree, Whole, Fields
<1>5. \A x \in ToSet(f) : x \in K <=> /\ ~(x.typ = "subscription" /\ x.name = s)
                                      /\ ~(x.typ = "node" /\ x.name \in own)
  BY SubscriptionSection
<1>6. deleted = own \cap c.nodes
  <2>1. deleted = {x.name : x \in {y \in ToSet(f) : ImportedFrom(y, s)}}
    BY DEF ToSet
  <2>2. c.nodes = Called(Of(ToSet(f), "node"))
    BY DEF Shows
  <2> HIDE DEF deleted, own
  <2>3. \A x \in ToSet(f) : ImportedFrom(x, s) <=> x.typ = "node" /\ x.name \in own
    BY SubscriptionSection DEF own
  <2> QED BY <2>1, <2>2, <2>3 DEF Of, Called
<1> HIDE DEF c1, d, rest, g, deleted, K, own
<1>7. Shows(K, c1)
  <2>1. \A typ : typ \notin {"node", "subscription"} => Of(K, typ) = Of(ToSet(f), typ)
    BY <1>5 DEF Of, K
  <2>2. /\ Of(K, "node") = {x \in Of(ToSet(f), "node") : x.name \notin own}
        /\ V = {x \in U : x.name # s}
    BY <1>5 DEF Of, K
  <2>3. c1.nodes = Called(Of(K, "node"))
    BY <1>3, <2>2 DEF Called, Shows
  <2>4. s \notin {Id(x) : x \in R}
    BY RuleSetIds, SectionConstants
  <2>5. SubsShown(U, c.subs, c.on) /\ DatesShown(U, R, c.fresh, c.failed)
    BY DEF Shows
  <2>6. R = Of(K, "ruleset")
    BY <2>1
  <2> HIDE DEF U, V, R
  <2>7. SubsShown(V, c1.subs, c1.on)
    BY <1>3, <2>2, <2>5 DEF SubsShown, Called
  <2>8. DatesShown(V, R, c1.fresh, c1.failed)
    BY <1>3, <2>2, <2>4, <2>5 DEF DatesShown, Called
  <2> QED BY <1>3, <2>1, <2>3, <2>6, <2>7, <2>8 DEF Shows, Agree, Fields, V
<1>8. \A i \in DOMAIN rest : rest[i].typ # "group" => g[i] = rest[i]
  BY <1>1
<1>9. ASSUME NEW i \in DOMAIN rest, rest[i].typ = "group"
      PROVE  /\ g[i] \in Groups
             /\ ToSet(g[i].members) = d.members /\ g[i].selected = d.selected /\ g[i].final = d.final
  <2> DEFINE l == rest[i].members
             J == {k \in DOMAIN l : ~(l[k] = s)}
             m == Kept(l, J)
             sel == IF rest[i].selected \in deleted THEN None ELSE rest[i].selected
  <2>1. /\ rest[i] \in Groups /\ ToSet(l) = c1.members
        /\ rest[i].selected = c1.selected /\ rest[i].final = c1.final
    BY <1>2, <1>7, <1>9, GroupSection
  <2>2. l \in Seq(Subs)
    BY <2>1 DEF Groups
  <2>3. g[i] = [rest[i] EXCEPT !.members = m, !.selected = sel]
    BY <1>1, <1>9
  <2> HIDE DEF l, m, sel
  <2>4. m \in Seq(Subs) /\ ToSet(m) = {l[k] : k \in J}
    BY <2>2, KeptSet DEF m
  <2>5. {l[k] : k \in J} = ToSet(l) \ {s}
    BY DEF ToSet
  <2>6. sel \in Abstract!Nodes \cup {None} /\ sel = d.selected
    BY <1>4, <1>6, <2>1 DEF Groups, sel
  <2>7. g[i] \in Groups /\ g[i].members = m /\ g[i].selected = sel /\ g[i].final = rest[i].final
    BY <2>1, <2>3, <2>4, <2>6 DEF Groups
  <2> QED BY <1>4, <2>1, <2>4, <2>5, <2>6, <2>7
<1>10. g = [i \in DOMAIN rest |-> g[i]]
  BY <1>1
<1>11. Implements(g, d)
  <2>1. OtherGroup(rest, g, d)
    BY <1>8, <1>9, <1>10 DEF OtherGroup
  <2> QED BY <1>2, <1>4, <1>7, <2>1, GroupChanged
<1> QED BY <1>11 DEF g, d

LEMMA DeleteDNSServerRight ==
  ASSUME NEW f, Tidy(f), NEW c, Whole(c), Shows(ToSet(f), c), NEW s \in Servers
  PROVE  Implements(DeleteDNSServer(f, s), Abstract!DeleteDNSServer(c, s))
<1> DEFINE Gone(x) == Is(x, "dns_server", s) \/ (x.typ = "dns_rule" /\ x.server = s)
           I == {i \in DOMAIN f : ~Gone(f[i])}
           rest == Kept(f, I)
           g == DeleteDNSServer(f, s)
           c1 == [c EXCEPT !.servers = @ \ {s},
                    !.rules = [r \in Abstract!Rules |->
                      IF r \in DNSRules /\ @[r] # None /\ @[r].server = s THEN None ELSE @[r]]]
           d == Abstract!DeleteDNSServer(c, s)
           K == {x \in ToSet(f) : ~Gone(x)}
<1>1. g = [i \in DOMAIN rest |->
             IF rest[i].typ = "group" /\ rest[i].final = s
             THEN [rest[i] EXCEPT !.final = None] ELSE rest[i]]
  BY DEF DeleteDNSServer, Change, Drop
<1>2. Tidy(rest) /\ ToSet(rest) = K
  <2>1. I = {i \in DOMAIN f : f[i] \in K}
    BY DEF ToSet
  <2>2. K \in SUBSET ToSet(f) /\ Of(ToSet(f), "manager") \cup Of(ToSet(f), "group") \subseteq K
    BY DEF Is, Of
  <2> HIDE DEF K, I
  <2> QED BY <2>1, <2>2, KeptWhere
<1>3. /\ Agree(c, c1, {"servers", "rules"}) /\ c1.servers = c.servers \ {s}
      /\ c1.rules = [r \in DNSRules \cup RouteRules |->
           IF r \in DNSRules /\ c.rules[r] # None /\ c.rules[r].server = s THEN None ELSE c.rules[r]]
  BY DEF Agree, Whole, Fields, Abstract!Rules
<1>4. /\ Agree(c1, d, {"members", "selected", "final"}) /\ d.members = c1.members
      /\ d.selected = c1.selected /\ d.final = (IF c1.final = s THEN None ELSE c1.final)
  BY DEF Abstract!DeleteDNSServer, Agree, Whole, Fields
<1> HIDE DEF c1, d, rest, g
<1>5. Shows(K, c1)
  <2> DEFINE D == Of(ToSet(f), "dns_rule")
             E == Of(ToSet(f), "route_rule")
             D1 == Of(K, "dns_rule")
  <2>1. \A typ : typ \notin {"dns_server", "dns_rule"} => Of(K, typ) = Of(ToSet(f), typ)
    BY DEF Of, Is
  <2>2. /\ Of(K, "dns_server") = {x \in Of(ToSet(f), "dns_server") : x.name # s}
        /\ D1 = {x \in D : x.server # s}
    BY DEF Of, Is
  <2>3. c1.servers = Called(Of(K, "dns_server"))
    BY <1>3, <2>2 DEF Called, Shows
  <2>4. RulesShown(D, E, c.rules)
    BY DEF Shows
  <2>5. /\ \A x \in D : x \in RuleSections /\ x.name \in DNSRules
        /\ \A x \in E : x \in RuleSections /\ x.name \notin DNSRules
    <3>1. \A x \in D \cup E : IsSection(x) /\ x.typ \in {"dns_rule", "route_rule"}
      BY DEF Of, ToSet, Tidy
    <3>2. \A x \in D \cup E : x \in RuleSections /\ x.typ = RuleType(x.name)
      BY <3>1, SectionTypes, NamedSection
    <3> QED BY <3>2 DEF RuleType, Of
  <2> HIDE DEF D, E, D1, K
  <2>6. RulesShown(D1, E, c1.rules)
    <3>1. c1.rules = [r \in DNSRules \cup RouteRules |-> c1.rules[r]]
      BY <1>3
    <3>2. \A x \in D \cup E : /\ x.name \in DNSRules \cup RouteRules /\ c.rules[x.name] = ReadRule(x)
                              /\ ReadRule(x) # None /\ ReadRule(x).server = x.server
      <4>1. TAKE x \in D \cup E
      <4>2. x \in RuleSections
        BY <2>5
      <4>3. x.server \in Servers \cup {None} /\ x.sources \in BOOLEAN /\ ToSet(x.sets) \in SUBSET RuleSets
            /\ x.name \in DNSRules \cup RouteRules
        BY <4>2 DEF RuleSections, ToSet
      <4>4. ReadRule(x) \in Abstract!Bodies
        BY <4>3 DEF ReadRule, Abstract!Bodies
      <4> QED BY <2>4, <4>3, <4>4, SectionConstants DEF RulesShown, ReadRule
    <3>3. \A x \in D1 \cup E : c1.rules[x.name] = ReadRule(x)
      BY <1>3, <2>2, <2>5, <3>2
    <3>4. ASSUME NEW r \in DNSRules \cup RouteRules, r \notin Called(D1 \cup E)
          PROVE  c1.rules[r] = None
      <4>1. CASE r \notin Called(D \cup E)
        BY <1>3, <2>4, <4>1 DEF RulesShown
      <4>2. CASE r \in Called(D \cup E)
        <5>1. PICK x \in D : r = x.name /\ x.server = s
          BY <2>2, <3>4, <4>2 DEF Called
        <5> QED BY <1>3, <2>5, <3>2, <5>1
      <4> QED BY <4>1, <4>2
    <3> QED BY <3>1, <3>3, <3>4 DEF RulesShown
  <2>7. RulesShown(Of(K, "dns_rule"), Of(K, "route_rule"), c1.rules)
    BY <2>1, <2>6 DEF D1, E
  <2> QED BY <1>3, <2>1, <2>3, <2>7 DEF Shows, Agree, Fields
<1> HIDE DEF K
<1>6. \A i \in DOMAIN rest : rest[i].typ # "group" => g[i] = rest[i]
  BY <1>1
<1>7. ASSUME NEW i \in DOMAIN rest, rest[i].typ = "group"
      PROVE  /\ g[i] \in Groups
             /\ ToSet(g[i].members) = d.members /\ g[i].selected = d.selected /\ g[i].final = d.final
  <2>1. /\ rest[i] \in Groups /\ ToSet(rest[i].members) = c1.members
        /\ rest[i].selected = c1.selected /\ rest[i].final = c1.final
    BY <1>2, <1>5, <1>7, GroupSection
  <2>2. g[i] = IF c1.final = s THEN [rest[i] EXCEPT !.final = None] ELSE rest[i]
    BY <1>1, <1>7, <2>1
  <2> QED BY <1>4, <2>1, <2>2 DEF Groups
<1>8. g = [i \in DOMAIN rest |-> g[i]]
  BY <1>1
<1>9. Implements(g, d)
  <2>1. OtherGroup(rest, g, d)
    BY <1>6, <1>7, <1>8 DEF OtherGroup
  <2> QED BY <1>2, <1>4, <1>5, <2>1, GroupChanged
<1> QED BY <1>9 DEF g, d


-----------------------------------------------------------------------------
(* Each edit: the rules and the rule sets.                                 *)

LEMMA RulesOf ==
  ASSUME NEW f, Tidy(f), NEW c, Shows(ToSet(f), c),
         NEW x \in Of(ToSet(f), "dns_rule") \cup Of(ToSet(f), "route_rule")
  PROVE  /\ x \in RuleSections /\ x.typ = RuleType(x.name) /\ x.name \in DNSRules \cup RouteRules
         /\ c.rules[x.name] = ReadRule(x) /\ ReadRule(x) \in Abstract!Bodies /\ ReadRule(x) # None
<1>1. IsSection(x) /\ x.typ \in {"dns_rule", "route_rule"}
  BY DEF Of, ToSet, Tidy
<1>2. x \in RuleSections /\ x.typ = RuleType(x.name) /\ x.name \in DNSRules \cup RouteRules
  BY <1>1, SectionTypes, NamedSection
<1>3. x.server \in Servers \cup {None} /\ x.sources \in BOOLEAN /\ ToSet(x.sets) \in SUBSET RuleSets
  BY <1>2 DEF RuleSections, ToSet
<1>4. ReadRule(x) \in Abstract!Bodies
  BY <1>3 DEF ReadRule, Abstract!Bodies
<1>5. c.rules[x.name] = ReadRule(x)
  BY DEF Shows, RulesShown
<1> QED BY <1>2, <1>4, <1>5, SectionConstants

LEMMA UpsertRuleRight ==
  ASSUME NEW f, Tidy(f), NEW c, Whole(c), Shows(ToSet(f), c),
         NEW r \in DNSRules \cup RouteRules, NEW body \in Abstract!Bodies
  PROVE  Implements(UpsertRule(f, r, body), Abstract!UpsertRule(c, r, body))
<1> DEFINE typ == RuleType(r)
           I == {i \in 1 .. Len(f) : Is(f[i], typ, r)}
           sec == RuleSection(r, body)
           g == UpsertRule(f, r, body)
           d == Abstract!UpsertRule(c, r, body)
           T == {x \in ToSet(f) : ~Alike(x, sec)} \cup {sec}
<1>1. g = Put(f, I, sec)
  BY DEF UpsertRule, Upsert, SelectInSeq, Put
<1>2. typ \in {"dns_rule", "route_rule"}
  BY DEF RuleType
<1>3. IsSection(sec) /\ sec.typ = typ /\ sec.name = r /\ ReadRule(sec) = body
  <2> DEFINE l == SetToSeq(body.sets)
  <2>1. /\ body.server \in Servers \cup {None} /\ body.sources \in BOOLEAN /\ body.sets \in SUBSET RuleSets
        /\ body = [server |-> body.server, sources |-> body.sources, sets |-> body.sets]
    BY DEF Abstract!Bodies
  <2>2. l \in Seq(RuleSets) /\ ToSet(l) = body.sets
    <3>1. IsFiniteSet(body.sets)
      BY <2>1, SectionConstants, FS_Subset
    <3>2. l \in Seq(body.sets) /\ ToSet(l) = body.sets
      BY <3>1, ListedSet
    <3> HIDE DEF l
    <3> QED BY <2>1, <3>2
  <2>3. sec = [typ |-> typ, name |-> r, server |-> body.server, sources |-> body.sources, sets |-> l]
    BY DEF RuleSection
  <2> HIDE DEF l, sec, typ
  <2>4. sec \in RuleSections /\ sec.typ = typ /\ sec.name = r
    BY <1>2, <2>1, <2>2, <2>3 DEF RuleSections, typ
  <2>5. ReadRule(sec) = body
    BY <2>1, <2>2, <2>3 DEF ReadRule
  <2> QED BY <2>4, <2>5 DEF IsSection
<1> HIDE DEF sec, g, typ
<1>4. I = {i \in 1 .. Len(f) : Alike(f[i], sec)}
  BY <1>2, <1>3 DEF Alike, Is, Id
<1>5. Tidy(g) /\ ToSet(g) = T
  BY <1>1, <1>3, <1>4, PutTidy
<1>6. Agree(c, d, {"rules"}) /\ d.rules = [c.rules EXCEPT ![r] = body]
  BY DEF Abstract!UpsertRule, Agree, Whole, Fields
<1>7. \A t : t \notin {"dns_rule", "route_rule"} => Of(T, t) = Of(ToSet(f), t)
  BY <1>2, <1>3 DEF Of, Alike
<1>8. RulesShown(Of(T, "dns_rule"), Of(T, "route_rule"), d.rules)
  <2> DEFINE A == DNSRules \cup RouteRules
             X == Of(ToSet(f), "dns_rule") \cup Of(ToSet(f), "route_rule")
             Y == Of(T, "dns_rule") \cup Of(T, "route_rule")
  <2>1. \A x \in X : x.typ = RuleType(x.name) /\ x.name \in A /\ c.rules[x.name] = ReadRule(x)
    BY RulesOf
  <2>2. /\ c.rules = [q \in A |-> c.rules[q]]
        /\ \A q \in A \ Called(X) : c.rules[q] = None
    BY DEF Shows, RulesShown
  <2>3. Y = {x \in X : x.name # r} \cup {sec}
    <3>1. \A x \in X : Alike(x, sec) <=> x.name = r
      BY <1>2, <1>3, <2>1 DEF Alike, Id, typ
    <3>2. \A x : x \in Y <=> x = sec \/ (x \in X /\ ~Alike(x, sec))
      BY <1>2, <1>3 DEF Of
    <3> HIDE DEF X, Y
    <3> QED BY <3>1, <3>2
  <2> HIDE DEF X, Y
  <2>4. d.rules = [q \in A |-> d.rules[q]] /\ \A q \in A : d.rules[q] = IF q = r THEN body ELSE c.rules[q]
    BY <1>6, <2>2
  <2>5. \A x \in Y : d.rules[x.name] = ReadRule(x)
    BY <1>3, <2>1, <2>3, <2>4
  <2>6. \A q \in A \ Called(Y) : d.rules[q] = None
    <3>1. Called(Y) = (Called(X) \ {r}) \cup {r}
      BY <1>3, <2>3 DEF Called
    <3> QED BY <2>2, <2>4, <3>1
  <2> QED BY <2>4, <2>5, <2>6 DEF RulesShown, Y
<1> HIDE DEF T, d
<1>9. Shows(T, d)
  BY <1>6, <1>7, <1>8 DEF Shows, Agree, Fields
<1> QED BY <1>5, <1>6, <1>9 DEF Implements, Agree, d, g

LEMMA DeleteRuleRight ==
  ASSUME NEW f, Tidy(f), NEW c, Whole(c), Shows(ToSet(f), c), NEW r \in DNSRules \cup RouteRules
  PROVE  Implements(DeleteRule(f, r), Abstract!DeleteRule(c, r))
<1> DEFINE typ == RuleType(r)
           I == {i \in DOMAIN f : ~Is(f[i], typ, r)}
           g == DeleteRule(f, r)
           d == Abstract!DeleteRule(c, r)
           K == {x \in ToSet(f) : ~Is(x, typ, r)}
<1>1. g = Kept(f, I)
  BY DEF DeleteRule, Drop
<1>2. typ \in {"dns_rule", "route_rule"}
  BY DEF RuleType
<1> HIDE DEF g
<1>3. Tidy(g) /\ ToSet(g) = K
  <2>1. I = {i \in DOMAIN f : f[i] \in K}
    BY DEF ToSet
  <2>2. K \in SUBSET ToSet(f) /\ Of(ToSet(f), "manager") \cup Of(ToSet(f), "group") \subseteq K
    BY <1>2 DEF Is, Of
  <2> HIDE DEF K, I
  <2> QED BY <1>1, <2>1, <2>2, KeptWhere
<1>4. Agree(c, d, {"rules"}) /\ d.rules = [c.rules EXCEPT ![r] = None]
  BY DEF Abstract!DeleteRule, Agree, Whole, Fields
<1>5. \A t : t \notin {"dns_rule", "route_rule"} => Of(K, t) = Of(ToSet(f), t)
  BY <1>2 DEF Of, Is
<1>6. RulesShown(Of(K, "dns_rule"), Of(K, "route_rule"), d.rules)
  <2> DEFINE A == DNSRules \cup RouteRules
             X == Of(ToSet(f), "dns_rule") \cup Of(ToSet(f), "route_rule")
             Y == Of(K, "dns_rule") \cup Of(K, "route_rule")
  <2>1. \A x \in X : x.typ = RuleType(x.name) /\ x.name \in A /\ c.rules[x.name] = ReadRule(x)
    BY RulesOf
  <2>2. /\ c.rules = [q \in A |-> c.rules[q]]
        /\ \A q \in A \ Called(X) : c.rules[q] = None
    BY DEF Shows, RulesShown
  <2>3. Y = {x \in X : x.name # r}
    <3>1. \A x \in X : Is(x, typ, r) <=> x.name = r
      BY <2>1 DEF Is
    <3>2. \A x : x \in Y <=> x \in X /\ ~Is(x, typ, r)
      BY DEF Of
    <3> HIDE DEF X, Y
    <3> QED BY <3>1, <3>2
  <2> HIDE DEF X, Y
  <2>4. d.rules = [q \in A |-> d.rules[q]] /\ \A q \in A : d.rules[q] = IF q = r THEN None ELSE c.rules[q]
    BY <1>4, <2>2
  <2>5. \A x \in Y : d.rules[x.name] = ReadRule(x)
    BY <2>1, <2>3, <2>4
  <2>6. Called(Y) = Called(X) \ {r}
    BY <2>3 DEF Called
  <2>7. \A q \in A \ Called(Y) : d.rules[q] = None
    BY <2>2, <2>4, <2>6
  <2> QED BY <2>4, <2>5, <2>7 DEF RulesShown, Y
<1> HIDE DEF K, d
<1>7. Shows(K, d)
  BY <1>4, <1>5, <1>6 DEF Shows, Agree, Fields
<1> QED BY <1>3, <1>4, <1>7 DEF Implements, Agree, d, g

LEMMA UpsertRuleSetRight ==
  ASSUME NEW f, Tidy(f), NEW c, Whole(c), Shows(ToSet(f), c), NEW s \in RuleSets
  PROVE  Implements(UpsertRuleSet(f, s), Abstract!UpsertRuleSet(c, s))
<1> DEFINE I == {i \in 1 .. Len(f) : IsRuleSetSection(f[i], s)}
           at == IF I # {} THEN Min(I) ELSE 0
           sec == [typ |-> "ruleset", name |-> IF at = 0 THEN SectionName[s] ELSE f[at].name, id |-> s,
                   updated |-> IF at = 0 THEN "" ELSE f[at].updated,
                   error |-> at # 0 /\ f[at].error]
           g == UpsertRuleSet(f, s)
           d == Abstract!UpsertRuleSet(c, s)
           T == {x \in ToSet(f) : ~Alike(x, sec)} \cup {sec}
           R == Of(ToSet(f), "ruleset")
           V == Of(T, "ruleset")
           U == Of(ToSet(f), "subscription")
<1>1. g = Put(f, I, sec)
  BY DEF UpsertRuleSet, Upsert, SelectInSeq, Put
<1>2. \A i \in DOMAIN f : IsRuleSetSection(f[i], s) <=> f[i].typ = "ruleset" /\ Id(f[i]) = s
  BY RuleSetSection
<1>3. /\ at = 0 => \A x \in R : Id(x) # s
      /\ at # 0 => f[at] \in R /\ Id(f[at]) = s /\ \A x \in R : Id(x) = s => x = f[at]
  <2>1. Len(f) \in Nat /\ DOMAIN f = 1 .. Len(f)
    BY TidyList
  <2>2. CASE I = {}
    BY <1>2, <2>1, <2>2 DEF Of, ToSet
  <2>3. CASE I # {}
    <3>1. PICK i \in I : TRUE
      BY <2>3
    <3>2. \A j \in I : j = i
      BY <1>2, <2>1 DEF Tidy, Alike
    <3>3. at = i /\ i \in DOMAIN f /\ f[i].typ = "ruleset" /\ Id(f[i]) = s /\ i # 0
      BY <1>2, <2>1, <3>1, <3>2 DEF Min
    <3> HIDE DEF at
    <3>4. \A x \in R : Id(x) = s => x = f[i]
      <4>1. TAKE x \in R
      <4>2. PICK j \in DOMAIN f : f[j] = x /\ x.typ = "ruleset"
        BY DEF Of, ToSet
      <4>3. Id(x) = s => j \in I
        BY <1>2, <2>1, <4>2
      <4> QED BY <3>2, <4>2, <4>3
    <3> QED BY <3>3, <3>4 DEF Of, ToSet
  <2> QED BY <2>2, <2>3
<1> HIDE DEF at
<1>4. \A x \in R : x \in RuleSetSections /\ Id(x) \in RuleSets
  BY RuleSetIds
<1>5. /\ IsSection(sec) /\ sec.typ = "ruleset" /\ Id(sec) = s
      /\ sec.updated = (IF at = 0 THEN "" ELSE f[at].updated) /\ sec.error = (at # 0 /\ f[at].error)
  <2> DEFINE name == IF at = 0 THEN SectionName[s] ELSE f[at].name
             updated == IF at = 0 THEN "" ELSE f[at].updated
             error == at # 0 /\ f[at].error
             names == RuleSets \cup {SectionName[h] : h \in RuleSets}
  <2>1. updated \in Dates /\ error \in BOOLEAN
    BY <1>3, <1>4 DEF Dates, RuleSetSections
  <2>2. name \in names /\ (name \in RuleSets => name = s)
    <3>1. CASE at = 0
      BY <3>1, SectionConstants
    <3>2. CASE at # 0
      BY <1>3, <1>4, <3>2 DEF RuleSetSections
    <3> QED BY <3>1, <3>2
  <2>3. sec = [typ |-> "ruleset", name |-> name, id |-> s, updated |-> updated, error |-> error]
    OBVIOUS
  <2> HIDE DEF name, updated, error, sec
  <2>4. Id(sec) = s /\ sec.typ = "ruleset" /\ sec.updated = updated /\ sec.error = error
    BY <2>3, SectionConstants DEF Id
  <2>5. {sec.name, sec.id} \cap RuleSets = {s}
    BY <2>2, <2>3
  <2>6. sec \in [typ : {"ruleset"}, name : names, id : RuleSets \cup {None}, updated : Dates, error : BOOLEAN]
    BY <2>1, <2>2, <2>3
  <2>7. sec \in RuleSetSections
    BY <2>4, <2>5, <2>6 DEF RuleSetSections
  <2> QED BY <2>4, <2>7 DEF IsSection, updated, error
<1> HIDE DEF sec, g
<1>6. Tidy(g) /\ ToSet(g) = T
  <2>1. I = {i \in 1 .. Len(f) : Alike(f[i], sec)}
    BY <1>2, <1>5, TidyList DEF Alike
  <2> HIDE DEF I
  <2> QED BY <1>1, <1>5, <2>1, PutTidy
<1>7. Agree(c, d, {"rulesets"}) /\ d.rulesets = c.rulesets \cup {s}
  BY DEF Abstract!UpsertRuleSet, Agree, Whole, Fields
<1>8. \A typ : typ # "ruleset" => Of(T, typ) = Of(ToSet(f), typ)
  BY <1>5 DEF Of, Alike
<1>9. V = {x \in R : Id(x) # s} \cup {sec}
  BY <1>5 DEF Of, Alike
<1>10. SetsShown(R, c.rulesets) /\ DatesShown(U, R, c.fresh, c.failed)
  BY DEF Shows
<1> HIDE DEF T, d, V, R, U
<1>11. SetsShown(V, d.rulesets)
  BY <1>5, <1>7, <1>9, <1>10 DEF SetsShown
<1>12. {Id(x) : x \in {y \in V : y.updated = "now"}} = {Id(x) : x \in {y \in R : y.updated = "now"}}
  BY <1>3, <1>5, <1>9
<1>13. {Id(x) : x \in {y \in V : y.error}} = {Id(x) : x \in {y \in R : y.error}}
  BY <1>3, <1>5, <1>9
<1>14. DatesShown(U, V, d.fresh, d.failed)
  BY <1>7, <1>10, <1>12, <1>13 DEF DatesShown, Agree, Fields
<1>15. Shows(T, d)
  BY <1>7, <1>8, <1>11, <1>14 DEF Shows, Agree, Fields, U, V
<1> QED BY <1>6, <1>7, <1>15 DEF Implements, Agree, d, g


(* The rules without a rule set, all of them.                              *)
Cut(body, s) == [body EXCEPT !.sets = @ \ {s}]
CutRules(c, s) ==
  [c EXCEPT !.rules = [r \in Abstract!Rules |-> IF @[r] = None THEN None ELSE Cut(@[r], s)]]

CutFrom(f, s) ==
  [i \in DOMAIN f |->
     IF f[i].typ \in {"dns_rule", "route_rule"}
     THEN [f[i] EXCEPT !.sets = Kept(@, {k \in DOMAIN @ : ~(@[k] = s)})] ELSE f[i]]

LEMMA EmptyList ==
  ASSUME NEW A, NEW l \in Seq(A)
  PROVE  l = << >> <=> ToSet(l) = {}
<1>1. Len(l) \in Nat /\ DOMAIN l = 1 .. Len(l)
  OBVIOUS
<1>2. l = << >> <=> Len(l) = 0
  OBVIOUS
<1>3. ToSet(l) = {} <=> 1 .. Len(l) = {}
  BY <1>1 DEF ToSet
<1> QED BY <1>1, <1>2, <1>3

LEMMA CutRight ==
  ASSUME NEW f, Tidy(f), NEW c, Whole(c), Shows(ToSet(f), c), NEW s \in RuleSets
  PROVE  Implements(CutFrom(f, s), CutRules(c, s))
<1> DEFINE g == CutFrom(f, s)
           d == CutRules(c, s)
           A == DNSRules \cup RouteRules
           D == Of(ToSet(f), "dns_rule")
           E == Of(ToSet(f), "route_rule")
           I == {i \in DOMAIN f : f[i].typ \in {"dns_rule", "route_rule"}}
           Y == Of(ToSet(g), "dns_rule") \cup Of(ToSet(g), "route_rule")
<1>1. g = [i \in DOMAIN f |->
             IF i \in I THEN [f[i] EXCEPT !.sets = Kept(@, {k \in DOMAIN @ : ~(@[k] = s)})] ELSE f[i]]
  BY DEF CutFrom
<1>2. Agree(c, d, {"rules"}) /\ d.rules = [r \in A |-> IF c.rules[r] = None THEN None ELSE Cut(c.rules[r], s)]
  BY DEF CutRules, Agree, Whole, Fields, Abstract!Rules
<1> HIDE DEF g, d
<1>3. ASSUME NEW i \in I
      PROVE  /\ g[i] \in RuleSections /\ g[i].typ = f[i].typ /\ g[i].name = f[i].name
             /\ ReadRule(g[i]) = Cut(ReadRule(f[i]), s)
  <2> DEFINE l == f[i].sets
             J == {k \in DOMAIN l : ~(l[k] = s)}
             m == Kept(l, J)
  <2>1. f[i] \in RuleSections
    BY SectionTypes DEF Tidy
  <2>2. l \in Seq(RuleSets)
    BY <2>1 DEF RuleSections
  <2>3. g[i] = [f[i] EXCEPT !.sets = m]
    BY <1>1
  <2> HIDE DEF m
  <2>4. m \in Seq(RuleSets) /\ ToSet(m) = ToSet(l) \ {s}
    <3>1. {l[k] : k \in J} = ToSet(l) \ {s}
      BY DEF ToSet
    <3> HIDE DEF l
    <3>2. m \in Seq(RuleSets) /\ ToSet(m) = {l[k] : k \in J}
      BY <2>2, KeptSet DEF m
    <3> QED BY <3>1, <3>2
  <2>5. g[i] \in RuleSections /\ g[i].typ = f[i].typ /\ g[i].name = f[i].name
    BY <2>1, <2>3, <2>4 DEF RuleSections
  <2>6. g[i].server = f[i].server /\ g[i].sources = f[i].sources /\ g[i].sets = m
    BY <2>1, <2>3 DEF RuleSections
  <2>7. ReadRule(g[i]) = Cut(ReadRule(f[i]), s)
    <3> HIDE DEF l
    <3>1. ReadRule(f[i]) = [server |-> f[i].server, sources |-> f[i].sources, sets |-> ToSet(l)]
      BY DEF ReadRule, l
    <3>2. ReadRule(g[i]) = [server |-> f[i].server, sources |-> f[i].sources, sets |-> ToSet(l) \ {s}]
      BY <2>4, <2>6 DEF ReadRule
    <3> QED BY <3>1, <3>2 DEF Cut
  <2> QED BY <2>5, <2>7
<1>4. \A i \in DOMAIN f : IsSection(g[i]) /\ g[i].typ = f[i].typ /\ Id(g[i]) = Id(f[i])
  <2>1. TAKE i \in DOMAIN f
  <2>2. CASE i \in I
    <3>1. g[i].typ # "ruleset"
      BY <1>3, <2>2
    <3> QED BY <1>3, <2>2, <3>1 DEF IsSection, Id
  <2>3. CASE i \notin I
    BY <1>1, <2>3 DEF Tidy
  <2> QED BY <2>2, <2>3
<1>5. Tidy(g) /\ DOMAIN g = DOMAIN f
  <2>1. g = [i \in DOMAIN f |-> g[i]]
    BY <1>1
  <2> QED BY <1>4, <2>1, Changed
<1>6. ASSUME NEW typ, typ \notin {"dns_rule", "route_rule"}
      PROVE  Of(ToSet(g), typ) = Of(ToSet(f), typ)
  <2>1. \A i \in Typed(f, typ) : g[i] = f[i]
    BY <1>1, <1>6 DEF Typed
  <2> HIDE DEF I
  <2> QED BY <1>4, <1>5, <2>1, SectionsOf
<1>7. D \cup E = {f[i] : i \in I} /\ Y = {g[i] : i \in I}
  <2>1. D \cup E = {f[i] : i \in I}
    BY DEF Of, ToSet
  <2>2. Y = {g[i] : i \in I}
    BY <1>4, <1>5 DEF Of, ToSet
  <2> QED BY <2>1, <2>2
<1>8. \A x \in D \cup E : x.name \in A /\ c.rules[x.name] = ReadRule(x) /\ ReadRule(x) # None
  BY RulesOf
<1>9. \A r \in A \ Called(D \cup E) : c.rules[r] = None
  BY DEF Shows, RulesShown
<1> HIDE DEF I, D, E, Y
<1>10. RulesShown(Of(ToSet(g), "dns_rule"), Of(ToSet(g), "route_rule"), d.rules)
  <2>1. \A y \in Y : d.rules[y.name] = ReadRule(y)
    <3>1. TAKE y \in Y
    <3>2. PICK i \in I : y = g[i]
      BY <1>7
    <3>3. f[i] \in D \cup E
      BY <1>7
    <3> QED BY <1>2, <1>3, <1>8, <3>2, <3>3
  <2>2. Called(Y) = Called(D \cup E)
    BY <1>3, <1>7 DEF Called
  <2>3. \A r \in A \ Called(Y) : d.rules[r] = None
    BY <1>2, <1>9, <2>2
  <2>4. d.rules = [r \in A |-> d.rules[r]]
    BY <1>2
  <2> QED BY <2>1, <2>3, <2>4 DEF RulesShown, Y
<1>11. Shows(ToSet(g), d)
  BY <1>2, <1>6, <1>10 DEF Shows, Agree, Fields
<1> QED BY <1>2, <1>5, <1>11 DEF Implements, Agree, g, d

LEMMA DeleteRuleSetRight ==
  ASSUME NEW f, Tidy(f), NEW c, Whole(c), Shows(ToSet(f), c), NEW s \in RuleSets
  PROVE  Implements(DeleteRuleSet(f, s), Abstract!DeleteRuleSet(c, s))
<1> DEFINE I == {i \in DOMAIN f : ~IsRuleSetSection(f[i], s)}
           rest == Kept(f, I)
           cut == CutFrom(rest, s)
           Idle(x) == x.typ \in {"dns_rule", "route_rule"} /\ ~x.sources /\ x.sets = << >>
           J == {i \in DOMAIN cut : ~Idle(cut[i])}
           g == DeleteRuleSet(f, s)
           c1 == [c EXCEPT !.rulesets = @ \ {s}, !.fresh = @ \ {s}, !.failed = @ \ {s}]
           c2 == CutRules(c1, s)
           d == Abstract!DeleteRuleSet(c, s)
           K == {x \in ToSet(f) : ~IsRuleSetSection(x, s)}
           L == {x \in ToSet(cut) : ~Idle(x)}
           A == DNSRules \cup RouteRules
<1>1. g = Kept(cut, J)
  BY DEF DeleteRuleSet, Drop, Change, CutFrom
<1>2. Tidy(rest) /\ ToSet(rest) = K
  <2>1. I = {i \in DOMAIN f : f[i] \in K}
    BY DEF ToSet
  <2>2. K \in SUBSET ToSet(f) /\ Of(ToSet(f), "manager") \cup Of(ToSet(f), "group") \subseteq K
    BY DEF IsRuleSetSection, Of
  <2> HIDE DEF K, I
  <2> QED BY <2>1, <2>2, KeptWhere
<1>3. /\ Agree(c, c1, {"rulesets", "fresh", "failed"})
      /\ c1.rulesets = c.rulesets \ {s} /\ c1.fresh = c.fresh \ {s} /\ c1.failed = c.failed \ {s}
  BY DEF Agree, Whole, Fields
<1>4. /\ Agree(c1, c2, {"rules"})
      /\ c2.rules = [r \in A |-> IF c1.rules[r] = None THEN None ELSE Cut(c1.rules[r], s)]
  BY <1>3 DEF CutRules, Agree, Whole, Fields, Abstract!Rules
<1>5. /\ Agree(c2, d, {"rules"})
      /\ d.rules = [r \in A |-> IF c1.rules[r] = None THEN None ELSE Abstract!Without(c1.rules[r], s)]
  <2>1. Whole(d) /\ d.rules = [r \in A |-> IF c.rules[r] = None THEN None ELSE Abstract!Without(c.rules[r], s)]
    BY DEF Abstract!DeleteRuleSet, Whole, Fields, Abstract!Rules
  <2>2. \A k \in Fields \ {"rules"} : d[k] = c1[k]
    BY DEF Abstract!DeleteRuleSet, Whole, Fields
  <2>3. c1.rules = c.rules
    BY <1>3 DEF Agree, Fields
  <2> HIDE DEF d, c1, c2
  <2> QED BY <1>4, <2>1, <2>2, <2>3 DEF Agree
<1> HIDE DEF c1, d, rest, g
<1>6. Shows(K, c1)
  <2> DEFINE R == Of(ToSet(f), "ruleset")
             V == Of(K, "ruleset")
             U == Of(ToSet(f), "subscription")
  <2>1. \A x \in ToSet(f) : IsRuleSetSection(x, s) <=> x.typ = "ruleset" /\ Id(x) = s
    BY RuleSetSection DEF ToSet
  <2>2. \A typ : typ # "ruleset" => Of(K, typ) = Of(ToSet(f), typ)
    BY <2>1 DEF Of
  <2>3. V = {x \in R : Id(x) # s}
    BY <2>1 DEF Of
  <2>4. s \notin Called(U)
    <3>1. \A x \in U : x.name \in Subs
      BY NamedSection DEF Tidy, ToSet, Of
    <3> QED BY <3>1, SectionConstants DEF Called
  <2>5. SetsShown(R, c.rulesets) /\ DatesShown(U, R, c.fresh, c.failed)
    BY DEF Shows
  <2> HIDE DEF R, V, U, K
  <2>6. SetsShown(V, c1.rulesets)
    BY <1>3, <2>3, <2>5 DEF SetsShown
  <2>7. DatesShown(U, V, c1.fresh, c1.failed)
    BY <1>3, <2>3, <2>4, <2>5 DEF DatesShown, Called
  <2> QED BY <1>3, <2>2, <2>6, <2>7 DEF Shows, Agree, Fields, U, V
<1> HIDE DEF K
<1>7. Tidy(cut) /\ Whole(c2) /\ Shows(ToSet(cut), c2)
  <2>1. Implements(cut, c2)
    BY <1>2, <1>3, <1>6, CutRight DEF Agree
  <2> QED BY <2>1 DEF Implements
<1> HIDE DEF c2, cut
<1>8. Tidy(g) /\ ToSet(g) = L
  <2>1. J = {i \in DOMAIN cut : cut[i] \in L}
    BY DEF ToSet
  <2>2. L \in SUBSET ToSet(cut) /\ Of(ToSet(cut), "manager") \cup Of(ToSet(cut), "group") \subseteq L
    BY DEF Of
  <2> HIDE DEF L, J
  <2> QED BY <1>1, <1>7, <2>1, <2>2, KeptWhere
<1>9. \A typ : typ \notin {"dns_rule", "route_rule"} => Of(L, typ) = Of(ToSet(cut), typ)
  BY DEF Of
<1>10. RulesShown(Of(L, "dns_rule"), Of(L, "route_rule"), d.rules)
  <2> DEFINE X == Of(ToSet(cut), "dns_rule") \cup Of(ToSet(cut), "route_rule")
             Y == Of(L, "dns_rule") \cup Of(L, "route_rule")
  <2>1. ASSUME NEW x \in X
        PROVE  /\ x.name \in A /\ c2.rules[x.name] = ReadRule(x) /\ ReadRule(x) # None
               /\ Idle(x) <=> ~ReadRule(x).sources /\ ReadRule(x).sets = {}
    <3>1. x \in RuleSections /\ x.name \in A /\ c2.rules[x.name] = ReadRule(x) /\ ReadRule(x) # None
      BY <1>7, RulesOf
    <3>2. x.sets \in Seq(RuleSets) /\ x.typ \in {"dns_rule", "route_rule"}
      BY <3>1 DEF RuleSections
    <3>3. x.sets = << >> <=> ToSet(x.sets) = {}
      BY <3>2, EmptyList
    <3> QED BY <3>1, <3>2, <3>3 DEF ReadRule
  <2>2. Y = {x \in X : ~Idle(x)}
    BY DEF Of
  <2>3. \A r \in A \ Called(X) : c2.rules[r] = None
    BY <1>7 DEF Shows, RulesShown
  <2>4. \A r \in A : d.rules[r] =
          IF c2.rules[r] = None \/ (~c2.rules[r].sources /\ c2.rules[r].sets = {})
          THEN None ELSE c2.rules[r]
    <3>1. TAKE r \in A
    <3>2. CASE c1.rules[r] = None
      BY <1>4, <1>5, <3>2
    <3>3. CASE c1.rules[r] # None
      <4> DEFINE b == c1.rules[r]
      <4>1. b \in Abstract!Bodies
        <5>1. c1.rules = c.rules
          BY <1>3 DEF Agree, Fields
        <5>2. RulesShown(Of(ToSet(f), "dns_rule"), Of(ToSet(f), "route_rule"), c.rules)
          BY DEF Shows
        <5>3. PICK x \in Of(ToSet(f), "dns_rule") \cup Of(ToSet(f), "route_rule") : x.name = r
          BY <3>3, <5>1, <5>2 DEF RulesShown, Called
        <5> QED BY <5>1, <5>3, RulesOf
      <4>2. c2.rules[r] = Cut(b, s) /\ d.rules[r] = Abstract!Without(b, s)
        BY <1>4, <1>5, <3>3
      <4> HIDE DEF b
      <4>3. Cut(b, s) \in Abstract!Bodies /\ Cut(b, s).sources = b.sources /\ Cut(b, s).sets = b.sets \ {s}
        BY <4>1 DEF Cut, Abstract!Bodies
      <4>4. Cut(b, s) # None
        BY <4>3, SectionConstants
      <4>5. Abstract!Without(b, s) = IF b.sources \/ b.sets \ {s} # {} THEN Cut(b, s) ELSE None
        BY DEF Abstract!Without, Cut
      <4> QED BY <4>2, <4>3, <4>4, <4>5
    <3> QED BY <3>2, <3>3
  <2> HIDE DEF X, Y, Idle
  <2>5. \A x \in Y : d.rules[x.name] = ReadRule(x)
    BY <2>1, <2>2, <2>4
  <2>6. \A r \in A \ Called(Y) : d.rules[r] = None
    <3>1. TAKE r \in A \ Called(Y)
    <3>2. CASE r \in Called(X)
      <4>1. PICK x \in X : x.name = r
        BY <3>2 DEF Called
      <4>2. Idle(x)
        BY <2>2, <4>1 DEF Called
      <4> QED BY <2>1, <2>4, <4>1, <4>2
    <3>3. CASE r \notin Called(X)
      BY <2>3, <2>4, <3>3
    <3> QED BY <3>2, <3>3
  <2>7. d.rules = [r \in A |-> d.rules[r]]
    BY <1>5
  <2> QED BY <2>5, <2>6, <2>7 DEF RulesShown, Y
<1> HIDE DEF L
<1>11. Shows(L, d)
  BY <1>5, <1>7, <1>9, <1>10 DEF Shows, Agree, Fields
<1> QED BY <1>5, <1>8, <1>11 DEF Implements, Agree, d, g


-----------------------------------------------------------------------------
(* All the edits.                                                          *)

LEMMA MutateRight ==
  ASSUME NEW f, Tidy(f), NEW c, Whole(c), Shows(ToSet(f), c),
         NEW e, Abstract!WellFormed(e), e.op # "UpdateHealth"
  PROVE  Implements(Mutate(f, e), Abstract!Mutate(c, e))
<1>1. CASE e.op = "UpsertSubscription"
  <2>1. e.id \in Subs /\ e.on \in BOOLEAN /\ e.attach \in BOOLEAN
    BY <1>1 DEF Abstract!WellFormed
  <2>2. Mutate(f, e) = UpsertSubscription(f, e.id, e.on, e.attach)
      /\ Abstract!Mutate(c, e) = Abstract!UpsertSubscription(c, e.id, e.on, e.attach)
    BY <1>1 DEF Mutate, Abstract!Mutate
  <2> QED BY <2>1, <2>2, UpsertSubscriptionRight
<1>2. CASE e.op = "ReplaceSubscriptionNodes"
  <2>1. e.id \in Subs /\ e.nodes \in SUBSET Abstract!NodesOf(e.id)
    BY <1>2 DEF Abstract!WellFormed
  <2>2. Mutate(f, e) = ReplaceSubscriptionNodes(f, e.id, e.nodes)
      /\ Abstract!Mutate(c, e) = Abstract!ReplaceSubscriptionNodes(c, e.id, e.nodes)
    BY <1>2 DEF Mutate, Abstract!Mutate
  <2> QED BY <2>1, <2>2, ReplaceSubscriptionNodesRight
<1>3. CASE e.op = "MarkSubscriptionError"
  <2>1. e.id \in Subs
    BY <1>3 DEF Abstract!WellFormed
  <2>2. Mutate(f, e) = MarkSubscriptionError(f, e.id)
      /\ Abstract!Mutate(c, e) = Abstract!MarkSubscriptionError(c, e.id)
    BY <1>3 DEF Mutate, Abstract!Mutate
  <2> QED BY <2>1, <2>2, MarkSubscriptionErrorRight
<1>4. CASE e.op = "DeleteSubscription"
  <2>1. e.id \in Subs
    BY <1>4 DEF Abstract!WellFormed
  <2>2. Mutate(f, e) = DeleteSubscription(f, e.id)
      /\ Abstract!Mutate(c, e) = Abstract!DeleteSubscription(c, e.id)
    BY <1>4 DEF Mutate, Abstract!Mutate
  <2> QED BY <2>1, <2>2, DeleteSubscriptionRight
<1>5. CASE e.op = "UpsertManualNode"
  <2>1. e.id \in Abstract!Nodes
    BY <1>5 DEF Abstract!WellFormed
  <2>2. Mutate(f, e) = UpsertManualNode(f, e.id)
      /\ Abstract!Mutate(c, e) = Abstract!UpsertManualNode(c, e.id)
    BY <1>5 DEF Mutate, Abstract!Mutate
  <2> QED BY <2>1, <2>2, UpsertManualNodeRight
<1>6. CASE e.op = "DeleteManualNode"
  <2>1. e.id \in Abstract!Nodes
    BY <1>6 DEF Abstract!WellFormed
  <2>2. Mutate(f, e) = DeleteManualNode(f, e.id)
      /\ Abstract!Mutate(c, e) = Abstract!DeleteManualNode(c, e.id)
    BY <1>6 DEF Mutate, Abstract!Mutate
  <2> QED BY <2>1, <2>2, DeleteManualNodeRight
<1>7. CASE e.op = "SelectNode"
  <2>1. e.id \in Abstract!Nodes
    BY <1>7 DEF Abstract!WellFormed
  <2>2. Mutate(f, e) = SelectNode(f, e.id)
      /\ Abstract!Mutate(c, e) = Abstract!SelectNode(c, e.id)
    BY <1>7 DEF Mutate, Abstract!Mutate
  <2> QED BY <2>1, <2>2, SelectNodeRight
<1>8. CASE e.op = "SetGroupSettings"
  <2>1. e.id \in Abstract!Nodes \cup {None} /\ e.members \in SUBSET Subs /\ e.final \in Servers \cup {None}
    BY <1>8 DEF Abstract!WellFormed
  <2>2. Mutate(f, e) = SetGroupSettings(f, e.members, e.id, e.final)
      /\ Abstract!Mutate(c, e) = Abstract!SetGroupSettings(c, e.members, e.id, e.final)
    BY <1>8 DEF Mutate, Abstract!Mutate
  <2> QED BY <2>1, <2>2, SetGroupSettingsRight
<1>9. CASE e.op = "UpsertDNSServer"
  <2>1. e.id \in Servers
    BY <1>9 DEF Abstract!WellFormed
  <2>2. Mutate(f, e) = UpsertDNSServer(f, e.id)
      /\ Abstract!Mutate(c, e) = Abstract!UpsertDNSServer(c, e.id)
    BY <1>9 DEF Mutate, Abstract!Mutate
  <2> QED BY <2>1, <2>2, UpsertDNSServerRight
<1>10. CASE e.op = "DeleteDNSServer"
  <2>1. e.id \in Servers
    BY <1>10 DEF Abstract!WellFormed
  <2>2. Mutate(f, e) = DeleteDNSServer(f, e.id)
      /\ Abstract!Mutate(c, e) = Abstract!DeleteDNSServer(c, e.id)
    BY <1>10 DEF Mutate, Abstract!Mutate
  <2> QED BY <2>1, <2>2, DeleteDNSServerRight
<1>11. CASE e.op = "UpsertRule"
  <2>1. e.id \in DNSRules \cup RouteRules /\ e.body \in Abstract!Bodies
    BY <1>11 DEF Abstract!WellFormed, Abstract!Rules
  <2>2. Mutate(f, e) = UpsertRule(f, e.id, e.body)
      /\ Abstract!Mutate(c, e) = Abstract!UpsertRule(c, e.id, e.body)
    BY <1>11 DEF Mutate, Abstract!Mutate
  <2> QED BY <2>1, <2>2, UpsertRuleRight
<1>12. CASE e.op = "DeleteRule"
  <2>1. e.id \in DNSRules \cup RouteRules
    BY <1>12 DEF Abstract!WellFormed, Abstract!Rules
  <2>2. Mutate(f, e) = DeleteRule(f, e.id)
      /\ Abstract!Mutate(c, e) = Abstract!DeleteRule(c, e.id)
    BY <1>12 DEF Mutate, Abstract!Mutate
  <2> QED BY <2>1, <2>2, DeleteRuleRight
<1>13. CASE e.op = "UpsertRuleSet"
  <2>1. e.id \in RuleSets
    BY <1>13 DEF Abstract!WellFormed
  <2>2. Mutate(f, e) = UpsertRuleSet(f, e.id)
      /\ Abstract!Mutate(c, e) = Abstract!UpsertRuleSet(c, e.id)
    BY <1>13 DEF Mutate, Abstract!Mutate
  <2> QED BY <2>1, <2>2, UpsertRuleSetRight
<1>14. CASE e.op = "MarkRuleSetUpdated"
  <2>1. e.id \in RuleSets
    BY <1>14 DEF Abstract!WellFormed
  <2>2. Mutate(f, e) = MarkRuleSetUpdated(f, e.id)
      /\ Abstract!Mutate(c, e) = Abstract!MarkRuleSetUpdated(c, e.id)
    BY <1>14 DEF Mutate, Abstract!Mutate
  <2> QED BY <2>1, <2>2, MarkRuleSetUpdatedRight
<1>15. CASE e.op = "MarkRuleSetError"
  <2>1. e.id \in RuleSets
    BY <1>15 DEF Abstract!WellFormed
  <2>2. Mutate(f, e) = MarkRuleSetError(f, e.id)
      /\ Abstract!Mutate(c, e) = Abstract!MarkRuleSetError(c, e.id)
    BY <1>15 DEF Mutate, Abstract!Mutate
  <2> QED BY <2>1, <2>2, MarkRuleSetErrorRight
<1>16. CASE e.op = "DeleteRuleSet"
  <2>1. e.id \in RuleSets
    BY <1>16 DEF Abstract!WellFormed
  <2>2. Mutate(f, e) = DeleteRuleSet(f, e.id)
      /\ Abstract!Mutate(c, e) = Abstract!DeleteRuleSet(c, e.id)
    BY <1>16 DEF Mutate, Abstract!Mutate
  <2> QED BY <2>1, <2>2, DeleteRuleSetRight
<1>17. CASE e.op = "SetManagerEnabled"
  <2>1. e.id \in BOOLEAN
    BY <1>17 DEF Abstract!WellFormed
  <2>2. Mutate(f, e) = SetManagerEnabled(f, e.id)
      /\ Abstract!Mutate(c, e) = Abstract!SetManagerEnabled(c, e.id)
    BY <1>17 DEF Mutate, Abstract!Mutate
  <2> QED BY <2>1, <2>2, SetManagerEnabledRight
<1>18. CASE e.op = "SetManagerPaused"
  <2>1. e.id \in BOOLEAN
    BY <1>18 DEF Abstract!WellFormed
  <2>2. Mutate(f, e) = SetManagerPaused(f, e.id)
      /\ Abstract!Mutate(c, e) = Abstract!SetManagerPaused(c, e.id)
    BY <1>18 DEF Mutate, Abstract!Mutate
  <2> QED BY <2>1, <2>2, SetManagerPausedRight
<1>19. CASE e.op = "SetManagerRuntimeMode"
  <2>1. e.id \in {"direct", "rule", "global"}
    BY <1>19 DEF Abstract!WellFormed
  <2>2. Mutate(f, e) = SetManagerRuntimeMode(f, e.id)
      /\ Abstract!Mutate(c, e) = Abstract!SetManagerRuntimeMode(c, e.id)
    BY <1>19 DEF Mutate, Abstract!Mutate
  <2> QED BY <2>1, <2>2, SetManagerRuntimeModeRight
<1>20. CASE e.op = "UpsertTransparent"
  <2>1. e.id \in BOOLEAN
    BY <1>20 DEF Abstract!WellFormed
  <2>2. Mutate(f, e) = UpsertTransparent(f, e.id)
      /\ Abstract!Mutate(c, e) = Abstract!UpsertTransparent(c, e.id)
    BY <1>20 DEF Mutate, Abstract!Mutate
  <2> QED BY <2>1, <2>2, UpsertTransparentRight
<1>21. CASE e.op = "UpsertTUN"
  <2>1. e.id \in BOOLEAN
    BY <1>21 DEF Abstract!WellFormed
  <2>2. Mutate(f, e) = UpsertTUN(f, e.id)
      /\ Abstract!Mutate(c, e) = Abstract!UpsertTUN(c, e.id)
    BY <1>21 DEF Mutate, Abstract!Mutate
  <2> QED BY <2>1, <2>2, UpsertTUNRight
<1> QED
  BY <1>1, <1>2, <1>3, <1>4, <1>5, <1>6, <1>7, <1>8, <1>9, <1>10, <1>11, <1>12,
     <1>13, <1>14, <1>15, <1>16, <1>17, <1>18, <1>19, <1>20, <1>21 DEF
     Abstract!WellFormed


(* An edit finds what it is about where the configuration has it.          *)
LEMMA FindsRight ==
  ASSUME NEW f, Tidy(f), NEW c, Shows(ToSet(f), c), NEW e, Abstract!WellFormed(e)
  PROVE  Finds(f, e) <=> Abstract!Found(c, e)
<1> DEFINE Some(typ) == \E i \in DOMAIN f : Is(f[i], typ, e.id)
<1>1. \A typ : Some(typ) <=> e.id \in Called(Of(ToSet(f), typ))
  BY DEF Is, Called, Of, ToSet
<1>2. \A i \in DOMAIN f : IsSection(f[i])
  BY DEF Tidy
<1> HIDE DEF Some
<1>3. CASE e.op = "DeleteSubscription"
  <2>1. Some("subscription") <=> e.id \in c.subs
    BY <1>1 DEF Shows, SubsShown
  <2> QED BY <1>3, <2>1 DEF Finds, Abstract!Found, Some
<1>4. \A i \in DOMAIN f : Is(f[i], "node", e.id) =>
        e.id \in Abstract!Nodes /\ (f[i].from = None <=> e.id[1] = Manual)
  <2>1. TAKE i \in DOMAIN f
  <2>2. HAVE Is(f[i], "node", e.id)
  <2>3. e.id \in Abstract!Nodes /\ f[i] = NodeSection(e.id)
    BY <1>2, <2>2, NamedSection DEF Is
  <2>4. f[i].from = IF e.id[1] = Manual THEN None ELSE e.id[1]
    BY <2>3 DEF NodeSection
  <2>5. e.id[1] \in Subs \cup {Manual}
    BY <2>3 DEF Abstract!Nodes
  <2> QED BY <2>3, <2>4, <2>5, SectionConstants
<1>5. CASE e.op = "UpsertManualNode"
  <2>1. Finds(f, e) <=>
          e.id[1] = Manual /\ \A i \in DOMAIN f : Is(f[i], "node", e.id) => f[i].from = None
    BY <1>5 DEF Finds
  <2>2. Abstract!Found(c, e) <=> e.id[1] = Manual
    BY <1>5 DEF Abstract!Found
  <2> QED BY <1>4, <2>1, <2>2
<1>6. CASE e.op = "DeleteManualNode"
  <2>1. Finds(f, e) <=>
          Some("node") /\ \A i \in DOMAIN f : Is(f[i], "node", e.id) => f[i].from = None
    BY <1>6 DEF Finds, Some
  <2>2. Abstract!Found(c, e) <=> e.id[1] = Manual /\ e.id \in c.nodes
    BY <1>6 DEF Abstract!Found
  <2>3. Some("node") <=> e.id \in c.nodes
    BY <1>1 DEF Shows
  <2> QED BY <1>4, <2>1, <2>2, <2>3 DEF Some
<1>7. CASE e.op = "DeleteDNSServer"
  <2>1. Some("dns_server") <=> e.id \in c.servers
    BY <1>1 DEF Shows
  <2> QED BY <1>7, <2>1 DEF Finds, Abstract!Found, Some
<1>8. CASE e.op = "DeleteRule"
  <2> DEFINE D == Of(ToSet(f), "dns_rule")
             E == Of(ToSet(f), "route_rule")
  <2>1. e.id \in DNSRules \cup RouteRules
    BY <1>8 DEF Abstract!WellFormed, Abstract!Rules
  <2>2. \A x \in D \cup E : x.typ = RuleType(x.name) /\ c.rules[x.name] # None
    BY RulesOf
  <2>3. e.id \in Called(D \cup E) <=> c.rules[e.id] # None
    <3>1. RulesShown(D, E, c.rules)
      BY DEF Shows
    <3> HIDE DEF D, E
    <3> QED BY <2>1, <2>2, <3>1 DEF RulesShown, Called
  <2>4. Some(RuleType(e.id)) <=> e.id \in Called(D \cup E)
    <3>1. RuleType(e.id) \in {"dns_rule", "route_rule"}
      BY DEF RuleType
    <3>2. \A x \in Of(ToSet(f), RuleType(e.id)) : x \in D \cup E
      BY <3>1
    <3>3. \A x \in D \cup E : x.name = e.id => x \in Of(ToSet(f), RuleType(e.id))
      BY <2>2 DEF Of
    <3> HIDE DEF D, E
    <3> QED BY <1>1, <3>2, <3>3 DEF Called
  <2>5. Finds(f, e) <=> Some(RuleType(e.id))
    BY <1>8 DEF Finds, Some
  <2>6. Abstract!Found(c, e) <=> c.rules[e.id] # None
    BY <1>8 DEF Abstract!Found
  <2> QED BY <2>3, <2>4, <2>5, <2>6
<1>9. CASE e.op = "DeleteRuleSet"
  <2>1. e.id \in RuleSets
    BY <1>9 DEF Abstract!WellFormed
  <2>2. \A i \in DOMAIN f : IsRuleSetSection(f[i], e.id) <=> f[i].typ = "ruleset" /\ Id(f[i]) = e.id
    BY <2>1, RuleSetSection
  <2>3. (\E i \in DOMAIN f : IsRuleSetSection(f[i], e.id)) <=> e.id \in {Id(x) : x \in Of(ToSet(f), "ruleset")}
    BY <2>2 DEF Of, ToSet
  <2>4. c.rulesets = {Id(x) : x \in Of(ToSet(f), "ruleset")}
    BY DEF Shows, SetsShown
  <2> QED BY <1>9, <2>3, <2>4 DEF Finds, Abstract!Found
<1> QED BY <1>3, <1>5, <1>6, <1>7, <1>8, <1>9 DEF Finds, Abstract!Found

(* A tidy file is read without an error.                                   *)
LEMMA TidyLoads ==
  ASSUME NEW f, Tidy(f)
  PROVE  Loads(f)
<1>1. \A i \in DOMAIN f : IsSection(f[i])
  BY DEF Tidy
<1>2. Cardinality(Typed(f, "manager")) = 1
  <2>1. \A i, j \in Typed(f, "manager") : i = j
    <3>1. \A i \in Typed(f, "manager") : i \in DOMAIN f /\ f[i].typ = "manager" /\ Id(f[i]) = "main"
      BY <1>1, NamedSection, IdIsName DEF Typed
    <3> QED BY <3>1 DEF Tidy, Alike
  <2>2. PICK i \in Typed(f, "manager") : TRUE
    BY DEF Tidy
  <2>3. Typed(f, "manager") = {i}
    BY <2>1, <2>2
  <2> QED BY <2>3, FS_Singleton
<1>3. \A i, j \in Typed(f, "group") : f[i].name = f[j].name => i = j
  BY IdIsName DEF Tidy, Alike, Typed
<1> QED BY <1>2, <1>3 DEF Loads

(* What is read is a configuration.                                        *)
LEMMA ReadTyped ==
  ASSUME NEW f, Tidy(f)
  PROVE  Read(f) \in Abstract!Configs
<1> DEFINE c == Read(f)
           S == ToSet(f)
           A == DNSRules \cup RouteRules
<1>1. c = [enabled |-> c.enabled, paused |-> c.paused, mode |-> c.mode,
           subs |-> c.subs, on |-> c.on, fresh |-> c.fresh, failed |-> c.failed,
           nodes |-> c.nodes, members |-> c.members, selected |-> c.selected, final |-> c.final,
           servers |-> c.servers, rules |-> c.rules, rulesets |-> c.rulesets,
           tproxy |-> c.tproxy, tun |-> c.tun]
  BY DEF Read
<1>2. Shows(S, c)
  BY ReadShows
<1>3. \A x \in S : IsSection(x)
  BY DEF Tidy, ToSet
<1> HIDE DEF c
<1>4. c.enabled \in BOOLEAN /\ c.paused \in BOOLEAN /\ c.mode \in {"direct", "rule", "global"}
  <2>1. PICK x \in Of(S, "manager") : TRUE
    BY DEF Tidy, Typed, Of, ToSet
  <2>2. x \in Managers
    BY <1>3, <2>1, SectionTypes DEF Of
  <2>3. c.enabled = x.enabled /\ c.paused = x.paused /\ c.mode = x.mode
    BY <1>2, <2>1 DEF Shows, ManagerShown
  <2> QED BY <2>2, <2>3 DEF Managers
<1>5. /\ c.members \in SUBSET Subs /\ c.selected \in Abstract!Nodes \cup {None}
      /\ c.final \in Servers \cup {None}
  <2>1. PICK x \in Of(S, "group") : TRUE
    BY DEF Tidy, Typed, Of, ToSet
  <2>2. x \in Groups
    BY <1>3, <2>1, SectionTypes DEF Of
  <2>3. c.members = ToSet(x.members) /\ c.selected = x.selected /\ c.final = x.final
    BY <1>2, <2>1 DEF Shows, GroupShown
  <2>4. x.members \in Seq(Subs) /\ x.selected \in Abstract!Nodes \cup {None} /\ x.final \in Servers \cup {None}
    BY <2>2 DEF Groups
  <2> QED BY <2>3, <2>4 DEF ToSet
<1>6. /\ \A x \in Of(S, "subscription") : x.name \in Subs
      /\ \A x \in Of(S, "node") : x.name \in Abstract!Nodes
      /\ \A x \in Of(S, "dns_server") : x.name \in Servers
  BY <1>3, NamedSection DEF Of
<1>7. \A x \in Of(S, "ruleset") : Id(x) \in RuleSets
  BY RuleSetIds
<1>8. c.subs \in SUBSET Subs /\ c.on \in SUBSET Subs
  BY <1>2, <1>6 DEF Shows, SubsShown, Called
<1>9. c.fresh \in SUBSET Abstract!Sources /\ c.failed \in SUBSET Abstract!Sources
  BY <1>2, <1>6, <1>7 DEF Shows, DatesShown, Called, Abstract!Sources
<1>10. /\ c.nodes \in SUBSET Abstract!Nodes /\ c.servers \in SUBSET Servers
       /\ c.rulesets \in SUBSET RuleSets
  BY <1>2, <1>6, <1>7 DEF Shows, SetsShown, Called
<1>11. c.tproxy \in BOOLEAN /\ c.tun \in BOOLEAN
  BY <1>2 DEF Shows, SwitchShown
<1>12. c.rules \in [Abstract!Rules -> Abstract!Bodies \cup {None}]
  <2> DEFINE D == Of(S, "dns_rule")
             E == Of(S, "route_rule")
  <2>1. RulesShown(D, E, c.rules)
    BY <1>2 DEF Shows
  <2>2. \A x \in D \cup E : c.rules[x.name] \in Abstract!Bodies
    BY <1>2, RulesOf
  <2> HIDE DEF D, E
  <2>3. \A r \in A : c.rules[r] \in Abstract!Bodies \cup {None}
    BY <2>1, <2>2 DEF RulesShown, Called
  <2>4. c.rules = [r \in A |-> c.rules[r]]
    BY <2>1 DEF RulesShown
  <2> HIDE DEF A
  <2>5. c.rules \in [A -> Abstract!Bodies \cup {None}]
    BY <2>3, <2>4
  <2> QED BY <2>5 DEF A, Abstract!Rules
<1>13. c \in Abstract!Configs
  BY <1>1, <1>4, <1>5, <1>8, <1>9, <1>10, <1>11, <1>12 DEF Abstract!Configs
<1> QED BY <1>13 DEF c

-----------------------------------------------------------------------------
(* The file and the configuration.                                         *)

(* What makes an edit on the file the edit on the configuration.           *)
LEMMA EditRight ==
  ASSUME NEW e \in Requests, Tidy(file), Edit(e)
  PROVE  Tidy(file') /\ Abstract!Edit(e)
<1> DEFINE next == Mutate(file, e)
           c == Read(file)
           d == Abstract!Mutate(c, e)
<1>1. Abstract!WellFormed(e) /\ e.op # "UpdateHealth"
  BY SectionConstants
<1>2. Whole(c) /\ Shows(ToSet(file), c)
  BY ReadShows
<1>3. Implements(next, d)
  BY <1>1, <1>2, MutateRight
<1>4. Tidy(next) /\ Read(next) = d
  <2> HIDE DEF next, d
  <2>1. Tidy(next) /\ Whole(d) /\ Shows(ToSet(next), d)
    BY <1>3 DEF Implements
  <2> QED BY <2>1, ReadShows, ShowsOne
<1>5. Loads(next)
  BY <1>4, TidyLoads
<1>6. Finds(file, e) <=> Abstract!Found(c, e)
  BY <1>1, <1>2, FindsRight
<1>7. asked' = e /\ file' = IF Finds(file, e) /\ Loads(next) /\ Abstract!Valid(Read(next)) THEN next ELSE file
  BY DEF Edit
<1> HIDE DEF next, d, c
<1>8. file' = IF Abstract!Found(c, e) /\ Abstract!Valid(d) THEN next ELSE file
  BY <1>4, <1>5, <1>6, <1>7
<1>9. Tidy(file') /\ Read(file') = IF Abstract!Found(c, e) /\ Abstract!Valid(d) THEN d ELSE c
  BY <1>4, <1>8 DEF c
<1> QED BY <1>7, <1>9 DEF Abstract!Edit, Abstract!Accepted, c, d

(* From tidy files, of any length and in any order, in which no section    *)
(* name made of one id is the id of another rule set (SectionConstants),   *)
(* every edit but the record of a health check does to the configuration   *)
(* that applySections reads what it promises, or is refused when it should *)
(* be (config/edit.go), with any subscriptions, nodes, rules and rule      *)
(* sets.                                                                   *)
THEOREM EditsImplemented == Spec => ImplementsEdits
<1>1. Init => Tidy(file) /\ Abstract!Init
  <2>1. ASSUME Init
        PROVE  Tidy(file) /\ Abstract!Valid(Read(file)) /\ asked = None
    BY <2>1, SectionConstants DEF Init
  <2> QED BY <2>1, ReadTyped DEF Abstract!Init
<1>2. Tidy(file) /\ [Next]_<<file, asked, left>> => Tidy(file)' /\ [Abstract!Next]_<<Read(file), asked>>
  <2> SUFFICES ASSUME Tidy(file), [Next]_<<file, asked, left>>
               PROVE  Tidy(file)' /\ [Abstract!Next]_<<Read(file), asked>>
    OBVIOUS
  <2>1. ASSUME NEW e \in Requests, Edit(e)
        PROVE  Tidy(file)' /\ Abstract!Next
    BY <2>1, EditRight DEF Abstract!Next
  <2>2. CASE UNCHANGED <<file, asked, left>>
    BY <2>2
  <2> QED BY <2>1, <2>2 DEF Next
<1> QED BY <1>1, <1>2, PTL DEF Spec, ImplementsEdits, Abstract!Spec
=============================================================================
