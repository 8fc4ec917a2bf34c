---------------------------- MODULE InboundCodec ----------------------------
(***************************************************************************)
(* What happens to one inbound between the form and Xray: the browser's    *)
(* codec (web/assets/js/model/xray.js), the server's normalisation and     *)
(* validation (protocol/schema_engine.go, validator.go, http.go), the      *)
(* build of the configuration (protocol/factory.go) and the share link.    *)
(*                                                                         *)
(* A settings or stream object is a record whose absent keys are None.     *)
(* Kept are the keys that decide who may connect and how: the client, the  *)
(* Shadowsocks password, the proxy accounts, the network and the security  *)
(* layer.  Options that are copied (methods, paths, hosts, limits) are     *)
(* left out; a certificate, a REALITY key pair, an account list is one     *)
(* value of Keys.                                                          *)
(***************************************************************************)
CONSTANTS Keys,        \* identifiers, passwords, key pairs, certificates
          DefaultKey,  \* what the browser's random generators return
          None         \* an absent key

ASSUME KeysAssumption == DefaultKey \in Keys /\ None \notin Keys

ClientProtocols == {"vmess", "vless", "trojan"}
ProxyProtocols  == {"socks", "http"}
AllProtocols    == ClientProtocols \cup ProxyProtocols
                     \cup {"shadowsocks", "mixed", "dokodemo-door"}
Networks        == {"tcp", "ws", "xhttp", "grpc", "kcp", "splithttp"}

Client   == [id : Keys \cup {None}, password : Keys \cup {None},
             flow : {"vision", None}]
Settings == [client : Client \cup {None}, secret : Keys \cup {None},
             auth : {"on", "off", None}, accounts : Keys \cup {None}]
Stream   == [network : Networks \cup {None},
             security : {"none", "tls", "reality", None},
             cert : Keys \cup {None}, pair : Keys \cup {None}]

Inbounds == [protocol : AllProtocols, settings : Settings, stream : Stream,
             enable : BOOLEAN]

\* An absent key is none of the values a key can have.
ASSUME NoneAssumption ==
  /\ None \notin Client
  /\ None \notin AllProtocols \cup Networks
              \cup {"none", "tls", "reality", "on", "off", "vision"}

NoClient == [id |-> None, password |-> None, flow |-> None]
Blank    == [client |-> None, secret |-> None, auth |-> None, accounts |-> None]
NoStream == [network |-> None, security |-> None, cert |-> None, pair |-> None]

Or(value, default) == IF value = None THEN default ELSE value

-----------------------------------------------------------------------------
(* The browser.                                                            *)

\* defaultProtocolSettings, and the default accounts of the proxy forms.
DefaultSettings(p) ==
  CASE p \in {"vmess", "vless"} ->
         [Blank EXCEPT !.client = [NoClient EXCEPT !.id = DefaultKey]]
    [] p = "trojan" ->
         [Blank EXCEPT !.client = [NoClient EXCEPT !.password = DefaultKey]]
    [] p = "shadowsocks" -> [Blank EXCEPT !.secret = DefaultKey]
    [] p \in ProxyProtocols ->
         [Blank EXCEPT !.auth = "off", !.accounts = DefaultKey]
    [] OTHER -> Blank

\* Mutant of SettingsFromJson: an opened row shows default settings.
BugForgets(p, s) == DefaultSettings(p)

\* Inbound.Settings.fromJson: the proxy and dokodemo forms read their own
\* keys, the schema-driven ones keep the whole object and fill what is missing.
SettingsFromJson(p, s) ==
  CASE p = "socks" ->
         [Blank EXCEPT !.auth = Or(s.auth, "off"),
                       !.accounts = IF s.auth = "on" THEN Or(s.accounts, DefaultKey)
                                    ELSE DefaultKey]
    [] p = "http" ->
         [Blank EXCEPT !.auth = Or(s.auth, IF s.accounts = None THEN "off" ELSE "on"),
                       !.accounts = Or(s.accounts, DefaultKey)]
    [] p = "dokodemo-door" -> Blank
    [] OTHER -> [s EXCEPT !.client = Or(s.client, DefaultSettings(p).client),
                          !.secret = Or(s.secret, DefaultSettings(p).secret)]

\* The settings' toJson: accounts only travel with password authentication.
SettingsToJson(p, s) ==
  IF p \in ProxyProtocols /\ s.auth # "on" THEN [s EXCEPT !.accounts = None] ELSE s

\* StreamSettings.fromJson and toJson; splithttp is an old name of xhttp.
StreamFromJson(t) ==
  [t EXCEPT !.network  = IF t.network = "splithttp" THEN "xhttp" ELSE Or(t.network, "tcp"),
            !.security = Or(t.security, "none")]

StreamToJson(t) ==
  [t EXCEPT !.cert = IF t.security = "tls" THEN t.cert ELSE None,
            !.pair = IF t.security = "reality" THEN t.pair ELSE None]

\* Inbound.toJson sends the stream of the protocols that have one.
CanEnableStream(p) == p \in ClientProtocols \cup {"shadowsocks"}
PayloadStream(p, t) ==
  IF CanEnableStream(p) \/ p = "http" THEN StreamToJson(t) ELSE NoStream

CanEnableReality(p, t) ==
  p \in {"vless", "trojan"} /\ t.network \in {"tcp", "xhttp", "grpc"}
CanEnableVision(p, t) == p = "vless" /\ t.security \in {"tls", "reality"}

\* validateInboundForSubmit.
SubmitAllowed(p, s, t) ==
  /\ p \in {"vmess", "vless"} => s.client.id # None
  /\ p = "trojan" => s.client.password # None
  /\ p \in {"vless", "trojan"} /\ t.security = "reality" => t.pair # None
  /\ p \in ProxyProtocols /\ s.auth = "on" => s.accounts # None
  /\ p = "http" /\ s.auth = "off" /\ t.security = "tls" => t.cert # None

-----------------------------------------------------------------------------
(* The server.                                                             *)

\* normalizeClientFlow and the client part of each normalizer.
NormalClient(p, c) ==
  CASE p = "vmess"  -> [NoClient EXCEPT !.id = c.id]
    [] p = "trojan" -> [NoClient EXCEPT !.password = c.password]
    [] OTHER        -> c

\* normalize, per protocol, on top of ResetInboundState.
NormalSettings(p, s) ==
  CASE p \in ClientProtocols ->
         [Blank EXCEPT !.client = IF s.client = None THEN None
                                  ELSE NormalClient(p, s.client)]
    [] p = "shadowsocks" ->
         [Blank EXCEPT !.secret = Or(s.secret, IF s.client = None THEN None
                                               ELSE s.client.password)]
    [] p = "socks" ->
         [Blank EXCEPT !.auth = Or(s.auth, "off"),
                       !.accounts = IF s.auth = "on" THEN s.accounts ELSE None]
    [] p = "http" ->
         [Blank EXCEPT !.auth = Or(s.auth, "off"),
                       !.accounts = IF s.auth = "on" THEN s.accounts ELSE None]
    [] OTHER -> Blank

\* normalizedNetwork: a network that is no longer supported becomes tcp.
NormalNetwork(n) ==
  CASE n \in {"tcp", "ws", "xhttp", "grpc"} -> n
    [] n = "splithttp" -> "xhttp"
    [] OTHER -> "tcp"

\* rebuildTransportSettings and rebuildHTTPStreamSettings.
NormalStream(p, t) ==
  LET kept == IF t.security = "tls" \/ (t.security = "reality" /\ p # "vmess")
                THEN t.security ELSE None
  IN  CASE p \in ClientProtocols /\ t # NoStream ->
             [network |-> NormalNetwork(t.network), security |-> kept,
              cert |-> IF kept = "tls" THEN t.cert ELSE None,
              pair |-> IF kept = "reality" THEN t.pair ELSE None]
        [] p = "http" /\ t.security = "tls" ->
             [NoStream EXCEPT !.security = "tls", !.cert = t.cert]
        [] OTHER -> NoStream

\* normalizeInboundSchemaState; an inbound here is its protocol, settings,
\* stream and whether it is enabled.
Normalize(x) == [x EXCEPT !.settings = NormalSettings(x.protocol, x.settings),
                          !.stream   = NormalStream(x.protocol, x.stream)]

\* ValidateInboundSchema.
Valid(x) ==
  LET s == x.settings  t == x.stream  p == x.protocol IN
  /\ p \in ClientProtocols => s.client # None
  /\ p \in {"vmess", "vless"} => s.client.id # None
  /\ p = "trojan" => s.client.password # None
  /\ p = "shadowsocks" => s.secret # None
  /\ p \in ProxyProtocols /\ s.auth = "on" => s.accounts # None
  /\ p \in ClientProtocols /\ t.security = "reality"
       => t.network # "ws" /\ t.pair # None
  /\ p = "http" /\ t.security = "tls" => t.cert # None

\* Migrate: the modules that do not override commonModule's leave it alone.
Migrate(x) ==
  IF x.protocol \in {"vless", "socks", "http", "dokodemo-door"} THEN Normalize(x) ELSE x

\* Validate: httpModule also takes "auth" out of the settings it normalised.
Validated(x) ==
  LET n == Normalize(x)
  IN  IF x.protocol = "http"
        THEN [n EXCEPT !.settings = [n.settings EXCEPT !.auth = None]]
        ELSE n

\* Builder.Build on one enabled inbound: what it leaves in the inbound, which
\* it is given by pointer, and the configuration of the factory.
BuildState(x) == Normalize(Migrate(x))

NoConfig == [protocol |-> None, settings |-> Blank, stream |-> NoStream]

\* Mutant of FactorySettings: the VLESS client's key is read from "password".
BugWrongKey(p, s) ==
  CASE p \in {"vmess", "vless"} ->
         [Blank EXCEPT !.client = [NoClient EXCEPT !.id = s.client.password]]
    [] OTHER -> Blank

FactorySettings(p, s) ==
  CASE p = "vmess" -> [Blank EXCEPT !.client = [NoClient EXCEPT !.id = s.client.id]]
    [] p = "vless" ->
         [Blank EXCEPT !.client = [NoClient EXCEPT !.id = s.client.id,
                                                   !.flow = s.client.flow]]
    [] p = "trojan" ->
         [Blank EXCEPT !.client = [NoClient EXCEPT !.password = s.client.password]]
    [] p = "shadowsocks" -> [Blank EXCEPT !.secret = s.secret]
    [] p \in ProxyProtocols ->
         [Blank EXCEPT !.accounts = IF s.auth = "on" THEN s.accounts ELSE None]
    [] OTHER -> Blank

Factory(x) ==
  [protocol |-> x.protocol, settings |-> FactorySettings(x.protocol, x.settings),
   stream |-> IF x.protocol \in ClientProtocols \cup {"http"} THEN x.stream ELSE NoStream]

\* saveInboundWithClients: the inbound it validates and writes, and whether it
\* gets that far.  validateInboundRuntime builds the same inbound in place.
Checked(x)  == Validated(Migrate(x))
Written(x)  == IF x.enable THEN BuildState(Checked(x)) ELSE Checked(x)
Accepted(x) == /\ Valid(Normalize(Migrate(x)))
               /\ x.enable => Valid(BuildState(Checked(x)))

\* splitSettingsClients and attachClients: clients live in a table of their own.
Split(x)     == [x EXCEPT !.settings = [x.settings EXCEPT !.client = None]]
Attach(x, c) == IF c = None THEN x
                ELSE [x EXCEPT !.settings = [x.settings EXCEPT !.client = c]]

\* What the next configuration build makes of a stored row and its clients.
Running(x, c) ==
  IF x.enable /\ Valid(BuildState(Attach(x, c)))
    THEN Factory(BuildState(Attach(x, c))) ELSE NoConfig

\* What the form shows when a row is opened, and what it sends untouched.
Opened(x)  == [x EXCEPT !.settings = SettingsFromJson(x.protocol, x.settings),
                        !.stream   = StreamFromJson(x.stream)]
Payload(x) == [x EXCEPT !.settings = SettingsToJson(x.protocol, x.settings),
                        !.stream   = PayloadStream(x.protocol, x.stream)]

\* The credential an inbound asks of those who connect.
Credential(p, s) ==
  CASE p \in {"vmess", "vless"} -> s.client.id
    [] p = "trojan" -> s.client.password
    [] p = "shadowsocks" -> s.secret
    [] p \in ProxyProtocols -> IF s.auth # "off" THEN s.accounts ELSE None
    [] OTHER -> None

\* genVmessLink, genVLESSLink, genTrojanLink and genSSLink on an opened row.
HasLink(p) == p \in ClientProtocols \cup {"shadowsocks"}
\* Mutant of Link: the key pair is left out.
BugNoKey(x) ==
  [credential |-> Credential(x.protocol, x.settings), network |-> x.stream.network,
   security |-> x.stream.security, pair |-> None,
   flow |-> IF CanEnableVision(x.protocol, x.stream)
              THEN x.settings.client.flow ELSE None]

Link(x) ==
  [credential |-> Credential(x.protocol, x.settings),
   network    |-> x.stream.network,
   security   |-> x.stream.security,
   pair       |-> IF x.stream.security = "reality" THEN x.stream.pair ELSE None,
   flow       |-> IF CanEnableVision(x.protocol, x.stream)
                    THEN x.settings.client.flow ELSE None]
=============================================================================
