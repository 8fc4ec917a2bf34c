-------------------------- MODULE InboundFormProofs --------------------------
(***************************************************************************)
(* The codec of InboundCodec and the form of InboundForm, for every set of *)
(* keys, protocols, networks and legacy rows, and any number of forms.     *)
(***************************************************************************)
EXTENDS InboundForm, TLAPS

-----------------------------------------------------------------------------
(* The records of the codec, field by field.                               *)

LEMMA ClientFields ==
  ASSUME NEW c \in Client
  PROVE  /\ c = [id |-> c.id, password |-> c.password, flow |-> c.flow]
         /\ c.id \in Keys \cup {None} /\ c.password \in Keys \cup {None}
         /\ c.flow \in {"vision", None} /\ c # None
BY NoneAssumption DEF Client

LEMMA SettingsFields ==
  ASSUME NEW s \in Settings
  PROVE  /\ s = [client |-> s.client, secret |-> s.secret, auth |-> s.auth,
                 accounts |-> s.accounts]
         /\ s.client \in Client \cup {None} /\ s.secret \in Keys \cup {None}
         /\ s.auth \in {"on", "off", None} /\ s.accounts \in Keys \cup {None}
BY DEF Settings

LEMMA StreamFields ==
  ASSUME NEW t \in Stream
  PROVE  /\ t = [network |-> t.network, security |-> t.security, cert |-> t.cert,
                 pair |-> t.pair]
         /\ t.network \in Networks \cup {None}
         /\ t.security \in {"none", "tls", "reality", None}
         /\ t.cert \in Keys \cup {None} /\ t.pair \in Keys \cup {None}
BY DEF Stream

LEMMA InboundFields ==
  ASSUME NEW x \in Inbounds
  PROVE  /\ x = [protocol |-> x.protocol, settings |-> x.settings,
                 stream |-> x.stream, enable |-> x.enable]
         /\ x.protocol \in AllProtocols /\ x.settings \in Settings
         /\ x.stream \in Stream /\ x.enable \in BOOLEAN
BY DEF Inbounds

LEMMA BlankTyped ==
  /\ NoClient \in Client /\ Blank \in Settings /\ NoStream \in Stream
BY DEF NoClient, Client, Blank, Settings, NoStream, Stream

LEMMA NormalSettingsTyped ==
  ASSUME NEW p \in AllProtocols, NEW s \in Settings
  PROVE  NormalSettings(p, s) \in Settings
<1>1. s.client # None => NormalClient(p, s.client) \in Client
  BY SettingsFields, ClientFields, KeysAssumption DEF NormalClient, Client, NoClient
<1> QED BY <1>1, SettingsFields, ClientFields DEF NormalSettings, Settings, Blank, Or

LEMMA NormalStreamTyped ==
  ASSUME NEW p \in AllProtocols, NEW t \in Stream
  PROVE  NormalStream(p, t) \in Stream
BY StreamFields DEF NormalStream, Stream, NoStream, NormalNetwork, Networks

-----------------------------------------------------------------------------
(* Normalisation: once is enough, and what a save writes is normal.        *)

\* An update of two fields, one at a time: the provers need the step.
LEMMA SettingsAndStream ==
  ASSUME NEW x \in Inbounds, NEW s, NEW t
  PROVE  [x EXCEPT !.settings = s, !.stream = t] =
           [protocol |-> x.protocol, settings |-> s, stream |-> t, enable |-> x.enable]
<1>1. [x EXCEPT !.settings = s] = [protocol |-> x.protocol, settings |-> s,
                                   stream |-> x.stream, enable |-> x.enable]
  BY DEF Inbounds
<1>2. [x EXCEPT !.settings = s, !.stream = t] =
        [[x EXCEPT !.settings = s] EXCEPT !.stream = t]
  OBVIOUS
<1> DEFINE y == [x EXCEPT !.settings = s]
<1>3. [y EXCEPT !.stream = t] =
        [protocol |-> x.protocol, settings |-> s, stream |-> t, enable |-> x.enable]
  <2>1. y = [protocol |-> x.protocol, settings |-> s, stream |-> x.stream,
             enable |-> x.enable]
    BY <1>1
  <2> HIDE DEF y
  <2> QED BY <2>1
<1> QED BY <1>2, <1>3, Zenon

\* The settings of a proxy.
Proxy(auth, accounts) ==
  [client |-> None, secret |-> None, auth |-> auth, accounts |-> accounts]

LEMMA ProxySettings ==
  ASSUME NEW auth, NEW accounts
  PROVE  [Blank EXCEPT !.auth = auth, !.accounts = accounts] = Proxy(auth, accounts)
<1>1. [Blank EXCEPT !.auth = auth] = Proxy(auth, None)
  BY DEF Blank, Proxy
<1>2. [Blank EXCEPT !.auth = auth, !.accounts = accounts] =
        [[Blank EXCEPT !.auth = auth] EXCEPT !.accounts = accounts]
  OBVIOUS
<1>3. [Proxy(auth, None) EXCEPT !.accounts = accounts] = Proxy(auth, accounts)
  BY DEF Proxy
<1> QED BY <1>1, <1>2, <1>3, Zenon

LEMMA NormalizeFields ==
  ASSUME NEW x \in Inbounds
  PROVE  /\ Normalize(x) = [protocol |-> x.protocol,
                            settings |-> NormalSettings(x.protocol, x.settings),
                            stream |-> NormalStream(x.protocol, x.stream),
                            enable |-> x.enable]
         /\ Normalize(x) \in Inbounds
<1> DEFINE s == NormalSettings(x.protocol, x.settings)
           t == NormalStream(x.protocol, x.stream)
<1>1. s \in Settings /\ t \in Stream
  BY InboundFields, NormalSettingsTyped, NormalStreamTyped
<1>2. Normalize(x) = [protocol |-> x.protocol, settings |-> s, stream |-> t,
                      enable |-> x.enable]
  BY SettingsAndStream DEF Normalize
<1> HIDE DEF s, t
<1>3. Normalize(x) \in Inbounds
  BY <1>1, <1>2, InboundFields DEF Inbounds
<1> USE DEF s, t
<1> QED BY <1>2, <1>3

LEMMA NormalSettingsTwice ==
  ASSUME NEW p \in AllProtocols, NEW s \in Settings
  PROVE  NormalSettings(p, NormalSettings(p, s)) = NormalSettings(p, s)
<1>1. CASE p \in ClientProtocols
  <2>1. CASE s.client = None
    BY <1>1, <2>1 DEF NormalSettings, Blank, ClientProtocols
  <2>2. CASE s.client # None
    <3>1. s.client \in Client
      BY <2>2, SettingsFields
    <3>2. /\ NormalClient(p, NormalClient(p, s.client)) = NormalClient(p, s.client)
          /\ NormalClient(p, s.client) # None
      BY <3>1, ClientFields, NoneAssumption DEF NormalClient, NoClient, Client
    <3> QED BY <1>1, <2>2, <3>2 DEF NormalSettings, Blank, ClientProtocols
  <2> QED BY <2>1, <2>2
<1>2. CASE p \notin ClientProtocols
  BY <1>2, SettingsFields, NoneAssumption DEF NormalSettings, Blank, Or
<1> QED BY <1>1, <1>2

LEMMA NormalStreamTwice ==
  ASSUME NEW p \in AllProtocols, NEW t \in Stream
  PROVE  NormalStream(p, NormalStream(p, t)) = NormalStream(p, t)
<1>1. CASE p \in ClientProtocols /\ t # NoStream
  <2>1. NormalNetwork(t.network) \in {"tcp", "ws", "xhttp", "grpc"}
    BY StreamFields DEF NormalNetwork, Networks
  <2>2. NormalNetwork(NormalNetwork(t.network)) = NormalNetwork(t.network)
    BY <2>1 DEF NormalNetwork
  <2>3. NormalStream(p, t).network = NormalNetwork(t.network)
    BY <1>1 DEF NormalStream, ClientProtocols
  <2>4. NormalStream(p, t) # NoStream
    BY <2>1, <2>3, NoneAssumption DEF NoStream, Networks
  <2>5. PICK kept : kept = IF t.security = "tls" \/ (t.security = "reality" /\ p # "vmess")
                             THEN t.security ELSE None
    OBVIOUS
  <2>6. kept \in {"tls", "reality", None} /\ (kept = "reality" => p # "vmess")
    BY <2>5, NoneAssumption
  <2> DEFINE n == [network |-> NormalNetwork(t.network), security |-> kept,
                   cert |-> IF kept = "tls" THEN t.cert ELSE None,
                   pair |-> IF kept = "reality" THEN t.pair ELSE None]
  <2>7. NormalStream(p, t) = n
    BY <1>1, <2>5 DEF NormalStream, ClientProtocols
  <2>8. NormalStream(p, n) = n
    BY <1>1, <2>2, <2>4, <2>6, <2>7, NoneAssumption DEF NormalStream, ClientProtocols
  <2> QED BY <2>7, <2>8
<1>2. CASE ~(p \in ClientProtocols /\ t # NoStream)
  BY <1>2 DEF NormalStream, NoStream, ClientProtocols
<1> QED BY <1>1, <1>2

LEMMA NormalizeTwice ==
  ASSUME NEW x \in Inbounds
  PROVE  Normalize(Normalize(x)) = Normalize(x)
BY NormalizeFields, InboundFields, NormalSettingsTwice, NormalStreamTwice

\* Building an inbound is normalising it, migrated or not.
LEMMA BuildIsNormalize ==
  ASSUME NEW x \in Inbounds
  PROVE  /\ BuildState(x) = Normalize(x)
         /\ Normalize(Migrate(x)) = Normalize(x)
         /\ Checked(x) = Validated(x)
<1>1. Migrate(x) = x \/ Migrate(x) = Normalize(x)
  BY DEF Migrate
<1>2. Normalize(Migrate(x)) = Normalize(x)
  BY <1>1, NormalizeTwice
<1>3. Migrate(x).protocol = x.protocol
  BY <1>1, NormalizeFields
<1> QED BY <1>2, <1>3 DEF BuildState, Checked, Validated

\* What is validated is what is written and, HTTP proxies apart, what is run.
LEMMA WrittenIsNormal ==
  ASSUME NEW x \in Inbounds, x.protocol # "http"
  PROVE  /\ Checked(x) = Normalize(x) /\ BuildState(Checked(x)) = Normalize(x)
         /\ Written(x) = Normalize(x)
         /\ Accepted(x) <=> Valid(Normalize(x))
<1>1. Checked(x) = Normalize(x)
  BY BuildIsNormalize DEF Validated
<1>2. BuildState(Checked(x)) = Normalize(x)
  BY <1>1, NormalizeFields, BuildIsNormalize, NormalizeTwice
<1> QED BY <1>1, <1>2, BuildIsNormalize DEF Written, Accepted

\* An HTTP proxy loses its switch in the validation, and its accounts too in
\* the build that follows.
HttpForm(x, auth, accounts) ==
  [protocol |-> "http", settings |-> Proxy(auth, accounts),
   stream |-> NormalStream("http", x.stream), enable |-> x.enable]

LEMMA NormalHttp ==
  ASSUME NEW x \in Inbounds, x.protocol = "http"
  PROVE  Normalize(x) = IF x.settings.auth = "on"
                          THEN HttpForm(x, "on", x.settings.accounts)
                          ELSE HttpForm(x, "off", None)
<1>1. NormalSettings("http", x.settings) =
        IF x.settings.auth = "on" THEN Proxy("on", x.settings.accounts)
                                  ELSE Proxy("off", None)
  <2>1. NormalSettings("http", x.settings) =
          [Blank EXCEPT !.auth = Or(x.settings.auth, "off"),
                        !.accounts = IF x.settings.auth = "on"
                                       THEN x.settings.accounts ELSE None]
    BY DEF NormalSettings, ClientProtocols
  <2>2. Or(x.settings.auth, "off") = IF x.settings.auth = "on" THEN "on" ELSE "off"
    BY InboundFields, SettingsFields, NoneAssumption DEF Or
  <2> QED BY <2>1, <2>2, ProxySettings
<1> QED BY <1>1, NormalizeFields DEF HttpForm

LEMMA HttpIsWritten ==
  ASSUME NEW x \in Inbounds, x.protocol = "http"
  PROVE  /\ Checked(x) = HttpForm(x, None, IF x.settings.auth = "on"
                                              THEN x.settings.accounts ELSE None)
         /\ BuildState(Checked(x)) = HttpForm(x, "off", None)
         /\ Written(x) = IF x.enable THEN HttpForm(x, "off", None) ELSE Checked(x)
<1> DEFINE a == IF x.settings.auth = "on" THEN x.settings.accounts ELSE None
           w == HttpForm(x, None, a)
<1>1. Checked(x) = w
  <2>1. Checked(x) = [Normalize(x) EXCEPT !.settings =
                        [Normalize(x).settings EXCEPT !.auth = None]]
    BY BuildIsNormalize DEF Validated
  <2>2. \E auth : Normalize(x) = HttpForm(x, auth, a)
    BY NormalHttp
  <2> QED BY <2>1, <2>2 DEF HttpForm, Proxy
<1>2. w \in Inbounds /\ w.protocol = "http" /\ w.settings.auth = None
      /\ w.stream = NormalStream("http", x.stream) /\ w.enable = x.enable
  BY InboundFields, SettingsFields, NormalStreamTyped
     DEF HttpForm, Inbounds, Proxy, Settings, AllProtocols, ProxyProtocols
<1>3. BuildState(w) = HttpForm(w, "off", None)
  <2> HIDE DEF w
  <2> QED BY <1>2, NormalHttp, BuildIsNormalize, NoneAssumption
<1>4. HttpForm(w, "off", None) = HttpForm(x, "off", None)
  <2>1. NormalStream("http", w.stream) = NormalStream("http", x.stream)
    BY <1>2, InboundFields, NormalStreamTwice
  <2> QED BY <1>2, <2>1 DEF HttpForm
<1> QED BY <1>1, <1>3, <1>4 DEF Written

LEMMA WrittenFields ==
  ASSUME NEW x \in Inbounds
  PROVE  /\ Written(x) \in Inbounds
         /\ Written(x).protocol = x.protocol /\ Written(x).enable = x.enable
<1>1. CASE x.protocol = "http"
  <2>1. Written(x) \in {HttpForm(x, "off", None), HttpForm(x, None, None),
                        HttpForm(x, None, x.settings.accounts)}
    BY <1>1, HttpIsWritten
  <2>2. \A auth \in {"off", None}, k \in Keys \cup {None} :
          HttpForm(x, auth, k) \in Inbounds
    BY <1>1, InboundFields, NormalStreamTyped
       DEF HttpForm, Proxy, Inbounds, Settings
  <2>3. x.settings.accounts \in Keys \cup {None}
    BY InboundFields, SettingsFields
  <2> QED BY <1>1, <2>1, <2>2, <2>3 DEF HttpForm
<1>2. CASE x.protocol # "http"
  BY <1>2, WrittenIsNormal, NormalizeFields
<1> QED BY <1>1, <1>2

-----------------------------------------------------------------------------
(* The clients apart and back.                                             *)

LEMMA SplitFields ==
  ASSUME NEW x \in Inbounds
  PROVE  /\ Split(x) \in Inbounds /\ Split(x).settings.client = None
         /\ Split(x).protocol = x.protocol /\ Split(x).enable = x.enable
         /\ Split(x).stream = x.stream
         /\ x.settings.client = None => Split(x) = x
<1> DEFINE s == [x.settings EXCEPT !.client = None]
<1>1. /\ s \in Settings /\ s.client = None
      /\ x.settings.client = None => s = x.settings
  BY InboundFields, SettingsFields DEF Settings
<1>2. Split(x) = [x EXCEPT !.settings = s]
  BY DEF Split
<1> HIDE DEF s
<1> QED BY <1>1, <1>2, InboundFields DEF Inbounds

LEMMA AttachFields ==
  ASSUME NEW x \in Inbounds, NEW c \in Client \cup {None}
  PROVE  /\ Attach(x, c) \in Inbounds
         /\ Attach(x, c).protocol = x.protocol /\ Attach(x, c).enable = x.enable
         /\ Attach(x, c).stream = x.stream
         /\ Attach(x, c).settings =
              IF c = None THEN x.settings ELSE [x.settings EXCEPT !.client = c]
<1> DEFINE s == [x.settings EXCEPT !.client = c]
<1>1. s \in Settings
  BY InboundFields, SettingsFields DEF Settings
<1>2. Attach(x, c) = IF c = None THEN x ELSE [x EXCEPT !.settings = s]
  BY DEF Attach
<1> HIDE DEF s
<1>3. /\ Attach(x, c) \in Inbounds
      /\ Attach(x, c).protocol = x.protocol /\ Attach(x, c).enable = x.enable
      /\ Attach(x, c).stream = x.stream
      /\ Attach(x, c).settings = IF c = None THEN x.settings ELSE s
  BY <1>1, <1>2, InboundFields DEF Inbounds
<1> QED BY <1>3 DEF s

LEMMA AttachUndoesSplit ==
  ASSUME NEW x \in Inbounds, x.settings.client # None
  PROVE  Attach(Split(x), x.settings.client) = x
<1> DEFINE c == x.settings.client
           y == Attach(Split(x), c)
<1>1. c \in Client
  BY InboundFields, SettingsFields
<1>2. Split(x).settings = [x.settings EXCEPT !.client = None]
  BY DEF Split, Inbounds
<1>3. y.settings = [Split(x).settings EXCEPT !.client = c]
  <2>1. Split(x) \in Inbounds /\ c \in Client \cup {None} /\ c # None
    BY <1>1, SplitFields
  <2> HIDE DEF c
  <2> QED BY <2>1, AttachFields
<1>4. y.settings = x.settings
  <2>1. [[x.settings EXCEPT !.client = None] EXCEPT !.client = x.settings.client] = x.settings
    BY InboundFields DEF Settings
  <2> QED BY <1>2, <1>3, <2>1
<1>5. /\ y \in Inbounds /\ y.protocol = x.protocol /\ y.enable = x.enable
      /\ y.stream = x.stream
  <2>1. Split(x) \in Inbounds /\ c \in Client \cup {None}
    BY <1>1, SplitFields
  <2> HIDE DEF c
  <2> QED BY <2>1, SplitFields, AttachFields
<1> HIDE DEF y
<1>6. y = x
  BY <1>4, <1>5, InboundFields
<1> QED BY <1>6 DEF y

\* Clients left over from an earlier protocol change nothing in an inbound that
\* has none.
LEMMA LeftOverClients ==
  ASSUME NEW x \in Inbounds, NEW c \in Client \cup {None},
         x.protocol \notin ClientProtocols,
         x.protocol = "shadowsocks" => x.settings.secret # None
  PROVE  Normalize(Attach(x, c)) = Normalize(x)
<1> DEFINE p == x.protocol
           s == x.settings
           a == Attach(x, c).settings
<1>1. /\ a.secret = s.secret /\ a.auth = s.auth /\ a.accounts = s.accounts
  <2>1. a = IF c = None THEN s ELSE [s EXCEPT !.client = c]
    BY AttachFields
  <2>2. s \in Settings
    BY InboundFields
  <2> HIDE DEF a, s
  <2> QED BY <2>1, <2>2 DEF Settings
<1>2. NormalSettings(p, a) = NormalSettings(p, s)
  <2> HIDE DEF a, s
  <2> QED BY <1>1 DEF NormalSettings, Or, s
<1>3. /\ Attach(x, c) \in Inbounds /\ Attach(x, c).protocol = p
      /\ Attach(x, c).enable = x.enable /\ Attach(x, c).stream = x.stream
  BY AttachFields
<1>4. Normalize(Attach(x, c)) = [protocol |-> p, settings |-> NormalSettings(p, a),
                                 stream |-> NormalStream(p, x.stream),
                                 enable |-> x.enable]
  BY <1>3, NormalizeFields
<1> QED BY <1>2, <1>4, NormalizeFields

-----------------------------------------------------------------------------
(* What a save leaves behind: the row, its clients, and their build.       *)

\* The clients after x was saved over the clients c.
Kept(x, c) == Or(Written(x).settings.client, c)

LEMMA KeptTyped ==
  ASSUME NEW x \in Inbounds, NEW c \in Client \cup {None}
  PROVE  Kept(x, c) \in Client \cup {None}
BY WrittenFields, InboundFields, SettingsFields DEF Kept, Or

\* Only the protocols that have clients write some.
LEMMA WrittenClients ==
  ASSUME NEW x \in Inbounds, Accepted(x)
  PROVE  /\ x.protocol \in ClientProtocols <=> Written(x).settings.client # None
         /\ x.protocol = "shadowsocks" => Written(x).settings.secret # None
<1>1. CASE x.protocol = "http"
  BY <1>1, HttpIsWritten DEF HttpForm, Proxy, ClientProtocols
<1>2. CASE x.protocol # "http"
  <2>1. Written(x) = Normalize(x) /\ Valid(Normalize(x))
    BY <1>2, WrittenIsNormal
  <2>2. Normalize(x).protocol = x.protocol
        /\ Normalize(x).settings = NormalSettings(x.protocol, x.settings)
    BY NormalizeFields
  <2>3. CASE x.protocol \in ClientProtocols
    BY <2>1, <2>2, <2>3 DEF Valid, ClientProtocols
  <2>4. CASE x.protocol \notin ClientProtocols
    <3>1. NormalSettings(x.protocol, x.settings).client = None
      BY <1>2, <2>4 DEF NormalSettings, Blank, ProxyProtocols
    <3> QED BY <2>1, <2>2, <2>4, <3>1 DEF Valid
  <2> QED BY <2>3, <2>4
<1> QED BY <1>1, <1>2

\* The row with its clients is what was written, apart from left-over clients.
LEMMA StoredInbound ==
  ASSUME NEW x \in Inbounds, NEW c \in Client \cup {None}, Accepted(x)
  PROVE  /\ x.protocol \in ClientProtocols =>
              /\ Attach(Split(Written(x)), Kept(x, c)) = Written(x)
              /\ Kept(x, c) = Written(x).settings.client
         /\ x.protocol \notin ClientProtocols =>
              /\ Attach(Split(Written(x)), Kept(x, c)) = Attach(Written(x), c)
              /\ Kept(x, c) = c
BY WrittenClients, WrittenFields, SplitFields, AttachUndoesSplit DEF Kept, Or

\* An enabled inbound is built from the database exactly as it was written.
LEMMA StoredBuild ==
  ASSUME NEW x \in Inbounds, NEW c \in Client \cup {None}, Accepted(x), x.enable
  PROVE  /\ BuildState(Attach(Split(Written(x)), Kept(x, c))) = Written(x)
         /\ BuildState(Checked(x)) = Written(x)
         /\ Valid(Written(x))
<1> DEFINE w == Written(x)
<1>1. w \in Inbounds /\ w.protocol = x.protocol
  BY WrittenFields
<1>2. BuildState(Checked(x)) = w
  BY DEF Written
<1>3. Valid(w)
  BY <1>2 DEF Accepted
<1>4. Normalize(w) = w
  <2>1. CASE x.protocol = "http"
    <3>1. w = HttpForm(x, "off", None)
      BY <2>1, HttpIsWritten
    <3>2. w.settings.auth # "on" /\ w.stream = NormalStream("http", x.stream)
          /\ w.enable = x.enable
      BY <3>1 DEF HttpForm, Proxy
    <3>3. Normalize(w) = HttpForm(w, "off", None)
      BY <1>1, <2>1, <3>2, NormalHttp
    <3>4. NormalStream("http", w.stream) = NormalStream("http", x.stream)
      BY <2>1, <3>2, InboundFields, NormalStreamTwice
    <3> QED BY <3>1, <3>2, <3>3, <3>4 DEF HttpForm
  <2>2. CASE x.protocol # "http"
    BY <2>2, WrittenIsNormal, NormalizeTwice
  <2> QED BY <2>1, <2>2
<1>5. BuildState(Attach(Split(w), Kept(x, c))) = w
  <2>1. CASE x.protocol \in ClientProtocols
    BY <1>1, <1>4, <2>1, StoredInbound, BuildIsNormalize
  <2>2. CASE x.protocol \notin ClientProtocols
    <3>1. Normalize(Attach(w, c)) = w
      BY <1>1, <1>4, <2>2, WrittenClients, LeftOverClients
    <3>2. Attach(w, c) \in Inbounds
      BY <1>1, AttachFields
    <3> QED BY <2>2, <3>1, <3>2, StoredInbound, BuildIsNormalize
  <2> QED BY <2>1, <2>2
<1> QED BY <1>2, <1>3, <1>5

LEMMA StoredRuns ==
  ASSUME NEW x \in Inbounds, NEW c \in Client \cup {None}, Accepted(x)
  PROVE  Running(Split(Written(x)), Kept(x, c)) =
           IF x.enable THEN Factory(Written(x)) ELSE NoConfig
<1>1. Split(Written(x)).enable = x.enable
  BY WrittenFields, SplitFields
<1> QED BY <1>1, StoredBuild DEF Running

\* The credential by which an inbound that runs is reached.
AsksFor(k) ==
  CASE k.protocol \in {"vmess", "vless"} -> k.settings.client.id
    [] k.protocol = "trojan" -> k.settings.client.password
    [] k.protocol = "shadowsocks" -> k.settings.secret
    [] k.protocol \in ProxyProtocols -> k.settings.accounts
    [] OTHER -> None

LEMMA FactoryFields ==
  ASSUME NEW x
  PROVE  /\ Factory(x).protocol = x.protocol
         /\ Factory(x).settings = FactorySettings(x.protocol, x.settings)
         /\ Factory(x).stream = IF x.protocol \in ClientProtocols \cup {"http"}
                                  THEN x.stream ELSE NoStream
BY DEF Factory

LEMMA CredentialRuns ==
  ASSUME NEW x \in Inbounds, Accepted(x), x.protocol # "http"
  PROVE  AsksFor(Factory(Written(x))) = Submitted(x)
<1> DEFINE p == x.protocol
           s == x.settings
           n == NormalSettings(p, s)
           f == FactorySettings(p, n)
<1>1. /\ Factory(Written(x)).protocol = p
      /\ Factory(Written(x)).settings = f
  BY WrittenIsNormal, NormalizeFields, FactoryFields
<1>2. /\ p \in AllProtocols /\ s \in Settings
      /\ s.client \in Client \cup {None} /\ s.auth \in {"on", "off", None}
  BY InboundFields, SettingsFields
<1>3. CASE p \in ClientProtocols
  <2>1. s.client \in Client /\ n = [Blank EXCEPT !.client = NormalClient(p, s.client)]
    <3>1. n = [Blank EXCEPT !.client = IF s.client = None THEN None
                                       ELSE NormalClient(p, s.client)]
      BY <1>3 DEF NormalSettings, ClientProtocols
    <3>2. n.client # None
      BY <1>3, WrittenIsNormal, NormalizeFields, WrittenClients
    <3>3. s.client # None
      BY <3>1, <3>2 DEF Blank
    <3> QED BY <1>2, <3>1, <3>3
  <2>2. n.client = NormalClient(p, s.client)
    BY <2>1 DEF Blank
  <2>3. /\ p \in {"vmess", "vless"} => n.client.id = s.client.id
        /\ p = "trojan" => n.client.password = s.client.password
    <3> HIDE DEF n
    <3> QED BY <2>1, <2>2, ClientFields DEF NormalClient, NoClient
  <2>4. /\ p = "vmess" => f.client = [NoClient EXCEPT !.id = n.client.id]
        /\ p = "vless" => f.client = [NoClient EXCEPT !.id = n.client.id,
                                                      !.flow = n.client.flow]
        /\ p = "trojan" => f.client = [NoClient EXCEPT !.password = n.client.password]
    <3> HIDE DEF n
    <3> QED BY <1>3 DEF FactorySettings, ProxyProtocols, Blank
  <2>5. /\ p \in {"vmess", "vless"} => f.client.id = s.client.id
        /\ p = "trojan" => f.client.password = s.client.password
    <3> HIDE DEF f, n
    <3> QED BY <2>3, <2>4 DEF NoClient
  <2>6. /\ p \in {"vmess", "vless"} => Submitted(x) = s.client.id
        /\ p = "trojan" => Submitted(x) = s.client.password
    BY DEF Submitted, Credential, ProxyProtocols
  <2> HIDE DEF f
  <2> QED BY <1>1, <1>3, <2>5, <2>6 DEF AsksFor, ClientProtocols, ProxyProtocols
<1>4. CASE p = "shadowsocks"
  <2>1. n.secret = Or(s.secret, IF s.client = None THEN None ELSE s.client.password)
    BY <1>4 DEF NormalSettings, ClientProtocols, Blank
  <2>2. f.secret = n.secret
    <3> HIDE DEF n
    <3> QED BY <1>4 DEF FactorySettings, ProxyProtocols, Blank
  <2>3. Submitted(x) = Or(s.secret, Or(s.client, NoClient).password)
    BY <1>4 DEF Submitted
  <2>4. Or(s.client, NoClient).password =
          IF s.client = None THEN None ELSE s.client.password
    BY DEF Or, NoClient
  <2> HIDE DEF f
  <2> QED BY <1>1, <1>4, <2>1, <2>2, <2>3, <2>4 DEF AsksFor, ProxyProtocols
<1>5. CASE p = "socks"
  <2>1. /\ n.auth = Or(s.auth, "off")
        /\ n.accounts = IF s.auth = "on" THEN s.accounts ELSE None
    BY <1>5, ProxySettings DEF NormalSettings, ClientProtocols, Proxy
  <2>2. f.accounts = IF n.auth = "on" THEN n.accounts ELSE None
    <3> HIDE DEF n
    <3> QED BY <1>5 DEF FactorySettings, ProxyProtocols, Blank
  <2>3. Submitted(x) = IF s.auth = "on" THEN s.accounts ELSE None
    BY <1>2, <1>5, NoneAssumption DEF Submitted, Credential, ProxyProtocols
  <2>4. f.accounts = IF s.auth = "on" THEN s.accounts ELSE None
    BY <1>2, <2>1, <2>2, NoneAssumption DEF Or
  <2> HIDE DEF f
  <2> QED BY <1>1, <1>5, <2>3, <2>4 DEF AsksFor, ProxyProtocols
<1>6. CASE p \in {"mixed", "dokodemo-door"}
  BY <1>1, <1>6 DEF AsksFor, Submitted, Credential, ProxyProtocols
<1> QED BY <1>2, <1>3, <1>4, <1>5, <1>6 DEF AllProtocols, ProxyProtocols

-----------------------------------------------------------------------------
(* The share link.                                                         *)

LEMMA StreamFromJsonFields ==
  ASSUME NEW t \in Stream
  PROVE  LET o == StreamFromJson(t)
         IN  /\ o \in Stream /\ o.network # None
             /\ t.network \in {"tcp", "ws", "xhttp", "grpc", None}
                  => o.network = Or(t.network, "tcp")
             /\ o.security = Or(t.security, "none")
             /\ o.cert = t.cert /\ o.pair = t.pair
<1> DEFINE n == IF t.network = "splithttp" THEN "xhttp" ELSE Or(t.network, "tcp")
           s == Or(t.security, "none")
<1>1. /\ n \in Networks /\ n # None
      /\ t.network \in {"tcp", "ws", "xhttp", "grpc", None} => n = Or(t.network, "tcp")
      /\ s \in {"none", "tls", "reality"}
  BY StreamFields, NoneAssumption DEF Or, Networks
<1>2. StreamFromJson(t) = [network |-> n, security |-> s, cert |-> t.cert, pair |-> t.pair]
  <2>1. StreamFromJson(t) = [t EXCEPT !.network = n, !.security = s]
    BY DEF StreamFromJson
  <2> HIDE DEF n, s
  <2> DEFINE y == [t EXCEPT !.network = n]
  <2>2. [t EXCEPT !.network = n, !.security = s] = [y EXCEPT !.security = s]
    OBVIOUS
  <2>3. y = [network |-> n, security |-> t.security, cert |-> t.cert, pair |-> t.pair]
    BY DEF Stream
  <2>4. [y EXCEPT !.security = s] = [network |-> n, security |-> s, cert |-> t.cert,
                                     pair |-> t.pair]
    <3> HIDE DEF y
    <3> QED BY <2>3
  <2> QED BY <2>1, <2>2, <2>4, Zenon
<1> HIDE DEF n, s
<1>3. s = Or(t.security, "none")
  BY DEF s
<1> QED BY <1>1, <1>2, <1>3, StreamFields DEF Stream

\* The form of a protocol with a schema keeps what it finds.
LEMMA SchemaSettings ==
  ASSUME NEW p \in ClientProtocols \cup {"shadowsocks", "mixed"}, NEW s \in Settings
  PROVE  SettingsFromJson(p, s) =
           [client |-> Or(s.client, DefaultSettings(p).client),
            secret |-> Or(s.secret, DefaultSettings(p).secret),
            auth |-> s.auth, accounts |-> s.accounts]
<1> DEFINE c == Or(s.client, DefaultSettings(p).client)
           k == Or(s.secret, DefaultSettings(p).secret)
           y == [s EXCEPT !.client = c]
<1>1. SettingsFromJson(p, s) = [s EXCEPT !.client = c, !.secret = k]
  BY DEF SettingsFromJson, ClientProtocols
<1> HIDE DEF c, k
<1>2. [s EXCEPT !.client = c, !.secret = k] = [y EXCEPT !.secret = k]
  OBVIOUS
<1>3. y = [client |-> c, secret |-> s.secret, auth |-> s.auth, accounts |-> s.accounts]
  BY DEF Settings
<1>4. [y EXCEPT !.secret = k] = [client |-> c, secret |-> k, auth |-> s.auth,
                                 accounts |-> s.accounts]
  <2> HIDE DEF y
  <2> QED BY <1>3
<1>5. SettingsFromJson(p, s) = [client |-> c, secret |-> k, auth |-> s.auth,
                                accounts |-> s.accounts]
  BY <1>1, <1>2, <1>4, Zenon
<1> QED BY <1>5 DEF c, k

LEMMA OpenedFields ==
  ASSUME NEW x \in Inbounds
  PROVE  Opened(x) = [protocol |-> x.protocol,
                      settings |-> SettingsFromJson(x.protocol, x.settings),
                      stream |-> StreamFromJson(x.stream), enable |-> x.enable]
BY SettingsAndStream DEF Opened

LEMMA NormalStreamFields ==
  ASSUME NEW p \in AllProtocols, NEW t \in Stream
  PROVE  LET n == NormalStream(p, t)
         IN  /\ n.network \in {"tcp", "ws", "xhttp", "grpc", None}
             /\ n.security \in {"tls", "reality", None}
             /\ n.security # "tls" => n.cert = None
             /\ n.security # "reality" => n.pair = None
             /\ p \notin {"vless", "trojan"} => n.security # "reality"
             /\ p \in ClientProtocols /\ t.network # None => n.network # None
             /\ p \notin ClientProtocols => n.network = None
             /\ p \notin ClientProtocols \cup {"http"} => n = NoStream
<1>1. CASE p \in ClientProtocols /\ t # NoStream
  <2>1. PICK kept : kept = IF t.security = "tls" \/ (t.security = "reality" /\ p # "vmess")
                             THEN t.security ELSE None
    OBVIOUS
  <2>2. kept \in {"tls", "reality", None} /\ (kept = "reality" => p # "vmess")
    BY <2>1, NoneAssumption
  <2>3. NormalNetwork(t.network) \in {"tcp", "ws", "xhttp", "grpc"}
    BY StreamFields DEF NormalNetwork, Networks
  <2>4. NormalStream(p, t) =
          [network |-> NormalNetwork(t.network), security |-> kept,
           cert |-> IF kept = "tls" THEN t.cert ELSE None,
           pair |-> IF kept = "reality" THEN t.pair ELSE None]
    BY <1>1, <2>1 DEF NormalStream, ClientProtocols
  <2> QED BY <1>1, <2>2, <2>3, <2>4, NoneAssumption DEF ClientProtocols, Networks
<1>2. CASE p = "http" /\ t.security = "tls"
  <2>1. NormalStream(p, t) = [network |-> None, security |-> "tls", cert |-> t.cert,
                              pair |-> None]
    <3>1. NormalStream(p, t) = [NoStream EXCEPT !.security = "tls", !.cert = t.cert]
      BY <1>2 DEF NormalStream, ClientProtocols
    <3>2. [NoStream EXCEPT !.security = "tls", !.cert = t.cert] =
            [[NoStream EXCEPT !.security = "tls"] EXCEPT !.cert = t.cert]
      OBVIOUS
    <3>3. [NoStream EXCEPT !.security = "tls"] =
            [network |-> None, security |-> "tls", cert |-> None, pair |-> None]
      BY DEF NoStream
    <3>4. [[network |-> None, security |-> "tls", cert |-> None, pair |-> None]
             EXCEPT !.cert = t.cert] =
            [network |-> None, security |-> "tls", cert |-> t.cert, pair |-> None]
      OBVIOUS
    <3> QED BY <3>1, <3>2, <3>3, <3>4, Zenon
  <2> QED BY <1>2, <2>1, NoneAssumption DEF ClientProtocols
<1>3. CASE /\ ~(p \in ClientProtocols /\ t # NoStream)
           /\ ~(p = "http" /\ t.security = "tls")
  <2>1. NormalStream(p, t) = NoStream
    BY <1>3 DEF NormalStream
  <2>2. p \in ClientProtocols => t.network = None
    BY <1>3 DEF NoStream
  <2> QED BY <2>1, <2>2, NoneAssumption DEF NoStream
<1> QED BY <1>1, <1>2, <1>3

\* The link made from a stored row is the one of what runs.
LEMMA LinkIsOfRunning ==
  ASSUME NEW x \in Inbounds, NEW c \in Client \cup {None}, Accepted(x),
         HasLink(x.protocol)
  PROVE  LET l == Link(Opened(Attach(Split(Written(x)), Kept(x, c))))
             k == Factory(Written(x))
         IN  /\ l.credential = Credential(k.protocol, k.settings)
             /\ l.network = Or(k.stream.network, "tcp")
             /\ l.security = Or(k.stream.security, "none")
             /\ l.pair = k.stream.pair
             /\ l.security # "none" /\ k.settings.client # None
                  => l.flow = k.settings.client.flow
<1> DEFINE p == x.protocol
           w == Written(x)
           a == Attach(Split(w), Kept(x, c))
           o == Opened(a)
           l == Link(o)
           k == Factory(w)
<1>1. /\ p \in {"vmess", "vless", "trojan", "shadowsocks"}
      /\ p \in AllProtocols
  BY InboundFields DEF HasLink, ClientProtocols
<1>2. /\ w = Normalize(x) /\ w \in Inbounds /\ w.protocol = p
      /\ w.stream = NormalStream(p, x.stream) /\ w.settings = NormalSettings(p, x.settings)
  BY <1>1, WrittenIsNormal, NormalizeFields
<1>3. /\ a \in Inbounds /\ a.protocol = p /\ a.stream = w.stream
      /\ a.settings.secret = w.settings.secret
      /\ p \in ClientProtocols => a = w
  <2>1. a = w \/ a = Attach(w, c)
    BY StoredInbound
  <2>2. p \in ClientProtocols => a = w
    BY StoredInbound
  <2>3. Attach(w, c).settings.secret = w.settings.secret
    <3>1. Attach(w, c).settings = IF c = None THEN w.settings
                                  ELSE [w.settings EXCEPT !.client = c]
      BY <1>2, AttachFields
    <3>2. w.settings \in Settings
      BY <1>2, InboundFields
    <3> HIDE DEF w
    <3> QED BY <3>1, <3>2 DEF Settings
  <2>4. /\ Attach(w, c) \in Inbounds /\ Attach(w, c).protocol = w.protocol
        /\ Attach(w, c).stream = w.stream
    BY <1>2, AttachFields
  <2> HIDE DEF a, w
  <2>5. CASE a = w
    BY <1>2, <2>2, <2>5
  <2>6. CASE a = Attach(w, c)
    BY <1>2, <2>2, <2>3, <2>4, <2>6
  <2> QED BY <2>1, <2>5, <2>6
<1>4. /\ o.protocol = p /\ o.stream = StreamFromJson(w.stream)
      /\ o.settings.client = Or(a.settings.client, DefaultSettings(p).client)
      /\ o.settings.secret = Or(w.settings.secret, DefaultSettings(p).secret)
  <2>1. a.settings \in Settings
    BY <1>3, InboundFields
  <2> HIDE DEF a, w
  <2> QED BY <1>1, <1>3, <2>1, OpenedFields, SchemaSettings DEF ClientProtocols
<1>5. /\ o.stream.network = Or(w.stream.network, "tcp")
      /\ o.stream.security = Or(w.stream.security, "none")
      /\ o.stream.pair = w.stream.pair
      /\ w.stream.security # "reality" => w.stream.pair = None
      /\ w.stream.security # "none"
      /\ p = "shadowsocks" => w.stream = NoStream
      /\ w.stream.security \in {"tls", "reality", None}
  <2>1. w.stream \in Stream /\ x.stream \in Stream
    BY <1>2, InboundFields
  <2>2. /\ w.stream.network \in {"tcp", "ws", "xhttp", "grpc", None}
        /\ w.stream.security \in {"tls", "reality", None}
        /\ w.stream.security # "reality" => w.stream.pair = None
        /\ p = "shadowsocks" => w.stream = NoStream
    <3> HIDE DEF w
    <3> QED BY <1>1, <1>2, <2>1, NormalStreamFields DEF ClientProtocols
  <2> HIDE DEF w, o
  <2> QED BY <1>4, <2>1, <2>2, StreamFromJsonFields, NoneAssumption
<1>6. /\ k.protocol = p /\ k.settings = FactorySettings(p, w.settings)
      /\ k.stream = w.stream
  <2>1. p \notin ClientProtocols => w.stream = NoStream
    BY <1>1, <1>5 DEF ClientProtocols
  <2> HIDE DEF w
  <2> QED BY <1>2, <2>1, FactoryFields
<1>7. p \in ClientProtocols =>
        /\ w.settings.client \in Client /\ o.settings.client = w.settings.client
        /\ p # "vless" => w.settings.client.flow = None
  <2> SUFFICES ASSUME p \in ClientProtocols
               PROVE  /\ w.settings.client \in Client
                      /\ o.settings.client = w.settings.client
                      /\ p # "vless" => w.settings.client.flow = None
    OBVIOUS
  <2>1. w.settings.client # None /\ w.settings \in Settings
    BY <1>2, WrittenClients, InboundFields
  <2>2. w.settings.client \in Client /\ o.settings.client = w.settings.client
    <3> HIDE DEF w, o, a
    <3> QED BY <1>3, <1>4, <2>1, SettingsFields DEF Or
  <2>3. w.settings.client = IF x.settings.client = None THEN None
                            ELSE NormalClient(p, x.settings.client)
    <3> HIDE DEF w
    <3> QED BY <1>2 DEF NormalSettings, ClientProtocols, Blank
  <2>4. p # "vless" => w.settings.client.flow = None
    <3> HIDE DEF w
    <3> QED BY <2>1, <2>3 DEF NormalClient, NoClient, ClientProtocols
  <2> QED BY <2>2, <2>4
<1>8. l.credential = Credential(k.protocol, k.settings)
  <2>1. l.credential = Credential(p, o.settings)
    BY <1>4 DEF Link
  <2>2. CASE p = "shadowsocks"
    <3>1. w.settings.secret # None
      BY <2>2, WrittenClients
    <3>2. FactorySettings(p, w.settings).secret = w.settings.secret
      BY <2>2 DEF FactorySettings, ProxyProtocols, Blank
    <3> HIDE DEF w, o, l, k
    <3> QED BY <1>4, <1>6, <2>1, <2>2, <3>1, <3>2 DEF Credential, Or, ProxyProtocols
  <2>3. CASE p = "trojan"
    <3>1. FactorySettings(p, w.settings).client.password = w.settings.client.password
      BY <2>3 DEF FactorySettings, ProxyProtocols, Blank, NoClient
    <3> HIDE DEF w, o, l, k
    <3> QED BY <1>6, <1>7, <2>1, <2>3, <3>1 DEF Credential, ProxyProtocols, ClientProtocols
  <2>4. CASE p \in {"vmess", "vless"}
    <3>1. FactorySettings(p, w.settings).client.id = w.settings.client.id
      <4>1. \/ FactorySettings(p, w.settings).client =
                  [NoClient EXCEPT !.id = w.settings.client.id]
            \/ FactorySettings(p, w.settings).client =
                  [NoClient EXCEPT !.id = w.settings.client.id,
                                   !.flow = w.settings.client.flow]
        <5> HIDE DEF w
        <5> QED BY <2>4 DEF FactorySettings, ProxyProtocols, Blank
      <4> HIDE DEF w
      <4> QED BY <4>1 DEF NoClient
    <3> HIDE DEF w, o, l, k
    <3> QED BY <1>6, <1>7, <2>1, <2>4, <3>1 DEF Credential, ProxyProtocols, ClientProtocols
  <2> QED BY <1>1, <2>2, <2>3, <2>4
<1>9. /\ l.network = Or(k.stream.network, "tcp")
      /\ l.security = Or(k.stream.security, "none")
      /\ l.pair = k.stream.pair
  <2>1. /\ l.network = o.stream.network /\ l.security = o.stream.security
        /\ l.pair = IF o.stream.security = "reality" THEN o.stream.pair ELSE None
    BY DEF Link
  <2> HIDE DEF w, o, l, k
  <2> QED BY <1>5, <1>6, <2>1, NoneAssumption DEF Or
<1>10. l.security # "none" /\ k.settings.client # None
         => l.flow = k.settings.client.flow
  <2> SUFFICES ASSUME l.security # "none"
               PROVE  l.flow = k.settings.client.flow
    OBVIOUS
  <2>1. p \in ClientProtocols
    <3>1. p = "shadowsocks" => l.security = "none"
      <4> HIDE DEF w, o, l, k
      <4> QED BY <1>5, <1>6, <1>9, NoneAssumption DEF NoStream, Or
    <3> QED BY <1>1, <3>1 DEF ClientProtocols
  <2>2. l.flow = IF CanEnableVision(p, o.stream) THEN o.settings.client.flow ELSE None
    BY <1>4 DEF Link
  <2>3. l.security = o.stream.security /\ o.stream.security \in {"tls", "reality"}
    <3>1. l.security = o.stream.security
      BY DEF Link
    <3> HIDE DEF w, o, l, k
    <3> QED BY <1>5, <3>1 DEF Or
  <2>4. CASE p = "vless"
    <3>1. FactorySettings(p, w.settings).client.flow = w.settings.client.flow
      BY <2>4 DEF FactorySettings, ProxyProtocols, Blank, NoClient
    <3> HIDE DEF w, o, l, k
    <3> QED BY <1>6, <1>7, <2>1, <2>2, <2>3, <2>4, <3>1 DEF CanEnableVision
  <2>5. CASE p # "vless"
    <3>1. FactorySettings(p, w.settings).client.flow = None
      <4>1. \/ FactorySettings(p, w.settings).client =
                  [NoClient EXCEPT !.id = w.settings.client.id]
            \/ FactorySettings(p, w.settings).client =
                  [NoClient EXCEPT !.password = w.settings.client.password]
        <5> HIDE DEF w
        <5> QED BY <2>1, <2>5 DEF FactorySettings, ProxyProtocols, ClientProtocols, Blank
      <4> HIDE DEF w
      <4> QED BY <4>1 DEF NoClient
    <3> HIDE DEF w, o, l, k
    <3> QED BY <1>6, <2>2, <2>5, <3>1 DEF CanEnableVision
  <2> QED BY <2>4, <2>5
<1> QED BY <1>8, <1>9, <1>10

-----------------------------------------------------------------------------
(* Opening a stored row and sending it untouched.                          *)

LEMMA DefaultSettingsTyped ==
  ASSUME NEW p \in AllProtocols
  PROVE  /\ DefaultSettings(p) \in Settings
         /\ p \in ClientProtocols <=> DefaultSettings(p).client # None
<1>1. /\ [NoClient EXCEPT !.id = DefaultKey] \in Client
      /\ [NoClient EXCEPT !.password = DefaultKey] \in Client
  BY KeysAssumption DEF NoClient, Client
<1>2. [Blank EXCEPT !.auth = "off", !.accounts = DefaultKey] = Proxy("off", DefaultKey)
  BY ProxySettings
<1>3. CASE p \in ProxyProtocols
  BY <1>2, <1>3, KeysAssumption
     DEF DefaultSettings, ProxyProtocols, ClientProtocols, Proxy, Settings
<1>4. CASE p \in ClientProtocols
  <2>1. \E c \in Client : DefaultSettings(p) = [Blank EXCEPT !.client = c]
    BY <1>1, <1>4 DEF DefaultSettings, ClientProtocols, ProxyProtocols
  <2> QED BY <1>4, <2>1, NoneAssumption DEF Blank, Settings
<1>5. CASE p \notin ClientProtocols \cup ProxyProtocols
  BY <1>5, KeysAssumption
     DEF DefaultSettings, ClientProtocols, ProxyProtocols, Blank, Settings
<1> QED BY <1>3, <1>4, <1>5

LEMMA SocksSettings ==
  ASSUME NEW s \in Settings
  PROVE  SettingsFromJson("socks", s) =
           Proxy(Or(s.auth, "off"),
                 IF s.auth = "on" THEN Or(s.accounts, DefaultKey) ELSE DefaultKey)
BY ProxySettings DEF SettingsFromJson

LEMMA HttpSettings ==
  ASSUME NEW s \in Settings
  PROVE  SettingsFromJson("http", s) =
           Proxy(Or(s.auth, IF s.accounts = None THEN "off" ELSE "on"),
                 Or(s.accounts, DefaultKey))
BY ProxySettings DEF SettingsFromJson

LEMMA OpenedTyped ==
  ASSUME NEW x \in Inbounds
  PROVE  /\ Opened(x) \in Inbounds
         /\ Opened(x).stream.network # None
         /\ x.protocol \in ClientProtocols => Opened(x).settings.client # None
<1> DEFINE p == x.protocol
           s == SettingsFromJson(p, x.settings)
           t == StreamFromJson(x.stream)
<1>1. /\ p \in AllProtocols /\ x.settings \in Settings /\ x.stream \in Stream
      /\ x.settings.client \in Client \cup {None}
      /\ x.settings.secret \in Keys \cup {None}
      /\ x.settings.auth \in {"on", "off", None}
      /\ x.settings.accounts \in Keys \cup {None}
  BY InboundFields, SettingsFields
<1>2. s \in Settings /\ (p \in ClientProtocols => s.client # None)
  <2>1. CASE p \in ClientProtocols \cup {"shadowsocks", "mixed"}
    <3>1. /\ DefaultSettings(p).client \in Client \cup {None}
          /\ DefaultSettings(p).secret \in Keys \cup {None}
          /\ p \in ClientProtocols => DefaultSettings(p).client # None
      BY <1>1, DefaultSettingsTyped, SettingsFields
    <3>2. s = [client |-> Or(x.settings.client, DefaultSettings(p).client),
               secret |-> Or(x.settings.secret, DefaultSettings(p).secret),
               auth |-> x.settings.auth, accounts |-> x.settings.accounts]
      BY <1>1, <2>1, SchemaSettings
    <3> HIDE DEF s
    <3> QED BY <1>1, <3>1, <3>2 DEF Or, Settings
  <2>2. CASE p = "dokodemo-door"
    BY <2>2, BlankTyped DEF SettingsFromJson, ClientProtocols
  <2>3. CASE p \in ProxyProtocols
    <3>1. \E auth \in {"on", "off"}, k \in Keys : s = Proxy(auth, k)
      BY <1>1, <2>3, SocksSettings, HttpSettings, KeysAssumption, NoneAssumption
         DEF Or, ProxyProtocols
    <3> HIDE DEF s
    <3> QED BY <2>3, <3>1 DEF Proxy, Settings, ProxyProtocols, ClientProtocols
  <2> QED BY <1>1, <2>1, <2>2, <2>3 DEF AllProtocols
<1>3. t \in Stream /\ t.network # None
  BY <1>1, StreamFromJsonFields
<1>4. Opened(x) = [protocol |-> p, settings |-> s, stream |-> t, enable |-> x.enable]
  BY OpenedFields
<1> HIDE DEF s, t
<1> QED BY <1>1, <1>2, <1>3, <1>4, InboundFields DEF Inbounds

LEMMA StreamToJsonFields ==
  ASSUME NEW t \in Stream
  PROVE  StreamToJson(t) =
           [network |-> t.network, security |-> t.security,
            cert |-> IF t.security = "tls" THEN t.cert ELSE None,
            pair |-> IF t.security = "reality" THEN t.pair ELSE None]
<1> DEFINE k == IF t.security = "tls" THEN t.cert ELSE None
           r == IF t.security = "reality" THEN t.pair ELSE None
           y == [t EXCEPT !.cert = k]
<1>1. StreamToJson(t) = [t EXCEPT !.cert = k, !.pair = r]
  BY DEF StreamToJson
<1> HIDE DEF k, r
<1>2. [t EXCEPT !.cert = k, !.pair = r] = [y EXCEPT !.pair = r]
  OBVIOUS
<1>3. y = [network |-> t.network, security |-> t.security, cert |-> k, pair |-> t.pair]
  BY DEF Stream
<1>4. [y EXCEPT !.pair = r] = [network |-> t.network, security |-> t.security,
                               cert |-> k, pair |-> r]
  <2> HIDE DEF y
  <2> QED BY <1>3
<1>5. StreamToJson(t) = [network |-> t.network, security |-> t.security,
                         cert |-> k, pair |-> r]
  BY <1>1, <1>2, <1>4, Zenon
<1> QED BY <1>5 DEF k, r

LEMMA PayloadFields ==
  ASSUME NEW x \in Inbounds
  PROVE  /\ Payload(x) = [protocol |-> x.protocol,
                          settings |-> SettingsToJson(x.protocol, x.settings),
                          stream |-> PayloadStream(x.protocol, x.stream),
                          enable |-> x.enable]
         /\ Payload(x) \in Inbounds
         /\ x.stream.network # None => Networked(Payload(x))
<1> DEFINE s == SettingsToJson(x.protocol, x.settings)
           t == PayloadStream(x.protocol, x.stream)
<1>1. s \in Settings
  BY InboundFields, SettingsFields DEF SettingsToJson, Settings
<1>2. /\ t \in Stream
      /\ x.stream.network # None /\ x.protocol \in ClientProtocols => t.network # None
  <2>1. x.stream \in Stream
    BY InboundFields
  <2>2. /\ StreamToJson(x.stream) \in Stream
        /\ StreamToJson(x.stream).network = x.stream.network
    BY <2>1, StreamToJsonFields, StreamFields DEF Stream
  <2> QED BY <2>2, BlankTyped DEF PayloadStream, CanEnableStream
<1>3. Payload(x) = [protocol |-> x.protocol, settings |-> s, stream |-> t,
                    enable |-> x.enable]
  BY SettingsAndStream DEF Payload
<1>4. /\ Payload(x) \in Inbounds
      /\ x.stream.network # None => Networked(Payload(x))
  <2> HIDE DEF s, t
  <2> QED BY <1>1, <1>2, <1>3, InboundFields DEF Inbounds, Networked
<1> QED BY <1>3, <1>4

\* What the row of a protocol without HTTP shows is normalised back to it; the
\* settings a show is made of are the written ones, left-over clients apart.
LEMMA SettingsComeBack ==
  ASSUME NEW p \in AllProtocols \ {"http"}, NEW n \in Settings, NEW a \in Settings,
         NormalSettings(p, n) = n,
         p \in ClientProtocols => n.client # None /\ a = n,
         p = "shadowsocks" => n.secret # None,
         p = "socks" /\ n.auth = "on" => n.accounts # None,
         a.secret = n.secret, a.auth = n.auth, a.accounts = n.accounts
  PROVE  NormalSettings(p, SettingsToJson(p, SettingsFromJson(p, a))) = n
<1> DEFINE o == SettingsFromJson(p, a)
<1>1. CASE p \in ClientProtocols
  <2>1. o.client = n.client
    BY <1>1, SchemaSettings DEF Or
  <2>2. SettingsToJson(p, o) = o
    BY <1>1 DEF SettingsToJson, ProxyProtocols, ClientProtocols
  <2>3. NormalSettings(p, o) = NormalSettings(p, n)
    <3> HIDE DEF o
    <3> QED BY <1>1, <2>1 DEF NormalSettings, ClientProtocols
  <2> QED BY <2>2, <2>3
<1>2. CASE p = "shadowsocks"
  <2>1. o.secret = n.secret
    BY <1>2, SchemaSettings DEF Or
  <2>2. SettingsToJson(p, o) = o
    BY <1>2 DEF SettingsToJson, ProxyProtocols
  <2>3. NormalSettings(p, o) = NormalSettings(p, n)
    <3> HIDE DEF o
    <3> QED BY <1>2, <2>1 DEF NormalSettings, ClientProtocols, Or
  <2> QED BY <2>2, <2>3
<1>3. CASE p \in {"mixed", "dokodemo-door"}
  BY <1>3 DEF NormalSettings, ClientProtocols
<1>4. CASE p = "socks"
  <2>1. /\ n = Proxy(n.auth, n.accounts)
        /\ n.auth = Or(n.auth, "off")
        /\ n.accounts = IF n.auth = "on" THEN n.accounts ELSE None
    <3>1. NormalSettings(p, n) =
            Proxy(Or(n.auth, "off"), IF n.auth = "on" THEN n.accounts ELSE None)
      BY <1>4, ProxySettings DEF NormalSettings, ClientProtocols
    <3> QED BY <3>1 DEF Proxy
  <2>2. n.auth \in {"on", "off"}
    BY <2>1, SettingsFields, NoneAssumption DEF Or
  <2>3. o = Proxy(n.auth, IF n.auth = "on" THEN n.accounts ELSE DefaultKey)
    BY <1>4, <2>1, <2>2, SocksSettings DEF Or
  <2>4. SettingsToJson(p, o) = n
    <3>1. CASE n.auth = "on"
      <4>1. o = n
        BY <2>1, <2>3, <3>1
      <4> QED BY <3>1, <4>1 DEF SettingsToJson
    <3>2. CASE n.auth = "off"
      <4>1. SettingsToJson(p, o) = [o EXCEPT !.accounts = None]
        BY <1>4, <2>3, <3>2 DEF SettingsToJson, ProxyProtocols, Proxy
      <4>2. o = Proxy("off", DefaultKey) /\ n = Proxy("off", None)
        BY <2>1, <2>3, <3>2
      <4> HIDE DEF o
      <4> QED BY <4>1, <4>2 DEF Proxy
    <3> QED BY <2>2, <3>1, <3>2
  <2> QED BY <2>4
<1> QED BY <1>1, <1>2, <1>3, <1>4 DEF AllProtocols, ProxyProtocols

LEMMA StreamComesBack ==
  ASSUME NEW p \in AllProtocols, NEW t \in Stream,
         NormalStream(p, t) = t,
         p \in ClientProtocols => t.network # None,
         p = "http" /\ t.security = "tls" => t.cert # None
  PROVE  NormalStream(p, PayloadStream(p, StreamFromJson(t))) = t
<1> DEFINE o == StreamFromJson(t)
           y == StreamToJson(o)
<1>1. /\ o \in Stream /\ o.security = Or(t.security, "none")
      /\ o.cert = t.cert /\ o.pair = t.pair
      /\ o.network = Or(t.network, "tcp")
      /\ t.security \in {"tls", "reality", None}
      /\ t.security # "tls" => t.cert = None
      /\ t.security # "reality" => t.pair = None
      /\ p \notin {"vless", "trojan"} => t.security # "reality"
      /\ p \notin ClientProtocols => t.network = None
  BY StreamFromJsonFields, NormalStreamFields
<1>2. y = [network |-> Or(t.network, "tcp"), security |-> Or(t.security, "none"),
           cert |-> t.cert, pair |-> t.pair]
  <2>1. y = [network |-> o.network, security |-> o.security,
             cert |-> IF o.security = "tls" THEN o.cert ELSE None,
             pair |-> IF o.security = "reality" THEN o.pair ELSE None]
    BY <1>1, StreamToJsonFields
  <2> HIDE DEF o
  <2> QED BY <1>1, <2>1, NoneAssumption DEF Or
<1>3. CASE p \in ClientProtocols
  <2>1. y = [network |-> t.network, security |-> Or(t.security, "none"),
             cert |-> t.cert, pair |-> t.pair]
    BY <1>2, <1>3 DEF Or
  <2>2. PayloadStream(p, o) = y
    BY <1>3 DEF PayloadStream, CanEnableStream
  <2>3. y # NoStream /\ t # NoStream
    BY <1>3, <2>1 DEF NoStream
  <2>4. NormalStream(p, y) = NormalStream(p, t)
    <3>1. /\ y.network = t.network /\ y.cert = t.cert /\ y.pair = t.pair
          /\ y.security = Or(t.security, "none")
      BY <2>1
    <3>2. CASE t.security = None
      <4>1. y.security = "none"
        BY <3>1, <3>2 DEF Or
      <4> HIDE DEF y
      <4> QED BY <1>3, <2>3, <3>1, <3>2, <4>1, NoneAssumption
              DEF NormalStream, ClientProtocols
    <3>3. CASE t.security # None
      <4>1. y.security = t.security
        BY <3>1, <3>3 DEF Or
      <4> HIDE DEF y
      <4> QED BY <1>3, <2>3, <3>1, <4>1 DEF NormalStream, ClientProtocols
    <3> QED BY <3>2, <3>3
  <2> QED BY <2>2, <2>4
<1>4. CASE p = "http"
  <2>1. PayloadStream(p, o) = y
    BY <1>4 DEF PayloadStream
  <2>2. CASE t.security = "tls"
    <3>1. y.security = "tls" /\ y.cert = t.cert
      BY <1>2, <2>2, NoneAssumption DEF Or
    <3> HIDE DEF y
    <3> QED BY <1>4, <2>1, <2>2, <3>1 DEF NormalStream, ClientProtocols
  <2>3. CASE t.security = None
    <3>1. y.security = "none"
      BY <1>2, <2>3 DEF Or
    <3> HIDE DEF y
    <3> QED BY <1>4, <2>1, <2>3, <3>1, NoneAssumption DEF NormalStream, ClientProtocols
  <2> QED BY <1>1, <1>4, <2>2, <2>3
<1>5. CASE p \notin ClientProtocols \cup {"http"}
  <2>1. t = NoStream
    BY <1>5, NormalStreamFields
  <2> QED BY <1>5, <2>1 DEF NormalStream
<1> QED BY <1>3, <1>4, <1>5

\* The request that opening and confirming a stored row sends.
Resent(x, c) == Payload(Opened(Attach(Split(Written(x)), Kept(x, c))))

LEMMA ResentFields ==
  ASSUME NEW x \in Inbounds, NEW c \in Client \cup {None}, Accepted(x)
  PROVE  /\ Resent(x, c) \in Inbounds
         /\ Resent(x, c).protocol = x.protocol /\ Resent(x, c).enable = x.enable
         /\ Resent(x, c).stream =
              PayloadStream(x.protocol, StreamFromJson(Written(x).stream))
         /\ \E a \in Settings :
              /\ Resent(x, c).settings =
                   SettingsToJson(x.protocol, SettingsFromJson(x.protocol, a))
              /\ a.secret = Written(x).settings.secret
              /\ a.auth = Written(x).settings.auth
              /\ a.accounts = Written(x).settings.accounts
              /\ x.protocol \in ClientProtocols => a = Written(x).settings
<1> DEFINE w == Written(x)
           k == Kept(x, c)
           a == Attach(Split(w), k)
           s == a.settings
<1>1. w \in Inbounds /\ w.protocol = x.protocol /\ w.enable = x.enable
      /\ w.settings \in Settings
  BY WrittenFields, InboundFields
<1>2. /\ a \in Inbounds /\ a.protocol = x.protocol /\ a.enable = x.enable
      /\ a.stream = w.stream
  <2>1. /\ Split(w) \in Inbounds /\ Split(w).protocol = x.protocol
        /\ Split(w).enable = x.enable /\ Split(w).stream = w.stream
    BY <1>1, SplitFields
  <2>2. k \in Client \cup {None}
    BY KeptTyped
  <2> HIDE DEF k, w
  <2> QED BY <2>1, <2>2, AttachFields
<1>3. /\ s \in Settings
      /\ s.secret = w.settings.secret /\ s.auth = w.settings.auth
      /\ s.accounts = w.settings.accounts
      /\ x.protocol \in ClientProtocols => s = w.settings
  <2>1. CASE x.protocol \in ClientProtocols
    <3>1. a = w
      BY <2>1, StoredInbound
    <3> HIDE DEF a, w
    <3> QED BY <1>1, <3>1
  <2>2. CASE x.protocol \notin ClientProtocols
    <3>1. a = Attach(w, c)
      BY <2>2, StoredInbound
    <3>2. s = IF c = None THEN w.settings ELSE [w.settings EXCEPT !.client = c]
      <4> HIDE DEF a, w
      <4> QED BY <1>1, <3>1, AttachFields
    <3>3. s \in Settings
      BY <1>2, InboundFields
    <3> HIDE DEF s, w
    <3> QED BY <1>1, <2>2, <3>2, <3>3 DEF Settings
  <2> QED BY <2>1, <2>2
<1>4. Opened(a) = [protocol |-> x.protocol, settings |-> SettingsFromJson(x.protocol, s),
                   stream |-> StreamFromJson(w.stream), enable |-> x.enable]
  <2> HIDE DEF w
  <2> QED BY <1>2, OpenedFields
<1>5. Opened(a) \in Inbounds
  <2> HIDE DEF a
  <2> QED BY <1>2, OpenedTyped
<1>6. /\ Payload(Opened(a)) \in Inbounds
      /\ Payload(Opened(a)) =
           [protocol |-> x.protocol,
            settings |-> SettingsToJson(x.protocol, SettingsFromJson(x.protocol, s)),
            stream |-> PayloadStream(x.protocol, StreamFromJson(w.stream)),
            enable |-> x.enable]
  <2> HIDE DEF a, s, w
  <2> QED BY <1>4, <1>5, PayloadFields
<1>7. Resent(x, c) = Payload(Opened(a))
  BY DEF Resent
<1> HIDE DEF a, s, w
<1> QED BY <1>3, <1>6, <1>7 DEF w

\* It is accepted, and writes the same row and the same clients again.
LEMMA ResentIsSame ==
  ASSUME NEW x \in Inbounds, NEW c \in Client \cup {None}, Accepted(x), Networked(x)
  PROVE  /\ Accepted(Resent(x, c)) /\ Written(Resent(x, c)) = Written(x)
         /\ Or(Written(Resent(x, c)).settings.client, Kept(x, c)) = Kept(x, c)
<1> DEFINE w == Written(x)
           y == Resent(x, c)
           p == x.protocol
<1>1. /\ w \in Inbounds /\ w.protocol = p /\ w.enable = x.enable
      /\ w.settings \in Settings /\ w.stream \in Stream
      /\ p \in AllProtocols /\ x.settings \in Settings /\ x.stream \in Stream
      /\ w = [protocol |-> p, settings |-> w.settings, stream |-> w.stream,
              enable |-> x.enable]
  <2>1. w \in Inbounds /\ w.protocol = p /\ w.enable = x.enable
    BY WrittenFields
  <2> HIDE DEF w
  <2> QED BY <2>1, InboundFields
<1>2. /\ y \in Inbounds /\ y.protocol = p /\ y.enable = x.enable
      /\ y.stream = PayloadStream(p, StreamFromJson(w.stream))
  BY ResentFields
<1>3. PICK a \in Settings :
        /\ y.settings = SettingsToJson(p, SettingsFromJson(p, a))
        /\ a.secret = w.settings.secret /\ a.auth = w.settings.auth
        /\ a.accounts = w.settings.accounts
        /\ p \in ClientProtocols => a = w.settings
  BY ResentFields
<1>4. w.stream = NormalStream(p, x.stream)
  <2>1. CASE p = "http"
    BY <2>1, HttpIsWritten DEF HttpForm
  <2>2. CASE p # "http"
    BY <2>2, WrittenIsNormal, NormalizeFields
  <2> QED BY <2>1, <2>2
<1>5. NormalStream(p, y.stream) = w.stream
  <2>1. NormalStream(p, w.stream) = w.stream
    BY <1>1, <1>4, NormalStreamTwice
  <2>2. p \in ClientProtocols => w.stream.network # None
    <3> HIDE DEF w
    <3> QED BY <1>1, <1>4, NormalStreamFields DEF Networked
  <2>3. p = "http" /\ w.stream.security = "tls" => w.stream.cert # None
    <3>1. Valid(Normalize(x)) /\ Normalize(x).stream = NormalStream(p, x.stream)
          /\ Normalize(x).protocol = p
      BY BuildIsNormalize, NormalizeFields DEF Accepted
    <3> HIDE DEF w
    <3> QED BY <1>4, <3>1 DEF Valid
  <2> HIDE DEF w, y
  <2> QED BY <1>1, <1>2, <2>1, <2>2, <2>3, StreamComesBack
<1>6. CASE p # "http"
  <2>1. w = Normalize(x) /\ Valid(w) /\ w.settings = NormalSettings(p, x.settings)
    BY <1>6, WrittenIsNormal, NormalizeFields
  <2>2. NormalSettings(p, w.settings) = w.settings
    BY <1>1, <2>1, NormalSettingsTwice
  <2>3. /\ p \in ClientProtocols => w.settings.client # None
        /\ p = "shadowsocks" => w.settings.secret # None
        /\ p = "socks" /\ w.settings.auth = "on" => w.settings.accounts # None
    <3> HIDE DEF w
    <3> QED BY <1>1, <2>1 DEF Valid, ProxyProtocols
  <2>4. NormalSettings(p, y.settings) = w.settings
    <3> HIDE DEF w, y
    <3> QED BY <1>1, <1>3, <1>6, <2>2, <2>3, SettingsComeBack
  <2>5. Normalize(y) = w
    <3> HIDE DEF w, y
    <3> QED BY <1>1, <1>2, <1>5, <2>4, NormalizeFields
  <2>6. Written(y) = w /\ Accepted(y)
    <3> HIDE DEF w, y
    <3> QED BY <1>2, <1>6, <2>1, <2>5, WrittenIsNormal
  <2>7. Or(w.settings.client, Kept(x, c)) = Kept(x, c)
    BY DEF Kept, Or
  <2> HIDE DEF w, y
  <2> QED BY <2>6, <2>7 DEF w, y
<1>7. CASE p = "http"
  <2> DEFINE k == w.settings.accounts
             on == w.settings.auth = None /\ k # None
  <2>1. /\ w.settings = Proxy(w.settings.auth, k)
        /\ w.settings.auth \in {"off", None}
        /\ x.enable => w.settings = Proxy("off", None)
        /\ ~x.enable => w.settings.auth = None
    <3>1. /\ Checked(x) = HttpForm(x, None, IF x.settings.auth = "on"
                                              THEN x.settings.accounts ELSE None)
          /\ w = IF x.enable THEN HttpForm(x, "off", None) ELSE Checked(x)
      BY <1>7, HttpIsWritten
    <3> HIDE DEF w
    <3> QED BY <3>1 DEF HttpForm, Proxy
  <2>2. y.settings = IF on THEN Proxy("on", k) ELSE Proxy("off", None)
    <3>1. SettingsFromJson(p, a) = IF on THEN Proxy("on", k)
                                   ELSE Proxy("off", Or(k, DefaultKey))
      <4>1. SettingsFromJson(p, a) =
              Proxy(Or(w.settings.auth, IF k = None THEN "off" ELSE "on"),
                    Or(k, DefaultKey))
        BY <1>3, <1>7, HttpSettings
      <4>2. w.settings.auth \in {"off", None}
        BY <2>1
      <4> HIDE DEF w
      <4> QED BY <4>1, <4>2, NoneAssumption DEF Or
    <3>2. CASE on
      BY <1>3, <3>1, <3>2 DEF SettingsToJson, Proxy
    <3>3. CASE ~on
      <4>1. SettingsFromJson(p, a) = Proxy("off", Or(k, DefaultKey))
        BY <3>1, <3>3
      <4>2. SettingsToJson(p, Proxy("off", Or(k, DefaultKey))) =
              [Proxy("off", Or(k, DefaultKey)) EXCEPT !.accounts = None]
        BY <1>7 DEF SettingsToJson, ProxyProtocols, Proxy
      <4>3. \A q : [Proxy("off", q) EXCEPT !.accounts = None] = Proxy("off", None)
        BY DEF Proxy
      <4> QED BY <1>3, <3>3, <4>1, <4>2, <4>3
    <3> QED BY <3>2, <3>3
  <2>3. \A auth, q : HttpForm(y, auth, q) =
          [protocol |-> "http", settings |-> Proxy(auth, q), stream |-> w.stream,
           enable |-> x.enable]
    <3> HIDE DEF y, w
    <3> QED BY <1>2, <1>5, <1>7 DEF HttpForm
  <2>4. /\ y.settings.auth = (IF on THEN "on" ELSE "off")
        /\ y.settings.accounts = (IF on THEN k ELSE None)
    <3> HIDE DEF y, on, k
    <3> QED BY <2>2 DEF Proxy
  <2>5. Written(y) = w
    <3>1. CASE x.enable
      <4>1. Written(y) = HttpForm(y, "off", None)
        <5> HIDE DEF y
        <5> QED BY <1>2, <1>7, <3>1, HttpIsWritten
      <4>2. w.settings = Proxy("off", None)
        BY <2>1, <3>1
      <4> HIDE DEF w, y
      <4> QED BY <1>1, <1>7, <2>3, <4>1, <4>2
    <3>2. CASE ~x.enable
      <4>1. Written(y) = HttpForm(y, None, IF y.settings.auth = "on"
                                             THEN y.settings.accounts ELSE None)
        <5> HIDE DEF y
        <5> QED BY <1>2, <1>7, <3>2, HttpIsWritten
      <4>2. (IF y.settings.auth = "on" THEN y.settings.accounts ELSE None) = k
        <5>1. w.settings.auth = None
          BY <2>1, <3>2
        <5> HIDE DEF y, k
        <5> QED BY <2>4, <5>1
      <4>3. w.settings = Proxy(None, k)
        BY <2>1, <3>2
      <4> HIDE DEF w, y, k
      <4> QED BY <1>1, <1>7, <2>3, <4>1, <4>2, <4>3
    <3> QED BY <3>1, <3>2
  <2>6. Accepted(y)
    <3>1. w.stream.security = "tls" => w.stream.cert # None
      <4>1. Valid(Normalize(x)) /\ Normalize(x).stream = w.stream
            /\ Normalize(x).protocol = p
        BY <1>4, BuildIsNormalize, NormalizeFields DEF Accepted
      <4> HIDE DEF w
      <4> QED BY <1>7, <4>1 DEF Valid
    <3>2. \/ Normalize(y) = HttpForm(y, "off", None)
          \/ Normalize(y) = HttpForm(y, "on", k) /\ k # None
      <4> HIDE DEF y, k
      <4> QED BY <1>2, <1>7, <2>4, NormalHttp
    <3>3. \A q : /\ Valid([protocol |-> "http", settings |-> Proxy("off", None),
                           stream |-> w.stream, enable |-> x.enable])
                 /\ q # None =>
                     Valid([protocol |-> "http", settings |-> Proxy("on", q),
                            stream |-> w.stream, enable |-> x.enable])
      <4> HIDE DEF w
      <4> QED BY <3>1 DEF Valid, Proxy, ClientProtocols
    <3>4. Valid(Normalize(y))
      <4> HIDE DEF w, y, k
      <4> QED BY <2>3, <3>2, <3>3
    <3>5. Valid(BuildState(Checked(y)))
      <4>1. BuildState(Checked(y)) = HttpForm(y, "off", None)
        <5> HIDE DEF y
        <5> QED BY <1>2, <1>7, HttpIsWritten
      <4> HIDE DEF w, y
      <4> QED BY <2>3, <3>3, <4>1
    <3>6. Normalize(Migrate(y)) = Normalize(y)
      <4> HIDE DEF y
      <4> QED BY <1>2, BuildIsNormalize
    <3> HIDE DEF y
    <3> QED BY <3>4, <3>5, <3>6 DEF Accepted
  <2>7. Or(w.settings.client, Kept(x, c)) = Kept(x, c)
    BY DEF Kept, Or
  <2> HIDE DEF w, y
  <2> QED BY <2>5, <2>6, <2>7 DEF w, y
<1> QED BY <1>6, <1>7

-----------------------------------------------------------------------------
(* The form and its requests.                                              *)

\* A form of a protocol with clients has one, and every form has a network.
Whole(f) == /\ f \in Forms
            /\ f.protocol \in ClientProtocols => f.settings.client # None
            /\ f.stream.network # None

ServerTyped ==
  /\ row \in Inbounds \cup {NoRow} /\ row.settings.client = None
  /\ row # NoRow => Networked(row)
  /\ clients \in Client \cup {None}
  /\ saves \in [1..MaxForms -> Nat]
  /\ wanted.protocol \in AllProtocols \cup {None}

FieldsTyped == /\ schema \in AllProtocols \cup {None}
               /\ schemas \subseteq AllProtocols /\ asked \subseteq AllProtocols

ModalTyped == /\ visible \in BOOLEAN /\ loading \in BOOLEAN
              /\ forms \in 0..MaxForms /\ edits \in 0..MaxEdits
              /\ Whole(form)

\* What is on its way to the server is an inbound the form could send.
TasksTyped ==
  /\ tasks \subseteq Tasks
  /\ \A t \in tasks : t.step = "sent" => t.payload \in Inbounds /\ Networked(t.payload)

\* A form has at most one callback, and none while its button can be pressed:
\* a callback that ends the loading of another form closes that form too.
OneTaskPerForm ==
  /\ \A t \in tasks : t.form <= forms
  /\ \A f \in 1..MaxForms : f > forms => saves[f] = 0
  /\ visible /\ ~loading =>
       /\ forms \in 1..MaxForms /\ saves[forms] = 0
       /\ \A t \in tasks : t.form # forms
  /\ \A t, u \in tasks : t.form = u.form => t = u
  /\ \A t \in tasks : t.step = "sent" => saves[t.form] = 0

\* The row and its clients are what a save of x over the clients c left.
IsSaved(x, c) ==
  /\ Accepted(x) /\ Networked(x)
  /\ row = Split(Written(x)) /\ clients = Kept(x, c)
  /\ wanted = [protocol |-> x.protocol, credential |-> Submitted(x)]
  /\ passed = IF x.enable THEN Factory(BuildState(Checked(x))) ELSE NoConfig

SavedByRequest == Saved => \E x \in Inbounds, c \in Client \cup {None} : IsSaved(x, c)

FormInv == /\ ServerTyped /\ FieldsTyped /\ ModalTyped /\ TasksTyped
           /\ OneTaskPerForm /\ SavedByRequest
           /\ \A f \in 1..MaxForms : saves[f] <= 1

LEMMA NewFormWhole == Whole(NewForm)
<1>1. /\ StreamFromJson(NoStream) \in Stream
      /\ StreamFromJson(NoStream).network # None
  BY BlankTyped, StreamFromJsonFields
<1>2. "vmess" \in AllProtocols /\ "vmess" \in ClientProtocols
  BY DEF AllProtocols, ClientProtocols
<1>3. /\ DefaultSettings("vmess") \in Settings
      /\ DefaultSettings("vmess").client # None
  BY <1>2, DefaultSettingsTyped
<1> QED BY <1>1, <1>2, <1>3 DEF NewForm, Whole, Forms

LEMMA OpenedFormWhole ==
  ASSUME ServerTyped, row # NoRow
  PROVE  Whole(AsForm(Opened(Attach(row, clients)), FALSE))
<1>1. Attach(row, clients) \in Inbounds
  BY AttachFields DEF ServerTyped
<1>2. PICK o \in Inbounds :
        /\ o = Opened(Attach(row, clients)) /\ o.stream.network # None
        /\ o.protocol \in ClientProtocols => o.settings.client # None
  BY <1>1, OpenedTyped, OpenedFields
<1>3. Whole(AsForm(o, FALSE))
  BY <1>2, InboundFields DEF AsForm, Whole, Forms
<1> QED BY <1>2, <1>3

LEMMA FormFields ==
  ASSUME NEW f \in Forms
  PROVE  /\ f.protocol \in AllProtocols /\ f.settings \in Settings
         /\ f.stream \in Stream /\ f.enable \in BOOLEAN /\ f.new \in BOOLEAN
BY DEF Forms

\* One field of a whole form at a time.
LEMMA WholeUpdates ==
  ASSUME NEW f, Whole(f)
  PROVE  /\ \A t \in Stream : t.network # None => Whole([f EXCEPT !.stream = t])
         /\ \A s \in Settings :
              (f.protocol \in ClientProtocols => s.client # None)
                => Whole([f EXCEPT !.settings = s])
         /\ \A b \in BOOLEAN : Whole([f EXCEPT !.enable = b])
BY DEF Whole, Forms

LEMMA EditsAreWhole ==
  ASSUME ModalTyped, FieldsTyped
  PROVE  /\ \A n \in Networks : ChangeNetwork(n) => \E f : Whole(f) /\ Edit(f)
         /\ \A s \in {"none", "tls", "reality"} :
              ChangeSecurity(s) => \E f : Whole(f) /\ Edit(f)
         /\ \A k \in Keys \cup {None} :
              EditCert(k) \/ EditPair(k) \/ EditField(k) \/ EditAccounts(k)
                => \E f : Whole(f) /\ Edit(f)
         /\ \A w \in {"vision", None} : EditFlow(w) => \E f : Whole(f) /\ Edit(f)
         /\ \A a \in {"on", "off"} : EditAuth(a) => \E f : Whole(f) /\ Edit(f)
         /\ EditEnable => \E f : Whole(f) /\ Edit(f)
<1>1. /\ Whole(form) /\ form.stream \in Stream /\ form.settings \in Settings
      /\ form.stream.network # None /\ form.enable \in BOOLEAN
      /\ form.protocol \in ClientProtocols => form.settings.client # None
  BY FormFields DEF ModalTyped, Whole
<1>2. ASSUME NEW n \in Networks, ChangeNetwork(n)
      PROVE  \E f : Whole(f) /\ Edit(f)
  <2> DEFINE t == [form.stream EXCEPT !.network = n]
  <2>1. t \in Stream /\ t.network # None
    BY <1>1, NoneAssumption DEF Stream
  <2>2. Edit([form EXCEPT !.stream = t])
    BY <1>2 DEF ChangeNetwork
  <2> HIDE DEF t
  <2> QED BY <1>1, <2>1, <2>2, WholeUpdates
<1>3. ASSUME NEW s \in {"none", "tls", "reality"}, ChangeSecurity(s)
      PROVE  \E f : Whole(f) /\ Edit(f)
  <2> DEFINE t == [form.stream EXCEPT !.security = s]
  <2>1. t \in Stream /\ t.network # None
    BY <1>1 DEF Stream
  <2>2. Edit([form EXCEPT !.stream = t])
    BY <1>3 DEF ChangeSecurity
  <2> HIDE DEF t
  <2> QED BY <1>1, <2>1, <2>2, WholeUpdates
<1>4. ASSUME NEW k \in Keys \cup {None}, EditCert(k) \/ EditPair(k)
      PROVE  \E f : Whole(f) /\ Edit(f)
  <2>1. PICK t \in Stream : t.network # None /\ Edit([form EXCEPT !.stream = t])
    <3>1. /\ [form.stream EXCEPT !.cert = k] \in Stream
          /\ [form.stream EXCEPT !.cert = k].network # None
          /\ [form.stream EXCEPT !.pair = k] \in Stream
          /\ [form.stream EXCEPT !.pair = k].network # None
      BY <1>1 DEF Stream
    <3> QED BY <1>4, <3>1 DEF EditCert, EditPair
  <2> QED BY <1>1, <2>1, WholeUpdates
<1>5. ASSUME NEW k \in Keys \cup {None}, EditField(k)
      PROVE  \E f : Whole(f) /\ Edit(f)
  <2> DEFINE s == WithField(schema, form.settings, k)
             c == Or(form.settings.client, NoClient)
  <2>1. c \in Client /\ NoClient # None
    BY <1>1, BlankTyped, SettingsFields, ClientFields DEF Or
  <2>2. /\ [c EXCEPT !.password = k] \in Client /\ [c EXCEPT !.id = k] \in Client
        /\ [c EXCEPT !.password = k] # None /\ [c EXCEPT !.id = k] # None
    <3> HIDE DEF c
    <3>1. /\ [c EXCEPT !.password = k] \in Client /\ [c EXCEPT !.id = k] \in Client
      BY <2>1 DEF Client
    <3> QED BY <3>1, NoneAssumption
  <2>3. s \in Settings /\ (form.protocol \in ClientProtocols => s.client # None)
    <3>1. \/ s = [form.settings EXCEPT !.client = [c EXCEPT !.password = k]]
          \/ s = [form.settings EXCEPT !.secret = k]
          \/ s = [form.settings EXCEPT !.client = [c EXCEPT !.id = k]]
      BY DEF WithField
    <3> HIDE DEF s, c
    <3> QED BY <1>1, <2>2, <3>1 DEF Settings
  <2>4. Edit([form EXCEPT !.settings = s])
    BY <1>5 DEF EditField
  <2> HIDE DEF s
  <2> QED BY <1>1, <2>3, <2>4, WholeUpdates
<1>6. ASSUME NEW k \in Keys \cup {None}, EditAccounts(k)
      PROVE  \E f : Whole(f) /\ Edit(f)
  <2> DEFINE s == [form.settings EXCEPT !.accounts = k]
  <2>1. s \in Settings /\ (form.protocol \in ClientProtocols => s.client # None)
    BY <1>1 DEF Settings
  <2>2. Edit([form EXCEPT !.settings = s])
    BY <1>6 DEF EditAccounts
  <2> HIDE DEF s
  <2> QED BY <1>1, <2>1, <2>2, WholeUpdates
<1>7. ASSUME NEW w \in {"vision", None}, EditFlow(w)
      PROVE  \E f : Whole(f) /\ Edit(f)
  <2> DEFINE c == [form.settings.client EXCEPT !.flow = w]
             s == [form.settings EXCEPT !.client = c]
  <2>1. form.settings.client \in Client
    <3>1. form.protocol \in ClientProtocols
      BY <1>7 DEF EditFlow, CanEnableVision, ClientProtocols
    <3> QED BY <1>1, <3>1, SettingsFields
  <2>2. c \in Client
    BY <2>1 DEF Client
  <2>3. s \in Settings /\ s.client # None
    <3>1. c # None
      BY <2>2, NoneAssumption
    <3> HIDE DEF c
    <3> QED BY <1>1, <2>2, <3>1 DEF Settings
  <2>4. Edit([form EXCEPT !.settings = s])
    BY <1>7 DEF EditFlow
  <2> HIDE DEF s
  <2> QED BY <1>1, <2>3, <2>4, WholeUpdates
<1>8. ASSUME NEW a \in {"on", "off"}, EditAuth(a)
      PROVE  \E f : Whole(f) /\ Edit(f)
  <2> DEFINE s == [form.settings EXCEPT !.auth = a]
  <2>1. s \in Settings /\ (form.protocol \in ClientProtocols => s.client # None)
    BY <1>1 DEF Settings
  <2>2. Edit([form EXCEPT !.settings = s])
    BY <1>8 DEF EditAuth
  <2> HIDE DEF s
  <2> QED BY <1>1, <2>1, <2>2, WholeUpdates
<1>9. ASSUME EditEnable
      PROVE  \E f : Whole(f) /\ Edit(f)
  <2>1. \E b \in BOOLEAN : Edit([form EXCEPT !.enable = b])
    BY <1>9 DEF EditEnable
  <2> QED BY <1>1, <2>1, WholeUpdates
<1> QED BY <1>2, <1>3, <1>4, <1>5, <1>6, <1>7, <1>8, <1>9

\* Every step, the edits put together.
LEMMA NextCases ==
  ASSUME ServerTyped, FieldsTyped, ModalTyped, [Next]_vars
  PROVE  \/ \E f : Whole(f) /\ (Show(f) \/ Edit(f))
         \/ \E p \in AllProtocols : ChangeProtocol(p) \/ SchemaAnswer(p) \/ SchemaFails(p)
         \/ Cancel \/ Ok
         \/ \E t \in tasks : \/ ServerSaves(t) \/ ServerRefuses(t) \/ Succeeds(t)
                             \/ Fails(t) \/ Closes(t)
         \/ SwitchEnable \/ DelInbound \/ UNCHANGED vars
<1>1. OpenAdd => \E f : Whole(f) /\ Show(f)
  BY NewFormWhole DEF OpenAdd
<1>2. OpenEdit => \E f : Whole(f) /\ Show(f)
  BY OpenedFormWhole DEF OpenEdit
<1>3. ASSUME \/ EditEnable
             \/ \E n \in Networks : ChangeNetwork(n)
             \/ \E s \in {"none", "tls", "reality"} : ChangeSecurity(s)
             \/ \E k \in Keys \cup {None} :
                  EditCert(k) \/ EditPair(k) \/ EditField(k) \/ EditAccounts(k)
             \/ \E w \in {"vision", None} : EditFlow(w)
             \/ \E a \in {"on", "off"} : EditAuth(a)
      PROVE  \E f : Whole(f) /\ Edit(f)
  BY <1>3, EditsAreWhole
<1> QED BY <1>1, <1>2, <1>3 DEF Next

LEMMA NextFieldsTyped ==
  ASSUME ServerTyped, FieldsTyped, ModalTyped, [Next]_vars
  PROVE  FieldsTyped'
<1>1. ASSUME NEW p \in AllProtocols, LoadProtocolSchema(p)
      PROVE  FieldsTyped'
  BY <1>1 DEF LoadProtocolSchema, FieldsTyped
<1>2. ASSUME NEW f, Whole(f), Show(f) \/ Edit(f)
      PROVE  FieldsTyped'
  <2>1. f.protocol \in AllProtocols
    BY <1>2 DEF Whole, Forms
  <2>2. LoadProtocolSchema(f.protocol) \/ UNCHANGED fields
    BY <1>2 DEF Show, Edit
  <2> QED BY <1>1, <2>1, <2>2 DEF fields, FieldsTyped
<1>3. ASSUME NEW p \in AllProtocols, ChangeProtocol(p) \/ SchemaAnswer(p) \/ SchemaFails(p)
      PROVE  FieldsTyped'
  <2>1. CASE ChangeProtocol(p)
    BY <1>1, <2>1 DEF ChangeProtocol
  <2>2. CASE SchemaAnswer(p) \/ SchemaFails(p)
    BY <2>2 DEF SchemaAnswer, SchemaFails, FieldsTyped
  <2> QED BY <1>3, <2>1, <2>2
<1>4. CASE Cancel \/ Ok \/ SwitchEnable \/ DelInbound \/ UNCHANGED vars
  BY <1>4 DEF Cancel, Ok, SwitchEnable, DelInbound, vars, fields, FieldsTyped
<1>5. ASSUME NEW t \in tasks, \/ ServerSaves(t) \/ ServerRefuses(t) \/ Succeeds(t)
                              \/ Fails(t) \/ Closes(t)
      PROVE  FieldsTyped'
  BY <1>5 DEF ServerSaves, ServerRefuses, Succeeds, Fails, Closes, fields, FieldsTyped
<1> QED BY <1>2, <1>3, <1>4, <1>5, NextCases

LEMMA NextModalTyped ==
  ASSUME ServerTyped, FieldsTyped, ModalTyped, [Next]_vars
  PROVE  ModalTyped'
<1>1. ASSUME NEW f, Whole(f), Show(f)
      PROVE  ModalTyped'
  BY <1>1, FormAssumption DEF Show, ModalTyped, Whole
<1>2. ASSUME NEW f, Whole(f), Edit(f)
      PROVE  ModalTyped'
  BY <1>2, FormAssumption DEF Edit, ModalTyped, Whole
<1>3. ASSUME NEW p \in AllProtocols, ChangeProtocol(p)
      PROVE  ModalTyped'
  <2> DEFINE s == DefaultSettings(p)
             g == [form EXCEPT !.protocol = p]
  <2>1. s \in Settings /\ (p \in ClientProtocols => s.client # None)
    BY DefaultSettingsTyped
  <2>2. form' = [form EXCEPT !.protocol = p, !.settings = s]
    BY <1>3 DEF ChangeProtocol
  <2> HIDE DEF s
  <2>3. [form EXCEPT !.protocol = p, !.settings = s] = [g EXCEPT !.settings = s]
    OBVIOUS
  <2>4. /\ g \in Forms /\ g.protocol = p /\ g.stream.network # None
    BY DEF ModalTyped, Whole, Forms
  <2>5. Whole([g EXCEPT !.settings = s])
    <3> HIDE DEF g
    <3> QED BY <2>1, <2>4 DEF Whole, Forms
  <2>6. form' = [g EXCEPT !.settings = s]
    BY <2>2, <2>3, Zenon
  <2>7. Whole(form')
    BY <2>5, <2>6, Zenon
  <2>8. /\ visible' \in BOOLEAN /\ loading' \in BOOLEAN
        /\ forms' \in 0..MaxForms /\ edits' \in 0..MaxEdits
    BY <1>3, FormAssumption DEF ChangeProtocol, ModalTyped
  <2> QED BY <2>7, <2>8 DEF ModalTyped, Whole
<1>4. ASSUME NEW p \in AllProtocols, SchemaAnswer(p) \/ SchemaFails(p)
      PROVE  ModalTyped'
  BY <1>4 DEF SchemaAnswer, SchemaFails, modal, ModalTyped, Whole
<1>5. CASE Cancel \/ Ok \/ SwitchEnable \/ DelInbound \/ UNCHANGED vars
  BY <1>5 DEF Cancel, Ok, SwitchEnable, DelInbound, vars, modal, ModalTyped, Whole
<1>6. ASSUME NEW t \in tasks, \/ ServerSaves(t) \/ ServerRefuses(t) \/ Succeeds(t)
                              \/ Fails(t) \/ Closes(t)
      PROVE  ModalTyped'
  BY <1>6 DEF ServerSaves, ServerRefuses, Succeeds, Fails, Closes, modal, ModalTyped, Whole
<1> QED BY <1>1, <1>2, <1>3, <1>4, <1>5, <1>6, NextCases

LEMMA FormPayload ==
  ASSUME ModalTyped
  PROVE  Payload(AsInbound(form)) \in Inbounds /\ Networked(Payload(AsInbound(form)))
<1>1. AsInbound(form) \in Inbounds /\ AsInbound(form).stream.network # None
  BY FormFields DEF ModalTyped, Whole, AsInbound, Inbounds
<1> QED BY <1>1, PayloadFields

\* A callback that moves on is the same one, without its payload.
LEMMA AdvancedTask ==
  ASSUME NEW t \in Tasks, NEW step \in Steps
  PROVE  LET u == [t EXCEPT !.step = step, !.payload = NoRow]
         IN  u \in Tasks /\ u.form = t.form /\ u.step = step
BY DEF Tasks

LEMMA NextTasksTyped ==
  ASSUME ServerTyped, FieldsTyped, ModalTyped, TasksTyped, OneTaskPerForm, [Next]_vars
  PROVE  TasksTyped'
<1>1. ASSUME NEW f, Show(f) \/ Edit(f)
      PROVE  TasksTyped'
  BY <1>1 DEF Show, Edit, TasksTyped
<1>2. ASSUME NEW p, ChangeProtocol(p) \/ SchemaAnswer(p) \/ SchemaFails(p)
      PROVE  TasksTyped'
  BY <1>2 DEF ChangeProtocol, SchemaAnswer, SchemaFails, TasksTyped
<1>3. CASE Cancel \/ SwitchEnable \/ DelInbound \/ UNCHANGED vars
  BY <1>3 DEF Cancel, SwitchEnable, DelInbound, vars, TasksTyped
<1>4. CASE Ok
  <2> DEFINE x == Payload(AsInbound(form))
             u == [form |-> forms, new |-> form.new, step |-> "sent", payload |-> x]
  <2>1. x \in Inbounds /\ Networked(x)
    BY FormPayload
  <2>2. tasks' = tasks \cup {u} /\ forms \in 1..MaxForms
    BY <1>4 DEF Ok, OneTaskPerForm
  <2>3. form.new \in BOOLEAN
    BY FormFields DEF ModalTyped, Whole
  <2> HIDE DEF x
  <2>4. u \in Tasks /\ u.payload = x
    BY <2>1, <2>2, <2>3 DEF Tasks, Steps
  <2> HIDE DEF u
  <2> QED BY <2>1, <2>2, <2>4 DEF TasksTyped
<1>5. ASSUME NEW t \in tasks, NEW step \in {"saved", "refused", "closing"}, Advance(t, step)
      PROVE  TasksTyped'
  <2> DEFINE u == [t EXCEPT !.step = step, !.payload = NoRow]
  <2>1. tasks' = (tasks \ {t}) \cup {u}
    BY <1>5 DEF Advance
  <2>2. t \in Tasks /\ step \in Steps /\ step # "sent"
    BY DEF TasksTyped, Steps
  <2>3. u \in Tasks /\ u.step # "sent"
    <3>1. u \in Tasks /\ u.step = step
      BY <2>2, AdvancedTask
    <3> HIDE DEF u
    <3> QED BY <2>2, <3>1
  <2> HIDE DEF u
  <2> QED BY <2>1, <2>3 DEF TasksTyped
<1>6. ASSUME NEW t \in tasks, \/ ServerSaves(t) \/ ServerRefuses(t) \/ Succeeds(t)
                              \/ Fails(t) \/ Closes(t)
      PROVE  TasksTyped'
  <2>1. CASE Fails(t) \/ Closes(t)
    BY <2>1 DEF Fails, Closes, TasksTyped
  <2>2. CASE ServerSaves(t) \/ ServerRefuses(t) \/ Succeeds(t)
    BY <1>5, <2>2 DEF ServerSaves, ServerRefuses, Succeeds
  <2> QED BY <1>6, <2>1, <2>2
<1> QED BY <1>1, <1>2, <1>3, <1>4, <1>6, NextCases

-----------------------------------------------------------------------------
(* One save per form.                                                      *)

\* A callback that moves on, or ends, leaves one callback per form.
LEMMA AdvanceKeepsOneTask ==
  ASSUME TasksTyped, OneTaskPerForm, NEW t \in tasks,
         NEW step \in {"saved", "refused", "closing"},
         Advance(t, step) \/ tasks' = tasks \ {t}
  PROVE  /\ \A a \in tasks' : a.form <= forms
         /\ \A a \in tasks' : \E b \in tasks : a.form = b.form
         /\ \A a, b \in tasks' : a.form = b.form => a = b
         /\ \A a \in tasks' : a.step = "sent" => a \in tasks \ {t}
<1> DEFINE u == [t EXCEPT !.step = step, !.payload = NoRow]
<1>1. u.form = t.form /\ u.step # "sent"
  <2>1. t \in Tasks /\ step \in Steps /\ step # "sent"
    BY DEF TasksTyped, Steps
  <2>2. u.form = t.form /\ u.step = step
    BY <2>1, AdvancedTask
  <2> HIDE DEF u
  <2> QED BY <2>1, <2>2
<1>2. tasks' = (tasks \ {t}) \cup {u} \/ tasks' = tasks \ {t}
  BY DEF Advance
<1> HIDE DEF u
<1>3. \A a \in tasks' : a \in tasks \ {t} \/ a = u
  BY <1>2
<1>4. /\ \A a \in tasks : a.form <= forms
      /\ \A a, b \in tasks : a.form = b.form => a = b
  BY DEF OneTaskPerForm
<1> QED BY <1>1, <1>3, <1>4

LEMMA NextOneTask ==
  ASSUME ServerTyped, FieldsTyped, ModalTyped, TasksTyped, OneTaskPerForm, [Next]_vars,
         \A f \in 1..MaxForms : saves[f] <= 1
  PROVE  OneTaskPerForm' /\ \A f \in 1..MaxForms : saves'[f] <= 1
<1>0. /\ forms \in 0..MaxForms /\ forms \in Nat /\ MaxForms \in Nat
      /\ saves \in [1..MaxForms -> Nat]
      /\ \A t \in tasks : t \in Tasks /\ t.form \in 1..MaxForms
  BY FormAssumption DEF ModalTyped, ServerTyped, TasksTyped, Tasks
<1>1. ASSUME NEW f, Show(f)
      PROVE  OneTaskPerForm' /\ UNCHANGED saves
  <2>1. /\ UNCHANGED <<saves, tasks, loading>> /\ forms' = forms + 1
        /\ forms' \in 1..MaxForms
    BY <1>0, <1>1 DEF Show, server
  <2> QED BY <1>0, <2>1 DEF OneTaskPerForm
<1>2. ASSUME \/ \E f : Edit(f)
             \/ \E p : ChangeProtocol(p) \/ SchemaAnswer(p) \/ SchemaFails(p)
             \/ SwitchEnable \/ DelInbound \/ UNCHANGED vars
      PROVE  OneTaskPerForm' /\ UNCHANGED saves
  <2>1. UNCHANGED <<visible, loading, forms, tasks, saves>>
    BY <1>2 DEF Edit, ChangeProtocol, SchemaAnswer, SchemaFails, SwitchEnable, DelInbound,
                vars, server, modal
  <2> QED BY <2>1 DEF OneTaskPerForm
<1>3. ASSUME Cancel
      PROVE  OneTaskPerForm' /\ UNCHANGED saves
  BY <1>3 DEF Cancel, server, OneTaskPerForm
<1>4. ASSUME Ok
      PROVE  OneTaskPerForm' /\ UNCHANGED saves
  <2> DEFINE u == [form |-> forms, new |-> form.new, step |-> "sent",
                   payload |-> Payload(AsInbound(form))]
  <2>1. /\ tasks' = tasks \cup {u} /\ u.form = forms
        /\ UNCHANGED <<saves, forms>> /\ loading' = TRUE
    BY <1>4 DEF Ok, server
  <2>2. saves[forms] = 0 /\ \A t \in tasks : t.form # forms
    BY <1>4 DEF Ok, OneTaskPerForm
  <2> HIDE DEF u
  <2> QED BY <1>0, <2>1, <2>2 DEF OneTaskPerForm
<1>5. ASSUME NEW t \in tasks, ServerSaves(t)
      PROVE  OneTaskPerForm' /\ \A f \in 1..MaxForms : saves'[f] <= 1
  <2>1. /\ t.step = "sent" /\ saves' = [saves EXCEPT ![t.form] = @ + 1]
        /\ Advance(t, "saved") /\ UNCHANGED <<visible, loading, forms>>
    BY <1>5 DEF ServerSaves, modal
  <2>2. saves[t.form] = 0 /\ t.form <= forms /\ (visible /\ ~loading => t.form # forms)
    BY <2>1 DEF OneTaskPerForm
  <2>3. /\ saves'[t.form] = 1
        /\ \A f \in 1..MaxForms : f # t.form => saves'[f] = saves[f]
    BY <1>0, <2>1, <2>2
  <2>4. /\ \A a \in tasks' : a.form <= forms
        /\ \A a \in tasks' : \E b \in tasks : a.form = b.form
        /\ \A a, b \in tasks' : a.form = b.form => a = b
        /\ \A a \in tasks' : a.step = "sent" => a \in tasks \ {t}
    BY <2>1, AdvanceKeepsOneTask
  <2>5. \A a \in tasks' : a.step = "sent" => saves'[a.form] = 0
    BY <1>0, <2>3, <2>4 DEF OneTaskPerForm
  <2>6. \A f \in 1..MaxForms : f > forms => saves'[f] = 0
    BY <1>0, <2>2, <2>3 DEF OneTaskPerForm
  <2>7. visible /\ ~loading =>
          /\ forms \in 1..MaxForms /\ saves'[forms] = 0
          /\ \A a \in tasks' : a.form # forms
    BY <1>0, <2>2, <2>3, <2>4 DEF OneTaskPerForm
  <2> QED BY <1>0, <2>1, <2>3, <2>4, <2>5, <2>6, <2>7 DEF OneTaskPerForm
<1>6. ASSUME NEW t \in tasks, ServerRefuses(t) \/ Succeeds(t) \/ Fails(t) \/ Closes(t)
      PROVE  OneTaskPerForm' /\ UNCHANGED saves
  <2>1. /\ UNCHANGED <<forms, saves>>
        /\ UNCHANGED <<visible, loading>> \/ visible' = FALSE
    BY <1>6 DEF ServerRefuses, Succeeds, Fails, Closes, modal, server
  <2>2. \E step \in {"saved", "refused", "closing"} :
          Advance(t, step) \/ tasks' = tasks \ {t}
    BY <1>6 DEF ServerRefuses, Succeeds, Fails, Closes
  <2>3. /\ \A a \in tasks' : a.form <= forms
        /\ \A a \in tasks' : \E b \in tasks : a.form = b.form
        /\ \A a, b \in tasks' : a.form = b.form => a = b
        /\ \A a \in tasks' : a.step = "sent" => a \in tasks \ {t}
    BY <2>2, AdvanceKeepsOneTask
  <2> QED BY <2>1, <2>3 DEF OneTaskPerForm
<1> QED BY <1>1, <1>2, <1>3, <1>4, <1>5, <1>6, NextCases

-----------------------------------------------------------------------------
(* The stored row.                                                         *)

LEMMA StoreLeaves ==
  ASSUME ServerTyped, NEW x \in Inbounds, Accepted(x), Networked(x), Store(x)
  PROVE  /\ row' \in Inbounds /\ row'.settings.client = None /\ Networked(row')
         /\ clients' \in Client \cup {None}
         /\ wanted'.protocol \in AllProtocols
         /\ SavedByRequest'
<1> DEFINE w == Written(x)
<1>1. /\ row' = Split(w) /\ clients' = Kept(x, clients)
      /\ wanted' = [protocol |-> x.protocol, credential |-> Submitted(x)]
      /\ passed' = IF x.enable THEN Factory(BuildState(Checked(x))) ELSE NoConfig
  BY DEF Store, Kept
<1>2. /\ row' \in Inbounds /\ row'.settings.client = None
      /\ row'.protocol = x.protocol /\ row'.stream = w.stream
  BY <1>1, WrittenFields, SplitFields
<1>3. Networked(row')
  <2>1. SUFFICES ASSUME x.protocol \in ClientProtocols
                 PROVE  row'.stream.network # None
    BY <1>2 DEF Networked
  <2>2. w.stream = NormalStream(x.protocol, x.stream)
    BY <2>1, WrittenIsNormal, NormalizeFields DEF ClientProtocols
  <2> QED BY <1>2, <2>1, <2>2, InboundFields, NormalStreamFields DEF Networked
<1>4. PICK c \in Client \cup {None} : c = clients
  BY DEF ServerTyped
<1>5. clients' = Kept(x, c) /\ clients' \in Client \cup {None}
  BY <1>1, <1>4, KeptTyped
<1>6. IsSaved(x, c)'
  BY <1>1, <1>5 DEF IsSaved
<1>7. SavedByRequest'
  BY <1>6 DEF SavedByRequest
<1>8. wanted'.protocol \in AllProtocols
  BY <1>1, InboundFields
<1> QED BY <1>2, <1>3, <1>5, <1>7, <1>8

LEMMA SwitchedInbound ==
  ASSUME ServerTyped, row # NoRow
  PROVE  LET x == [Attach(row, clients) EXCEPT !.enable = ~row.enable]
         IN  x \in Inbounds /\ Networked(x)
<1>1. /\ row \in Inbounds /\ Networked(row) /\ clients \in Client \cup {None}
  BY DEF ServerTyped
<1>2. /\ Attach(row, clients) \in Inbounds
      /\ Attach(row, clients).protocol = row.protocol
      /\ Attach(row, clients).stream = row.stream
  BY <1>1, AttachFields
<1>3. (~row.enable) \in BOOLEAN
  OBVIOUS
<1> QED BY <1>1, <1>2, <1>3 DEF Inbounds, Networked

LEMMA NextServerTyped ==
  ASSUME ServerTyped, FieldsTyped, ModalTyped, TasksTyped, SavedByRequest, [Next]_vars
  PROVE  ServerTyped' /\ SavedByRequest'
<1>1. ASSUME UNCHANGED server
      PROVE  ServerTyped' /\ SavedByRequest'
  BY <1>1 DEF server, ServerTyped, SavedByRequest, Saved, IsSaved
<1>2. ASSUME NEW x \in Inbounds, Accepted(x), Networked(x), Store(x),
             saves' \in [1..MaxForms -> Nat]
      PROVE  ServerTyped' /\ SavedByRequest'
  BY <1>2, StoreLeaves DEF ServerTyped
<1>3. CASE \/ \E f : Show(f) \/ Edit(f)
           \/ \E p : ChangeProtocol(p) \/ SchemaAnswer(p) \/ SchemaFails(p)
           \/ Cancel \/ Ok \/ UNCHANGED vars
  <2>1. UNCHANGED server
    BY <1>3 DEF Show, Edit, ChangeProtocol, SchemaAnswer, SchemaFails, Cancel, Ok, vars, server
  <2> QED BY <1>1, <2>1
<1>4. ASSUME NEW t \in tasks, ServerSaves(t)
      PROVE  ServerTyped' /\ SavedByRequest'
  <2>1. /\ t.payload \in Inbounds /\ Networked(t.payload) /\ Accepted(t.payload)
    BY <1>4 DEF ServerSaves, TasksTyped
  <2>2. saves' \in [1..MaxForms -> Nat]
    <3>1. t.form \in 1..MaxForms
      BY DEF TasksTyped, Tasks
    <3> QED BY <1>4, <3>1 DEF ServerSaves, ServerTyped
  <2>3. CASE UNCHANGED <<row, clients, wanted, passed>>
    BY <2>2, <2>3 DEF ServerTyped, SavedByRequest, Saved, IsSaved
  <2>4. CASE Store(t.payload)
    BY <1>2, <2>1, <2>2, <2>4
  <2> QED BY <1>4, <2>3, <2>4 DEF ServerSaves
<1>5. ASSUME NEW t \in tasks, ServerRefuses(t) \/ Succeeds(t) \/ Fails(t) \/ Closes(t)
      PROVE  ServerTyped' /\ SavedByRequest'
  <2>1. UNCHANGED server
    BY <1>5 DEF ServerRefuses, Succeeds, Fails, Closes
  <2> QED BY <1>1, <2>1
<1>6. CASE SwitchEnable
  <2>1. PICK x : /\ x = [Attach(row, clients) EXCEPT !.enable = ~row.enable]
                 /\ row # NoRow /\ Accepted(x) /\ Store(x) /\ UNCHANGED saves
    BY <1>6 DEF SwitchEnable
  <2>2. x \in Inbounds /\ Networked(x)
    BY <2>1, SwitchedInbound
  <2>3. saves' \in [1..MaxForms -> Nat]
    BY <2>1 DEF ServerTyped
  <2> QED BY <1>2, <2>1, <2>2, <2>3
<1>7. CASE DelInbound
  BY <1>7 DEF DelInbound, ServerTyped, SavedByRequest, Saved, NoRow, NoWanted, Blank
<1> QED BY <1>3, <1>4, <1>5, <1>6, <1>7, NextCases

LEMMA InitFormInv == Init => FormInv
<1> SUFFICES ASSUME Init
             PROVE  FormInv
  OBVIOUS
<1>1. ServerTyped
  <2>1. [NoClient EXCEPT !.id = DefaultKey] \in Client
    BY KeysAssumption DEF NoClient, Client
  <2>2. clients \in Client \cup {None}
    BY <2>1 DEF Init
  <2>3. /\ row \in Inbounds \cup {NoRow} /\ row.settings.client = None
        /\ row # NoRow => Networked(row)
    BY FormAssumption DEF Init, NoRow, Blank
  <2>4. saves \in [1..MaxForms -> Nat] /\ wanted.protocol \in AllProtocols \cup {None}
    BY DEF Init, NoWanted
  <2> QED BY <2>2, <2>3, <2>4 DEF ServerTyped
<1>2. FieldsTyped /\ TasksTyped
  BY DEF Init, FieldsTyped, TasksTyped
<1>3. ModalTyped
  <2>1. form = NewForm /\ visible = FALSE /\ loading = FALSE /\ forms = 0 /\ edits = 0
    BY Zenon DEF Init
  <2>2. Whole(form)
    BY <2>1, NewFormWhole, Zenon
  <2>3. forms \in 0..MaxForms /\ edits \in 0..MaxEdits
    BY <2>1, FormAssumption
  <2> QED BY <2>1, <2>2, <2>3, Zenon DEF ModalTyped
<1>4. OneTaskPerForm /\ \A f \in 1..MaxForms : saves[f] <= 1
  BY DEF Init, OneTaskPerForm
<1>5. SavedByRequest
  BY DEF Init, SavedByRequest, Saved
<1> QED BY <1>1, <1>2, <1>3, <1>4, <1>5 DEF FormInv

LEMMA NextFormInv == FormInv /\ [Next]_vars => FormInv'
BY NextServerTyped, NextFieldsTyped, NextModalTyped, NextTasksTyped, NextOneTask DEF FormInv

LEMMA FormInvariance == Spec => []FormInv
BY InitFormInv, NextFormInv, PTL DEF Spec

(* Types, of a form opened, edited and sent in any order with its answers: *)
(* the row never holds clients, and what is sent is an inbound.            *)
THEOREM InboundFormTypeOK == Spec => []TypeOK
<1>1. FormInv => TypeOK
  BY DEF FormInv, ServerTyped, FieldsTyped, ModalTyped, TasksTyped, Whole, TypeOK
<1> QED BY <1>1, FormInvariance, PTL

(* A form is saved at most once, however its request, the answers of other *)
(* forms and the clicks on OK interleave.                                  *)
THEOREM FormsSaveOnce == Spec => []OneSavePerForm
<1>1. FormInv => OneSavePerForm
  BY DEF FormInv, OneSavePerForm
<1> QED BY <1>1, FormInvariance, PTL

(* Opening a stored row and confirming it untouched changes nothing.       *)
THEOREM ReopeningIsNoOp == Spec => []ReopenIsNoOp
<1>1. FormInv => ReopenIsNoOp
  <2> SUFFICES ASSUME FormInv, Saved
               PROVE  LET y == Payload(Opened(Attach(row, clients)))
                      IN  Accepted(y) /\ Split(Written(y)) = row
                            /\ Or(Written(y).settings.client, clients) = clients
    BY DEF ReopenIsNoOp
  <2>1. PICK x \in Inbounds, c \in Client \cup {None} : IsSaved(x, c)
    BY DEF FormInv, SavedByRequest
  <2>2. /\ Payload(Opened(Attach(row, clients))) = Resent(x, c)
        /\ row = Split(Written(x)) /\ clients = Kept(x, c)
        /\ Accepted(x) /\ Networked(x)
    BY <2>1 DEF IsSaved, Resent
  <2> QED BY <2>2, ResentIsSame
<1> QED BY <1>1, FormInvariance, PTL

LEMMA RunsAsWritten ==
  ASSUME FormInv, Saved
  PROVE  \E x \in Inbounds, c \in Client \cup {None} :
           /\ IsSaved(x, c) /\ row.protocol = x.protocol /\ row.enable = x.enable
           /\ Running(row, clients) = IF x.enable THEN Factory(Written(x)) ELSE NoConfig
<1>1. PICK x \in Inbounds, c \in Client \cup {None} : IsSaved(x, c)
  BY DEF FormInv, SavedByRequest
<1>2. row = Split(Written(x)) /\ clients = Kept(x, c) /\ Accepted(x)
  BY <1>1 DEF IsSaved
<1>3. row.protocol = x.protocol /\ row.enable = x.enable
  BY <1>2, WrittenFields, SplitFields
<1> QED BY <1>1, <1>2, <1>3, StoredRuns

(* What a later build makes of the row is what was validated on saving it. *)
THEOREM RowsRunAsChecked == Spec => []RunsWhatWasChecked
<1>1. FormInv => RunsWhatWasChecked
  BY RunsAsWritten, StoredBuild DEF RunsWhatWasChecked, IsSaved
<1> QED BY <1>1, FormInvariance, PTL

(* Xray asks for the credential that was submitted, of every protocol but  *)
(* HTTP.                                                                   *)
THEOREM SubmittedCredentialsRun == Spec => []CredentialsSurvive
<1>1. FormInv => CredentialsSurvive
  <2> SUFFICES ASSUME FormInv, Saved, row.enable, wanted.protocol # "http"
               PROVE  /\ Running(row, clients).protocol = wanted.protocol
                      /\ wanted.credential = AsksFor(Running(row, clients))
    BY DEF CredentialsSurvive, AsksFor
  <2>1. PICK x \in Inbounds, c \in Client \cup {None} :
          /\ IsSaved(x, c) /\ row.enable = x.enable
          /\ Running(row, clients) = IF x.enable THEN Factory(Written(x)) ELSE NoConfig
    BY RunsAsWritten
  <2>2. /\ wanted.protocol = x.protocol /\ wanted.credential = Submitted(x)
        /\ Accepted(x)
    BY <2>1 DEF IsSaved
  <2>3. Running(row, clients) = Factory(Written(x))
    BY <2>1
  <2>4. Factory(Written(x)).protocol = x.protocol
    BY WrittenFields, FactoryFields
  <2>5. AsksFor(Factory(Written(x))) = Submitted(x)
    BY <2>2, CredentialRuns
  <2> QED BY <2>2, <2>3, <2>4, <2>5
<1> QED BY <1>1, FormInvariance, PTL

(* The share link reaches what runs.                                       *)
THEOREM LinksReachWhatRuns == Spec => []LinkReaches
<1>1. FormInv => LinkReaches
  <2>1. SUFFICES ASSUME FormInv, Saved, row.enable, HasLink(row.protocol)
                 PROVE  LET l == Link(Opened(Attach(row, clients)))
                            k == Running(row, clients)
                        IN  /\ l.credential = Credential(k.protocol, k.settings)
                            /\ l.network = Or(k.stream.network, "tcp")
                            /\ l.security = Or(k.stream.security, "none")
                            /\ l.pair = k.stream.pair
                            /\ l.security # "none" /\ k.settings.client # None
                                 => l.flow = k.settings.client.flow
    BY DEF LinkReaches
  <2>2. PICK x \in Inbounds, c \in Client \cup {None} :
          /\ IsSaved(x, c) /\ row.protocol = x.protocol /\ row.enable = x.enable
          /\ Running(row, clients) = IF x.enable THEN Factory(Written(x)) ELSE NoConfig
    BY <2>1, RunsAsWritten
  <2>3. /\ Running(row, clients) = Factory(Written(x))
        /\ Attach(row, clients) = Attach(Split(Written(x)), Kept(x, c))
        /\ Accepted(x) /\ HasLink(x.protocol)
    BY <2>1, <2>2 DEF IsSaved
  <2> QED BY <2>3, LinkIsOfRunning
<1> QED BY <1>1, FormInvariance, PTL
=============================================================================
