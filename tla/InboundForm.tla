----------------------------- MODULE InboundForm -----------------------------
(***************************************************************************)
(* The page that edits one inbound: the modal form and its asynchronous    *)
(* calls (web/html/xui/inbound_modal.html, inbounds.html, HttpUtil), and   *)
(* the request that saves the form through the codec of InboundCodec.      *)
(*                                                                         *)
(* The browser is single-threaded: an action is what runs between two      *)
(* awaits.  Answers of different requests arrive in any order, each may    *)
(* fail, and a failed answer may hide a save that was done.  Races between *)
(* requests on the server are InboundStore's subject; here one inbound is  *)
(* followed and its save is one step.                                      *)
(***************************************************************************)
EXTENDS InboundCodec, Naturals, FiniteSets

CONSTANTS Protocols,   \* the protocols the form offers
          FormNetworks,\* the networks the form offers
          Legacy,      \* the rows an older release may have left
          MaxForms,    \* bound: forms opened
          MaxEdits     \* bound: changes made in one form

\* StreamSettings.toJson always writes a network.
Networked(x) == x.protocol \in ClientProtocols => x.stream.network # None

ASSUME FormAssumption ==
  /\ Protocols \subseteq AllProtocols
  /\ FormNetworks \subseteq {"tcp", "ws", "xhttp", "grpc"}
  /\ Legacy \subseteq {x \in Inbounds : x.settings.client = None /\ Networked(x)}
  /\ MaxForms \in Nat /\ MaxEdits \in Nat

VARIABLES
  row,       \* the stored inbound, its clients apart, or NoRow
  clients,   \* its row in inbound_clients, or None
  visible,   \* inModal.visible
  loading,   \* inModal.confirmLoading: the OK button ignores clicks
  forms,     \* how many forms were opened: the number of the current one
  edits,     \* counts the changes of the current form, for the bound
  form,      \* inModal.inbound and what of inModal.dbInbound is sent
  schema,    \* inModal.protocolSchema: the protocol it describes, or None
  schemas,   \* inModal.protocolSchemas: the protocols cached
  asked,     \* the schema requests without an answer
  tasks,     \* the confirm callbacks under way
  saves,     \* history: forms whose request was saved, with repetition counted
  wanted,    \* history: the protocol and credential last saved
  passed     \* history: the configuration the last save validated

server == <<row, clients, saves, wanted, passed>>
fields == <<schema, schemas, asked>>
modal  == <<visible, loading, forms, edits, form>>
vars   == <<row, clients, visible, loading, forms, edits, form, schema, schemas, asked,
            tasks, saves, wanted, passed>>

NoRow    == [protocol |-> None, settings |-> Blank, stream |-> NoStream, enable |-> FALSE]
NoWanted == [protocol |-> None, credential |-> None]
Steps    == {"sent", "saved", "refused", "closing"}
Tasks    == [form : 1..MaxForms, new : BOOLEAN, payload : Inbounds \cup {NoRow}, step : Steps]

\* new Inbound(): a VMess inbound with a fresh client.
NewForm == [protocol |-> "vmess", settings |-> DefaultSettings("vmess"),
            stream |-> StreamFromJson(NoStream), enable |-> TRUE, new |-> TRUE]
AsForm(x, new) == [protocol |-> x.protocol, settings |-> x.settings,
                   stream |-> x.stream, enable |-> x.enable, new |-> new]
AsInbound(f) == [protocol |-> f.protocol, settings |-> f.settings,
                 stream |-> f.stream, enable |-> f.enable]

Init ==
  /\ row \in {NoRow} \cup Legacy
  /\ clients = IF row = NoRow THEN None
               ELSE [NoClient EXCEPT !.id = DefaultKey]
  /\ visible = FALSE /\ loading = FALSE /\ forms = 0 /\ edits = 0 /\ form = NewForm
  /\ schema = None /\ schemas = {} /\ asked = {} /\ tasks = {}
  /\ saves = [f \in 1..MaxForms |-> 0] /\ wanted = NoWanted /\ passed = NoConfig

-----------------------------------------------------------------------------
(* The schema of the protocol, which draws the fields.                     *)

\* loadProtocolSchema up to its request.
LoadProtocolSchema(p) ==
  IF p \in schemas THEN schema' = p /\ UNCHANGED <<schemas, asked>>
  ELSE asked' = asked \cup {p} /\ UNCHANGED <<schema, schemas>>

\* Its answer: nobody asks whether the form still has that protocol.
SchemaAnswer(p) ==
  /\ p \in asked
  /\ asked' = asked \ {p} /\ schemas' = schemas \cup {p} /\ schema' = p
  /\ UNCHANGED <<server, modal, tasks>>

SchemaFails(p) ==
  /\ p \in asked
  /\ asked' = asked \ {p} /\ schema' = None
  /\ UNCHANGED <<server, modal, tasks, schemas>>

-----------------------------------------------------------------------------
(* The modal.                                                              *)

Show(f) ==
  /\ ~visible /\ forms < MaxForms
  /\ forms' = forms + 1 /\ edits' = 0 /\ visible' = TRUE /\ form' = f
  /\ LoadProtocolSchema(f.protocol)
  /\ UNCHANGED <<server, loading, tasks>>

OpenAdd  == row = NoRow /\ Show(NewForm)
OpenEdit == row # NoRow /\ Show(AsForm(Opened(Attach(row, clients)), FALSE))

Cancel == /\ visible
          /\ visible' = FALSE
          /\ UNCHANGED <<server, fields, loading, forms, edits, form, tasks>>

\* The setter of Inbound.protocol gives fresh settings and keeps the stream;
\* the watcher loads the schema.
ChangeProtocol(p) ==
  /\ visible /\ p \in Protocols \ {form.protocol}
  /\ edits < MaxEdits /\ edits' = edits + 1
  /\ form' = [form EXCEPT !.protocol = p, !.settings = DefaultSettings(p)]
  /\ LoadProtocolSchema(p)
  /\ UNCHANGED <<server, visible, loading, forms, tasks>>

\* What is typed while the button is loading is left out: the answer closes
\* the form, and the next one starts afresh, so nothing of it is ever sent.
Edit(f) == /\ visible /\ ~loading
           /\ edits < MaxEdits /\ edits' = edits + 1
           /\ form' = f
           /\ UNCHANGED <<server, fields, visible, loading, forms, tasks>>

\* streamSettings: the network and the security layer, each with its selector.
ChangeNetwork(n) ==
  /\ CanEnableStream(form.protocol) /\ n \in FormNetworks \ {form.stream.network}
  /\ Edit([form EXCEPT !.stream = [form.stream EXCEPT !.network = n]])

CanEnableTls(p, t) == /\ CanEnableStream(p) \/ p = "http"
                      /\ t.network \in {"tcp", "ws", "xhttp", "grpc"}
ChangeSecurity(s) ==
  /\ CanEnableTls(form.protocol, form.stream)
  /\ s # form.stream.security
  /\ s = "reality" => CanEnableReality(form.protocol, form.stream)
  /\ Edit([form EXCEPT !.stream = [form.stream EXCEPT !.security = s]])

EditCert(k) ==
  /\ form.stream.security = "tls"
  /\ Edit([form EXCEPT !.stream = [form.stream EXCEPT !.cert = k]])
EditPair(k) ==
  /\ form.stream.security = "reality"
  /\ Edit([form EXCEPT !.stream = [form.stream EXCEPT !.pair = k]])

\* protocolField: the schema shown, whichever it is, names what is written.
SchemaProtocols == ClientProtocols \cup {"shadowsocks", "mixed"}
WithField(p, s, k) ==
  LET c == Or(s.client, NoClient) IN
  CASE p = "trojan"      -> [s EXCEPT !.client = [c EXCEPT !.password = k]]
    [] p = "shadowsocks" -> [s EXCEPT !.secret = k]
    [] OTHER             -> [s EXCEPT !.client = [c EXCEPT !.id = k]]
EditField(k) ==
  /\ form.protocol \in SchemaProtocols
  /\ schema \in ClientProtocols \cup {"shadowsocks"}
  /\ Edit([form EXCEPT !.settings = WithField(schema, form.settings, k)])
EditFlow(w) ==
  /\ schema = "vless" /\ CanEnableVision(form.protocol, form.stream)
  /\ Edit([form EXCEPT !.settings =
             [form.settings EXCEPT !.client = [form.settings.client EXCEPT !.flow = w]]])

EditAuth(a) ==
  /\ form.protocol \in ProxyProtocols
  /\ Edit([form EXCEPT !.settings = [form.settings EXCEPT !.auth = a]])
EditAccounts(k) ==
  /\ form.protocol \in ProxyProtocols /\ form.settings.auth = "on"
  /\ Edit([form EXCEPT !.settings = [form.settings EXCEPT !.accounts = k]])
EditEnable == Edit([form EXCEPT !.enable = ~form.enable])

-----------------------------------------------------------------------------
(* Saving.                                                                 *)

\* Mutant of Ok: the button is not disabled while the request is out.
BugNotLoading ==
  /\ visible /\ ~loading
  /\ SubmitAllowed(form.protocol, form.settings, form.stream)
  /\ tasks' = tasks \cup {[form |-> forms, new |-> form.new, step |-> "sent",
                           payload |-> Payload(AsInbound(form))]}
  /\ UNCHANGED <<server, fields, visible, loading, forms, edits, form>>

\* ok, the confirm callback and postWithModal up to the request.
Ok ==
  /\ visible /\ ~loading
  /\ SubmitAllowed(form.protocol, form.settings, form.stream)
  /\ loading' = TRUE
  /\ tasks' = tasks \cup {[form |-> forms, new |-> form.new, step |-> "sent",
                           payload |-> Payload(AsInbound(form))]}
  /\ UNCHANGED <<server, fields, visible, forms, edits, form>>

\* The payload has done its work once the server has answered.
Advance(t, step) ==
  tasks' = (tasks \ {t}) \cup {[t EXCEPT !.step = step, !.payload = NoRow]}

\* The credential x asks for as the server reads it: a Shadowsocks inbound
\* without a password takes the one of a client left in it, and a SOCKS inbound
\* that does not say asks for none (normalizeShadowsocks, normalizeSocks).
Submitted(x) ==
  LET s == x.settings IN
  CASE x.protocol = "shadowsocks" -> Or(s.secret, Or(s.client, NoClient).password)
    [] x.protocol = "socks" /\ s.auth = None -> None
    [] OTHER -> Credential(x.protocol, s)

\* Mutant of Store: the old client rows are not replaced.
BugKeepsClients(x) ==
  LET w == Written(x) IN
  /\ row' = Split(w)
  /\ clients' = Or(clients, w.settings.client)
  /\ wanted' = [protocol |-> x.protocol, credential |-> Submitted(x)]
  /\ passed' = IF x.enable THEN Factory(BuildState(Checked(x))) ELSE NoConfig

\* The row and the clients after a save of x that is accepted.
Store(x) ==
  LET w == Written(x) IN
  /\ row' = Split(w)
  /\ clients' = Or(w.settings.client, clients)
  /\ wanted' = [protocol |-> x.protocol, credential |-> Submitted(x)]
  /\ passed' = IF x.enable THEN Factory(BuildState(Checked(x))) ELSE NoConfig

\* addInbound or updateInbound on the server.  An added inbound beside the one
\* followed here is another row.
ServerSaves(t) ==
  /\ t \in tasks /\ t.step = "sent" /\ Accepted(t.payload)
  /\ t.new \/ row # NoRow
  /\ saves' = [saves EXCEPT ![t.form] = @ + 1]
  /\ IF t.new /\ row # NoRow THEN UNCHANGED <<row, clients, wanted, passed>>
     ELSE Store(t.payload)
  /\ Advance(t, "saved")
  /\ UNCHANGED <<modal, fields>>

\* The server may also refuse for reasons the form does not know: the port is
\* taken, the row is gone, Xray's own parser objects.
ServerRefuses(t) ==
  /\ t \in tasks /\ t.step = "sent"
  /\ Advance(t, "refused")
  /\ UNCHANGED <<server, modal, fields>>

\* postWithModal after its await: a success closes the modal; submit then waits
\* for the list and the port guard's status.
Succeeds(t) ==
  /\ t \in tasks /\ t.step = "saved"
  /\ loading' = FALSE /\ visible' = FALSE
  /\ Advance(t, "closing")
  /\ UNCHANGED <<server, fields, forms, edits, form>>

\* A failure leaves the modal to the callback, whose inModal.close() follows at
\* once.  A save whose answer is lost fails too.
Fails(t) ==
  /\ t \in tasks /\ t.step \in {"saved", "refused"}
  /\ loading' = FALSE /\ visible' = FALSE
  /\ tasks' = tasks \ {t}
  /\ UNCHANGED <<server, fields, forms, edits, form>>

\* The callback's inModal.close() after those waits, whichever form is open by
\* then.
Closes(t) ==
  /\ t \in tasks /\ t.step = "closing"
  /\ visible' = FALSE /\ loading' = FALSE
  /\ tasks' = tasks \ {t}
  /\ UNCHANGED <<server, fields, forms, edits, form>>

-----------------------------------------------------------------------------
(* The other buttons of the list.                                          *)

\* switchEnable sends the listed row itself, not a form.
SwitchEnable ==
  LET x == [Attach(row, clients) EXCEPT !.enable = ~row.enable] IN
  /\ row # NoRow /\ ~visible /\ Accepted(x)
  /\ Store(x)
  /\ UNCHANGED <<modal, fields, tasks, saves>>

DelInbound ==
  /\ row # NoRow /\ ~visible
  /\ row' = NoRow /\ clients' = None /\ wanted' = NoWanted /\ passed' = NoConfig
  /\ UNCHANGED <<modal, fields, tasks, saves>>

Next ==
  \/ OpenAdd \/ OpenEdit \/ Cancel \/ Ok \/ EditEnable
  \/ \E p \in AllProtocols : ChangeProtocol(p) \/ SchemaAnswer(p) \/ SchemaFails(p)
  \/ \E n \in Networks : ChangeNetwork(n)
  \/ \E s \in {"none", "tls", "reality"} : ChangeSecurity(s)
  \/ \E k \in Keys \cup {None} : EditCert(k) \/ EditPair(k) \/ EditField(k) \/ EditAccounts(k)
  \/ \E w \in {"vision", None} : EditFlow(w)
  \/ \E a \in {"on", "off"} : EditAuth(a)
  \/ \E t \in tasks : \/ ServerSaves(t) \/ ServerRefuses(t) \/ Succeeds(t)
                      \/ Fails(t) \/ Closes(t)
  \/ SwitchEnable \/ DelInbound

Spec == Init /\ [][Next]_vars

-----------------------------------------------------------------------------
(* Properties.                                                             *)

Forms == [protocol : AllProtocols, settings : Settings, stream : Stream,
          enable : BOOLEAN, new : BOOLEAN]

\* Every variable keeps its type, and the row never holds clients.
TypeOK ==
  /\ row \in Inbounds \cup {NoRow} /\ row.settings.client = None
  /\ clients \in Client \cup {None}
  /\ visible \in BOOLEAN /\ loading \in BOOLEAN
  /\ forms \in 0..MaxForms /\ edits \in 0..MaxEdits
  /\ form \in Forms
  /\ schema \in AllProtocols \cup {None}
  /\ schemas \subseteq AllProtocols /\ asked \subseteq AllProtocols
  /\ tasks \subseteq Tasks
  /\ saves \in [1..MaxForms -> Nat]
  /\ wanted.protocol \in AllProtocols \cup {None}

Saved == wanted # NoWanted

\* One form is saved at most once, however often OK is clicked and however
\* late the answers of earlier forms come: a form whose request is out is
\* either closed or its button is loading (postWithModal, close).
OneSavePerForm == \A f \in 1..MaxForms : saves[f] <= 1

\* Opening a row the panel saved and confirming it untouched changes nothing:
\* fromJson, toJson, normalize and the split of the clients undo one another,
\* left-over clients of an earlier protocol included.
ReopenIsNoOp ==
  Saved => LET x == Payload(Opened(Attach(row, clients)))
           IN  Accepted(x) /\ Split(Written(x)) = row
                 /\ Or(Written(x).settings.client, clients) = clients

\* What every later build makes of the row is the configuration that was
\* validated before the row was written (validateInboundRuntime).
RunsWhatWasChecked == Saved => Running(row, clients) = passed

\* The credential submitted is the one Xray asks for, HTTP proxies apart, even
\* if the form was filled in under the schema of another protocol.
CredentialsSurvive ==
  Saved /\ row.enable /\ wanted.protocol # "http" =>
    LET c == Running(row, clients)
    IN  /\ c.protocol = wanted.protocol
        /\ wanted.credential = CASE c.protocol \in {"vmess", "vless"} -> c.settings.client.id
                                 [] c.protocol = "trojan" -> c.settings.client.password
                                 [] c.protocol = "shadowsocks" -> c.settings.secret
                                 [] c.protocol \in ProxyProtocols -> c.settings.accounts
                                 [] OTHER -> None

\* The same for an HTTP proxy: one saved with password authentication asks for
\* the password (the form's switch, web/html/xui/form/protocol/http.html).
PasswordSurvives ==
  Saved /\ row.enable /\ wanted.protocol = "http" =>
    Running(row, clients).settings.accounts = wanted.credential

\* The share link made from the list reaches what runs: same credential,
\* network, security layer and key pair, and the flow wherever there is a
\* security layer to carry it (genLink and the factory read the same row).
LinkReaches ==
  Saved /\ row.enable /\ HasLink(row.protocol) =>
    LET l == Link(Opened(Attach(row, clients)))
        c == Running(row, clients)
    IN  /\ l.credential = Credential(c.protocol, c.settings)
        /\ l.network = Or(c.stream.network, "tcp")
        /\ l.security = Or(c.stream.security, "none")
        /\ l.pair = c.stream.pair
        /\ l.security # "none" /\ c.settings.client # None
             => l.flow = c.settings.client.flow
=============================================================================
