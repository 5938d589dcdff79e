----------------------------- MODULE ProxyAddon -----------------------------
(***************************************************************************)
(* The addon of the proxy, src/hermes_katana/proxy/addon.py and injector.py: *)
(* requests, responses and WebSocket messages of several flows pass the    *)
(* gates, get a credential from the vault and are scanned, while other     *)
(* processes replace the credential.  mitmproxy runs one hook at a time.   *)
(*                                                                         *)
(* What a scanner says is an input: a part of a message is "clean", an     *)
(* "attack", something on which the scanner "fails", or a credential, which   *)
(* the scanner finds if it is among the values it knows.                    *)
(***************************************************************************)
EXTENDS RateTracker, SequencesExt

CONSTANTS
  Slots,        \* flows under way
  Configs,      \* the configurations to check
  Requests,     \* the requests, responses and WebSocket messages that occur
  Responses,
  Frames,
  Secrets       \* the credentials that replace one another in the vault

ASSUME AddonAssumption == {"clean", "attack", "fails", "none"} \intersect Secrets = {}

\* A part of a message as the scanners see it.
Part == {"clean", "attack", "fails"} \union Secrets

\* The parts that are scanned one by one, the client's own credential header if
\* it has one, and the body: none, whole, only begun within the limit, streamed.
Messages == [head : Seq(Part), own : Part \union {"none"}, body : Part,
             shape : {"none", "whole", "oversized", "streamed"}]

ASSUME MessageAssumption ==
  /\ Requests \union Responses \union Frames \subseteq Messages
  /\ \A m \in Requests : m.head # <<>>

VARIABLES
  settings,     \* mode, inject_credentials, tls_verify, allowed_domains, private
  secret,       \* the credential in the vault
  flow,         \* the flow in each slot
  last          \* history: what the last step delivered and under which circumstances

addonVars == <<rateVars, settings, secret, flow, last>>

Hosts == {"provider", "plain", "private", "ignored"}

NoFlow == [phase |-> "none", host |-> "plain", injected |-> "none", refused |-> FALSE]

Nothing == [slipped |-> {}, hook |-> "none", but |-> {}]

AddonInit ==
  /\ RateInit
  /\ settings \in Configs /\ secret \in Secrets
  /\ flow = [s \in Slots |-> NoFlow]
  /\ last = Nothing

FailClosed == settings.mode # "permissive"

\* _fail_request_scan() and _fail_response_scan()
AllowedUnscanned == ~FailClosed

-----------------------------------------------------------------------------
(* Scanning *)

\* What a scan that knows some secret values says of a part.
Outcome(part, known) ==
  CASE part \in {"clean", "attack", "fails"} -> part
    [] OTHER -> IF part \in known THEN "attack" ELSE "clean"

\* The parts in the order of their scans.  A body that is streamed is not
\* scanned, of an oversized one only the beginning.
Scanned(m) == IF m.shape \in {"whole", "oversized"} THEN Append(m.head, m.body) ELSE m.head

\* The first scan that finds something or fails decides: after a failure the
\* rest is not scanned.  Then comes what cannot be scanned.
Passes(m, known) ==
  LET found == [i \in 1..Len(Scanned(m)) |-> Outcome(Scanned(m)[i], known)]
      i     == SelectInSeq(found, LAMBDA o : o # "clean")
  IN IF i # 0 THEN found[i] = "fails" /\ AllowedUnscanned
     ELSE ~FailClosed \/ m.shape \in {"none", "whole"}

Values_VaultOnly(extra, readable) == IF readable THEN {secret} ELSE {}   \* mutant: without extra values

\* _collect_scan_vault_values(): a vault that cannot be read is passed over.
Values(extra, readable) == (extra \ {"none"}) \union (IF readable THEN {secret} ELSE {})

\* Records the delivery of a message: what is wrong with it, and what hindered
\* the scan or made it void.
Deliver(s, m, hook, readable, why) ==
  LET parts    == ToSet(Append(m.head, IF m.shape = "none" THEN "clean" ELSE m.body))
      injected == flow'[s].injected
  IN last' =
      [slipped |-> (parts \intersect {"attack", "fails"})
                     \union (IF m.shape \in {"oversized", "streamed"} THEN {"unscanned"} ELSE {})
                     \union (IF secret \in parts THEN {"secret"} ELSE {})
                     \union (IF injected \in parts THEN {"injected"} ELSE {}),
       hook |-> hook,
       but |-> why \union (IF readable THEN {} ELSE {"unreadable"})
                   \union (IF injected \in {"none", secret} THEN {} ELSE {"replaced"})]

\* The flow ends: the proxy answers the request itself, or a side closes.
End(s) == flow' = [flow EXCEPT ![s] = NoFlow] /\ last' = Nothing

Move(s, phase) == flow' = [flow EXCEPT ![s].phase = phase] /\ last' = Nothing

Ignored(host) == IF host = "ignored" THEN {"ignored"} ELSE {}

-----------------------------------------------------------------------------
(* Requests *)

\* requestheaders(): a request that announces too large a body gets its answer
\* now; mitmproxy may still call request().
RequestHeaders(s) ==
  /\ flow[s].phase = "none"
  /\ \E refused \in BOOLEAN :
       flow' = [flow EXCEPT ![s] = [NoFlow EXCEPT !.phase = "announced", !.refused = refused]]
  /\ last' = Nothing
  /\ UNCHANGED <<rateVars, settings, secret>>

\* The private-destination gate and the allowlist.
Permitted(host) ==
  /\ host = "private" => settings.private \/ host \in settings.allowed
  /\ settings.allowed = {} \/ host \in settings.allowed

\* The credential that the injector adds: none if the vault does not have it or does not
\* answer, and none if the client has filled the same header.
Injectable(host) == {"none"} \union (IF settings.inject /\ host = "provider" THEN {secret} ELSE {})

Presented_ByName(m) == m   \* mutant: credential headers are never scanned

\* The request's scans: the client's own credential header is among its headers,
\* the injected one is left out.
Presented(m) == IF m.own = "none" THEN m ELSE [m EXCEPT !.head = InsertAt(m.head, 2, m.own)]

Forward(s, host, m, readable, injected) ==
  /\ flow' = [flow EXCEPT ![s] = [@ EXCEPT !.phase = "upstream", !.host = host, !.injected = injected]]
  /\ Deliver(s, IF m.own = "none" THEN m ELSE [m EXCEPT !.head = Append(m.head, m.own)],
             "request", readable, Ignored(host))

\* request() after the rate limit: injection and scans.
Vet(s, host, m) ==
  \/ settings.inject /\ ~settings.tlsVerify /\ End(s)
  \/ /\ ~settings.inject \/ settings.tlsVerify
     /\ \E readable \in BOOLEAN, injected \in Injectable(host) :
          IF Passes(Presented(m), Values({injected}, readable)) /\ ~flow[s].refused
          THEN Forward(s, host, m, readable, injected)
          ELSE End(s)

Request(s) ==
  /\ flow[s].phase = "announced"
  /\ \E host \in Hosts, m \in Requests :
       \/ /\ host = "ignored"
          /\ IF flow[s].refused THEN End(s) ELSE Forward(s, host, m, TRUE, "none")
          /\ UNCHANGED rateVars
       \/ host # "ignored" /\ ~Permitted(host) /\ End(s) /\ UNCHANGED rateVars
       \/ /\ host # "ignored" /\ Permitted(host)
          /\ \E c \in Clients : (Deny(c) /\ End(s)) \/ (Grant(c) /\ Vet(s, host, m))
  /\ UNCHANGED <<settings, secret>>

-----------------------------------------------------------------------------
(* Responses and WebSocket messages *)

\* A blocked response is the server's own with another status and a notice for
\* its body: the headers stay, whether they are what it was blocked for or have
\* not been scanned.
Block(s, m, readable) ==
  /\ flow' = [flow EXCEPT ![s].phase = "delivered"]
  /\ Deliver(s, [m EXCEPT !.shape = "none"], "response", readable, {"blocked"})

\* responseheaders(): a notice takes the place of too large a body, unless mitmproxy
\* puts the body in again and response() sees it.
ResponseHeaders(s) ==
  /\ flow[s].phase = "upstream"
  /\ Move(s, "answered") \/ \E m \in Responses : Block(s, m, TRUE)
  /\ UNCHANGED <<rateVars, settings, secret>>

\* response(); a flow may go on as a WebSocket.
Response(s) ==
  /\ flow[s].phase = "answered"
  /\ \E m \in Responses, readable \in BOOLEAN :
       IF flow[s].host = "ignored" \/ Passes(m, Values({}, readable))
       THEN /\ \E phase \in {"delivered", "open"} : flow' = [flow EXCEPT ![s].phase = phase]
            /\ Deliver(s, m, "response", readable, Ignored(flow[s].host))
       ELSE Block(s, m, readable)
  /\ UNCHANGED <<rateVars, settings, secret>>

\* websocket_message(), which also scans the messages of ignored hosts; a
\* message that does not pass is replaced.
WebSocketMessage(s) ==
  /\ flow[s].phase = "open"
  /\ \E m \in Frames, readable \in BOOLEAN :
       /\ UNCHANGED flow
       /\ IF Passes(m, Values({}, readable))
          THEN Deliver(s, m, "message", readable, {})
          ELSE last' = Nothing
  /\ UNCHANGED <<rateVars, settings, secret>>

Close(s) == flow[s].phase # "none" /\ End(s) /\ UNCHANGED <<rateVars, settings, secret>>

-----------------------------------------------------------------------------
(* The world around *)

\* Another process stores a new credential.
Replace ==
  /\ secret' \in Secrets \ {secret}
  /\ last' = Nothing
  /\ UNCHANGED <<rateVars, settings, flow>>

Wait == Tick /\ last' = Nothing /\ UNCHANGED <<settings, secret, flow>>

AddonNext ==
  \/ \E s \in Slots : \/ RequestHeaders(s) \/ Request(s) \/ ResponseHeaders(s) \/ Response(s)
                      \/ WebSocketMessage(s) \/ Close(s)
  \/ Replace \/ Wait

AddonSpec == AddonInit /\ [][AddonNext]_addonVars

-----------------------------------------------------------------------------
(* Properties *)

\* What may have kept the scans from a part: an ignored host, or permissive
\* mode, and then only behind a part that could not be scanned.
Unseen == \/ "ignored" \in last.but
          \/ ~FailClosed /\ last.slipped \intersect {"fails", "unscanned"} # {}

\* Nothing that the scanners would object to is delivered in either direction,
\* whatever precedes it in the message and whatever other flows do, except for
\* the headers of a blocked response.
NothingUnvetted ==
  last.slipped \intersect {"attack", "fails", "unscanned"} # {} =>
    Unseen \/ ("blocked" \in last.but /\ "unscanned" \notin last.slipped)

\* The vault's credential leaves only in the header that the injector adds, and
\* what the injector added does not come back to the agent, unless it is among the headers of a
\* blocked response, the vault could not be read or it holds another credential by the time of the
\* response.
CredentialContained ==
  /\ "secret" \in last.slipped => Unseen \/ last.but \intersect {"unreadable", "blocked"} # {}
  /\ "injected" \in last.slipped =>
       \/ Unseen
       \/ last.hook # "request" /\ last.but \intersect {"unreadable", "replaced", "blocked"} # {}

=============================================================================
