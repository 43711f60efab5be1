------------------------------ MODULE TapProxy ------------------------------
(***************************************************************************)
(* The proxy of one session (tap/proxy.rs): the agent's connections, its   *)
(* exchanges with model providers, and the records of them that go to the  *)
(* desktop over the channel all sessions of the host share.                *)
(*                                                                         *)
(* A body is counted in frames; the content of a translated one is the     *)
(* matter of TranslateRequest, TranslateResponse and SseTranslate.  The    *)
(* agent (client) and the providers (upstream) are external: either may    *)
(* leave at any time.  Headers, logs and durations are left out, and so is *)
(* that a record also says whether the request was longer than the cap.    *)
(***************************************************************************)
EXTENDS Naturals, Sequences, FiniteSets

CONSTANTS
    Conn,           \* connections of the agent to the proxy
    Exchange,       \* requests it makes on them
    Host,           \* hosts it calls, or a provider or a gateway is at
    Target,         \* the hosts the agent calls
    PrivateHost,    \* the hosts is_loopback_or_private recognises
    CopilotHost,    \* "api.githubcopilot.com"
    Model,          \* models a request may name
    Token,          \* keys of providers and gateways
    None,           \* no model, host, token, kind, gateway or proxy
    Envs,           \* the environments sessions are spawned with
    Cap,            \* BODY_CAP, in frames
    MaxFrames       \* bound: frames of a response

Kinds == {"anthropic", "openai", "deepseek", "openrouter", "copilot"}
Provider == [kind : Kinds, models : SUBSET Model, key : Token \cup {None},
             host : Host \cup {None}]

ASSUME TapAssumption ==
    /\ None \notin Host \cup Model \cup Token /\ Target \cup PrivateHost \subseteq Host /\ CopilotHost \in Host
    /\ Envs \subseteq [tap : BOOLEAN, providers : Seq(Provider), gateway : Host \cup {None},
                       token : Token \cup {None}, corporate : Host \cup {None}]
    /\ Cap \in Nat /\ MaxFrames \in Nat /\ IsFiniteSet(Exchange)

VARIABLES
    env,        \* the environment of the spawn
    proxy,      \* "off", "on", and "dropped" when the handle is
    conn,       \* connection -> [at, target]
    exchange,   \* exchange -> its record
    seq,        \* ProxyState.seq
    traffic     \* HttpTraffic messages sent on transport_tx

vars == <<env, proxy, conn, exchange, seq, traffic>>

NoRoute == [host |-> None, token |-> None, kind |-> None, via |-> None]
NoExchange ==
    [at |-> "none", conn |-> None, body |-> "none", model |-> None, route |-> NoRoute,
     sent |-> "none", mode |-> "none", given |-> 0, captured |-> 0, truncated |-> FALSE,
     ctx |-> FALSE, number |-> 0, next |-> "none"]

Waiting == {"reading", "connecting", "tunnelled", "sending", "collecting"}
Places == Waiting \cup {"none", "body", "ended", "emitting", "replying", "over"}
Modes == {"none", "tee", "stream", "whole"}

RouteType == [host : Host \cup {None}, token : Token \cup {None}, kind : Kinds \cup {None},
              via : Host \cup {None}]
ConnType == [at : {"none", "tunnel", "serving", "closed"}, target : Target \cup {None}]
ExchangeType ==
    [at : Places, conn : Conn \cup {None}, body : {"none", "messages", "other"},
     model : Model \cup {None}, route : RouteType, sent : {"none", "openai", "original"},
     mode : Modes, given : 0..MaxFrames, captured : 0..Cap, truncated : BOOLEAN,
     ctx : BOOLEAN, number : Nat, next : {"none", "ended", "replying", "over"}]
RecordType == [exchange : Exchange, seq : Nat, host : Host \cup {None}, body : 0..Cap, truncated : BOOLEAN]

\* The types of the variables; nothing is captured past the cap.
TypeOK ==
    /\ env \in Envs /\ proxy \in {"off", "on", "dropped"}
    /\ conn \in [Conn -> ConnType]
    /\ exchange \in [Exchange -> ExchangeType]
    /\ seq \in Nat
    /\ traffic \in Seq(RecordType)

Init ==
    /\ env \in Envs
    /\ proxy = "off"
    /\ conn = [c \in Conn |-> [at |-> "none", target |-> None]]
    /\ exchange = [x \in Exchange |-> NoExchange]
    /\ seq = 0
    /\ traffic = <<>>

-----------------------------------------------------------------------------
(* Configuration and routing *)

\* TapConfig::take_from_env and handle_spawn: what makes a session need a proxy.
NeedProxy == env.tap \/ env.token # None \/ env.gateway # None \/ env.providers # <<>>

\* The first provider that lists the model; the first of all when none does, or
\* the request names none.
Chosen(model) ==
    LET lists == {k \in DOMAIN env.providers : model \in env.providers[k].models}
    IN  env.providers[IF lists = {} THEN 1 ELSE CHOOSE k \in lists : \A j \in lists : k <= j]

\* Variant: copilot is called at its base URL like the others.
HostOfBaseUrl(p, target) == IF p.host # None THEN p.host ELSE target

\* A base URL without a scheme names no host: the one the agent called stays.
HostOf(p, target) ==
    CASE p.kind = "copilot" -> CopilotHost
      [] p.kind # "copilot" /\ p.host # None -> p.host
      [] OTHER -> target

\* The corporate proxy of the environment, unless the host is a private one.
Via(host) == IF host \in PrivateHost THEN None ELSE env.corporate

\* Providers come before the gateway, the gateway before a token of its own.
Route(model, target) ==
    CASE env.providers # <<>> ->
            LET p == Chosen(model) IN
            [host |-> HostOf(p, target), token |-> p.key, kind |-> p.kind,
             via |-> Via(HostOf(p, target))]
      [] env.providers = <<>> /\ env.gateway # None ->
            [host |-> env.gateway, token |-> env.token, kind |-> None, via |-> Via(env.gateway)]
      [] OTHER -> [host |-> target, token |-> env.token, kind |-> None, via |-> Via(target)]

NeedsTranslate(kind) == kind \in Kinds \ {"deepseek", "openrouter", "copilot"}

\* translate_request: what cannot be parsed, or has no messages, is sent as it is.
Forwarded(kind, body) ==
    IF NeedsTranslate(kind) /\ body = "messages" THEN "openai" ELSE "original"

-----------------------------------------------------------------------------
(* The proxy and its connections *)

\* start_session_proxy; when the CA or the port cannot be had, the session is
\* spawned without a proxy.
StartProxy ==
    /\ NeedProxy /\ proxy = "off"
    /\ proxy' = "on"
    /\ UNCHANGED <<env, conn, exchange, seq, traffic>>

\* CloseSession drops the handle: the accept loop ends, its connections do not.
DropHandle ==
    /\ proxy = "on"
    /\ proxy' = "dropped"
    /\ UNCHANGED <<env, conn, exchange, seq, traffic>>

\* handle_conn reads CONNECT, and answers it before anything else is known.
Accept(c, target) ==
    /\ proxy = "on"
    /\ conn[c].at = "none"
    /\ conn' = [conn EXCEPT ![c] = [at |-> "tunnel", target |-> target]]
    /\ UNCHANGED <<env, proxy, exchange, seq, traffic>>

\* The agent completes TLS with the minted leaf, and serve_http takes over.
TlsAccept(c) ==
    /\ conn[c].at = "tunnel"
    /\ conn' = [conn EXCEPT ![c].at = "serving"]
    /\ UNCHANGED <<env, proxy, exchange, seq, traffic>>

\* TLS fails, or the agent leaves; what it had asked for finds out later.
Close(c) ==
    /\ conn[c].at \in {"tunnel", "serving"}
    /\ conn' = [conn EXCEPT ![c].at = "closed"]
    /\ UNCHANGED <<env, proxy, exchange, seq, traffic>>

-----------------------------------------------------------------------------
(* forward *)

Move(x, new) ==
    /\ exchange' = [exchange EXCEPT ![x] = new]
    /\ UNCHANGED <<env, proxy, conn>>

Quiet == UNCHANGED <<seq, traffic>>

\* A connection serves one request at a time.
Free(c) == \A x \in Exchange : exchange[x].conn = c => exchange[x].at \in {"none", "over"}

\* A body that cannot be parsed is as one without messages, and names no model.
Request(x, c, body, model) ==
    /\ exchange[x].at = "none"
    /\ conn[c].at = "serving" /\ Free(c)
    /\ Move(x, [NoExchange EXCEPT !.at = "reading", !.conn = c, !.body = body, !.model = model])
    /\ Quiet

RouteOf(x) == Route(exchange[x].model, conn[exchange[x].conn].target)

\* The body is buffered, and the upstream determined.
RouteRequest(x) ==
    /\ exchange[x].at = "reading"
    /\ Move(x, [exchange[x] EXCEPT !.at = "connecting",
                                   !.route = RouteOf(x)])
    /\ Quiet

\* tunnel_via_proxy: the corporate proxy answers CONNECT with 200.
Tunnel(x) ==
    /\ exchange[x].at = "connecting" /\ exchange[x].route.via # None
    /\ Move(x, [exchange[x] EXCEPT !.at = "tunnelled"])
    /\ Quiet

\* TCP where there is no tunnel, then TLS and the HTTP handshake; the request is
\* translated only now.
Connect(x) ==
    /\ exchange[x].at = IF exchange[x].route.via = None THEN "connecting" ELSE "tunnelled"
    /\ Move(x, [exchange[x] EXCEPT !.at = "sending",
                                   !.sent = Forwarded(exchange[x].route.kind, exchange[x].body)])
    /\ Quiet

\* error_response(502): no record is made of the exchange.
Refuse(x) ==
    /\ exchange[x].at \in Waiting
    /\ Move(x, [exchange[x] EXCEPT !.at = "replying"])
    /\ Quiet

ModeOf(x, streaming) ==
    CASE ~NeedsTranslate(exchange[x].route.kind) -> "tee"
      [] NeedsTranslate(exchange[x].route.kind) /\ streaming -> "stream"
      [] OTHER -> "whole"

\* The upstream's headers are in. Two of the three bodies carry the context of
\* the record to be made.
Answer(x, streaming) ==
    /\ exchange[x].at = "sending"
    /\ LET mode == ModeOf(x, streaming) IN
       Move(x, [exchange[x] EXCEPT !.at = IF mode = "whole" THEN "collecting" ELSE "body",
                                   !.mode = mode, !.ctx = mode # "whole"])
    /\ Quiet

Lesser(m, n) == IF m < n THEN m ELSE n

\* Variant: a body that fills the buffer to the last byte counts as truncated.
PassFrameFull(x) ==
    /\ exchange[x].at = "body"
    /\ exchange[x].given < MaxFrames
    /\ LET given == exchange[x].given + 1 IN
       Move(x, [exchange[x] EXCEPT !.given = given,
                                   !.captured = Lesser(given, Cap),
                                   !.truncated = given >= Cap])
    /\ Quiet

\* Variant: a frame is captured whole as long as there is any room.
PassFrameWhole(x) ==
    /\ exchange[x].at = "body"
    /\ exchange[x].given < MaxFrames
    /\ LET given == exchange[x].given + 1 IN
       Move(x, [exchange[x] EXCEPT !.given = given,
                                   !.captured = Lesser(given, Cap + 1),
                                   !.truncated = given > Cap])
    /\ Quiet

\* A frame passes to the agent, and is captured as far as there is room.
PassFrame(x) ==
    /\ exchange[x].at = "body"
    /\ exchange[x].given < MaxFrames
    /\ LET given == exchange[x].given + 1 IN
       Move(x, [exchange[x] EXCEPT !.given = given,
                                   !.captured = Lesser(given, Cap),
                                   !.truncated = given > Cap])
    /\ Quiet

\* emit: fetch_add on seq; the send comes later. No other task of the connection
\* runs in between, and those of other connections may.
TakeNumber(x, e, next) ==
    /\ Move(x, [e EXCEPT !.at = "emitting", !.ctx = FALSE, !.number = seq, !.next = next])
    /\ seq' = seq + 1
    /\ UNCHANGED traffic

\* The end of the upstream's body: TeeBody emits, StreamingTranslateBody waits
\* for its drop.
EndBody(x) ==
    /\ exchange[x].at = "body"
    /\ IF exchange[x].mode = "tee" THEN TakeNumber(x, exchange[x], "ended")
       ELSE Move(x, [exchange[x] EXCEPT !.at = "ended"]) /\ Quiet

\* The upstream breaks off: the error passes to hyper, which gives up the body.
BreakBody(x) ==
    /\ exchange[x].at = "body"
    /\ Move(x, [exchange[x] EXCEPT !.at = "ended"])
    /\ Quiet

Closed(x) == conn[exchange[x].conn].at = "closed"

\* Variant: emit does not take the context.
DropBodyAgain(x) ==
    /\ exchange[x].at = "ended" \/ (exchange[x].at = "body" /\ Closed(x))
    /\ TakeNumber(x, exchange[x], "over")

\* Drop, after the end or because the agent has left: emits unless emitted.
DropBody(x) ==
    /\ exchange[x].at = "ended" \/ (exchange[x].at = "body" /\ Closed(x))
    /\ IF exchange[x].ctx THEN TakeNumber(x, exchange[x], "over")
       ELSE Move(x, [exchange[x] EXCEPT !.at = "over"]) /\ Quiet

\* A whole answer is collected and translated, and reported before the agent
\* gets any of it.
Collect(x, frames) ==
    /\ exchange[x].at = "collecting"
    /\ TakeNumber(x, [exchange[x] EXCEPT !.given = frames, !.captured = Lesser(frames, Cap),
                                         !.truncated = frames > Cap], "replying")

Record(x) ==
    [exchange |-> x, seq |-> exchange[x].number, host |-> exchange[x].route.host,
     body |-> exchange[x].captured, truncated |-> exchange[x].truncated]

Report(x) ==
    /\ exchange[x].at = "emitting"
    /\ traffic' = Append(traffic, Record(x))
    /\ Move(x, [exchange[x] EXCEPT !.at = exchange[x].next, !.number = 0, !.next = "none"])
    /\ UNCHANGED seq

\* The reply of one piece is written, or nobody is there to read it.
Reply(x) ==
    /\ exchange[x].at = "replying"
    /\ Move(x, [exchange[x] EXCEPT !.at = "over"])
    /\ Quiet

\* hyper drops the handler of a connection that is gone, at whichever await.
Abandon(x) ==
    /\ exchange[x].at \in Waiting /\ Closed(x)
    /\ Move(x, [exchange[x] EXCEPT !.at = "over"])
    /\ Quiet

-----------------------------------------------------------------------------
Forward(x) ==
    \/ \E c \in Conn, body \in {"messages", "other"}, model \in Model \cup {None} :
         Request(x, c, body, model)
    \/ RouteRequest(x) \/ Tunnel(x) \/ Connect(x) \/ Refuse(x)
    \/ \E streaming \in BOOLEAN : Answer(x, streaming)
    \/ PassFrame(x) \/ EndBody(x) \/ BreakBody(x) \/ DropBody(x)
    \/ \E frames \in 1..MaxFrames : Collect(x, frames)
    \/ Report(x) \/ Reply(x) \/ Abandon(x)

Next ==
    \/ StartProxy \/ DropHandle
    \/ \E c \in Conn : TlsAccept(c) \/ Close(c) \/ \E h \in Target : Accept(c, h)
    \/ \E x \in Exchange : Forward(x)

Spec == Init /\ [][Next]_vars

-----------------------------------------------------------------------------
(* Safety *)

RecordsOf(x) == {i \in DOMAIN traffic : traffic[i].exchange = x}

\* Some of the upstream's answer was made ready for the agent.
Answered(x) == exchange[x].mode \in {"tee", "stream"} \/ exchange[x].given > 0

Emitting == {x \in Exchange : exchange[x].at = "emitting"}
Numbers == {traffic[i].seq : i \in DOMAIN traffic} \cup {exchange[x].number : x \in Emitting}
NumberedOnce == Numbers = 0..(seq - 1) /\ Len(traffic) + Cardinality(Emitting) = seq

\* An answered exchange is reported exactly once, and no other is: whichever of
\* the end of the body, an upstream error and the leaving agent comes first, and
\* although the body emits both at its end and at its drop.  Concurrent exchanges
\* never share a sequence number, and none is skipped: what has a number is on the
\* channel or about to be.
ReportedOnce ==
    /\ \A x \in Exchange :
        /\ Cardinality(RecordsOf(x)) + (IF exchange[x].at = "emitting" THEN 1 ELSE 0) <= 1
        /\ RecordsOf(x) # {} => Answered(x)
        /\ exchange[x].at = "over" /\ Answered(x) => RecordsOf(x) # {}
    /\ NumberedOnce

\* A record holds what the agent was given, up to the cap, says whether that is
\* all, and names the host that gave it.
RecordIsAnswer ==
    \A i \in DOMAIN traffic :
        LET r == traffic[i]
            e == exchange[r.exchange]
        IN  /\ r.body = Lesser(e.given, Cap)
            /\ r.truncated <=> e.given > Cap
            /\ r.host = e.route.host

\* Where a provider is, whatever the agent calls: at the host of its base URL if
\* that names one, and copilot at the same for all.
Home(p) == IF p.kind = "copilot" THEN CopilotHost ELSE p.host

Routed(x) == exchange[x].route # NoRoute /\ env.providers # <<>>

\* The request goes with the key of a provider and to the host of the same one, if
\* it is known where that is, and a model some provider lists goes to one that
\* lists it.
RoutedToOwner ==
    \A x \in Exchange :
        LET e == exchange[x] IN
        Routed(x) =>
            \E k \in DOMAIN env.providers :
                LET p == env.providers[k] IN
                /\ e.route.token = p.key /\ e.route.kind = p.kind
                /\ Home(p) \in {e.route.host, None}
                /\ \/ e.model \in p.models
                   \/ \A j \in DOMAIN env.providers : e.model \notin env.providers[j].models

-----------------------------------------------------------------------------
(* Said of the program and not kept by it: see README, Disagreements *)

\* The records are sent in the order of their numbers.
SentInOrder == \A i \in DOMAIN traffic : traffic[i].seq = i - 1

\* "Emit even if the stream was cut short": every request of the agent leaves a
\* record.
EveryRequestReported == \A x \in Exchange : exchange[x].at = "over" => RecordsOf(x) # {}

\* "routed to a configured third-party endpoint rather than api.anthropic.com": a key
\* goes to the host of its provider and to no other, also when the base URL of the
\* provider names no host.
KeysStayHome ==
    \A x \in Exchange :
        Routed(x) =>
            \E k \in DOMAIN env.providers :
                LET p == env.providers[k] IN
                exchange[x].route.token = p.key /\ exchange[x].route.host = Home(p)
=============================================================================
