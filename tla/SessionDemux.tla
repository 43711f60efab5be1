--------------------------- MODULE SessionDemux ----------------------------
(***************************************************************************)
(* The session commands of the desktop (commands/session.rs): spawn, close *)
(* and input, the ack waiters of AppState.pending_acks, and the demux      *)
(* relay that owns the recv stream of each transport.                      *)
(*                                                                         *)
(* One connection and the local agent. Module Connection has the reasons   *)
(* why the transport of a connection changes; here it is lost, replaced or *)
(* removed. The host at the other end is what module AgentHost makes of a  *)
(* spawn, a close and a chunk, reduced to the messages it writes: an       *)
(* answer is written at once, what the threads say waits in a queue.       *)
(*                                                                         *)
(* Abstracted: the payloads (a scan of them for diffs may panic), the      *)
(* events that are only passed on (AgentEvent, HttpTraffic, SessionEvent), *)
(* an emit that the window does not get, which is logged and goes on. The  *)
(* branch of a spawn whose waiter was dropped is never taken: a waiter     *)
(* leaves pending_acks only by the relay that fires it or by its spawn.    *)
(***************************************************************************)
EXTENDS Naturals, Sequences, FiniteSets

CONSTANTS
    Session,        \* ids: Uuid::new_v4, one for each spawn_session
    Remote,         \* bound: transports the connection ever has
    Local,          \* agent_transport, the IPC agent
    None,
    LocalAgent,     \* is there a local agent (Linux, with the binary found)
    MaxInputs,      \* bound: write_input calls
    MaxChunks       \* bound: chunks of a session

ASSUME TransportAssumption == Local \notin Remote /\ None \notin Remote \cup {Local}
ASSUME BoundAssumption == LocalAgent \in BOOLEAN /\ MaxInputs \in Nat /\ MaxChunks \in Nat

Transport == Remote \cup {Local}

VARIABLES
    spawn,      \* spawn_session, one call per id
    pending,    \* AppState.pending_acks: ids with a waiter
    answer,     \* the oneshot channel of each waiter
    mapped,     \* AppState.session_connections, of the one connection
    closing,    \* close_session calls that have sent and not yet unmapped
    current,    \* AppState.connection_transports, of the one connection
    up,         \* the transports in use that are connected
    used,       \* the transports there have been
    inputs,     \* number of write_input calls
    toHost,     \* sent and not yet taken by the host
    fromHost,   \* written by the host and not yet taken by the relay
    queued,     \* resp channel of the host
    host,       \* the sessions of the host
    chunks,     \* chunks read from each session's PTY
    shown,      \* terminal:data events of each session
    scratch,    \* terminal_bufs of each relay
    panicked,   \* the transports whose relay has panicked
    closed      \* history: sessions whose CloseSessionAck each relay took

vars == <<spawn, pending, answer, mapped, closing, current, up, used, inputs,
          toHost, fromHost, queued, host, chunks, shown, scratch, panicked, closed>>

relay == <<shown, scratch, panicked, closed>>
desktop == <<spawn, pending, answer, mapped, closing, inputs, relay>>
links == <<current, up, used>>
remote == <<queued, host, chunks>>

Msg == [kind : {"SpawnSession", "CloseSession", "TerminalInput", "SpawnSessionAck",
                "SpawnSessionNack", "CloseSessionAck", "Error", "TerminalData"},
        session : Session, seq : Nat]

Message(kind, s, n) == [kind |-> kind, session |-> s, seq |-> n]

\* What the maps of AppState, the two directions of a transport and the relay hold.
TypeOK ==
    /\ spawn \in [Session -> [at : {"idle", "found", "registered", "waiting", "ok", "failed", "timedout"},
                              via : Transport \cup {None}]]
    /\ pending \subseteq Session
    /\ answer \in [Session -> {"empty", "ack", "nack"}]
    /\ mapped \subseteq Session /\ closing \subseteq Session
    /\ current \in Remote \cup {None}
    /\ up \subseteq used /\ used \subseteq Transport
    /\ inputs \in 0..MaxInputs
    /\ toHost \in [Transport -> Seq(Msg)]
    /\ fromHost \in [Transport -> Seq(Msg)]
    /\ queued \in [Transport -> Seq(Msg)]
    /\ host \in [Transport -> [Session -> {"none", "live", "closed"}]]
    /\ chunks \in [Session -> 0..MaxChunks]
    /\ shown \in [Session -> Seq(Nat)]
    /\ scratch \in [Transport -> SUBSET Session]
    /\ panicked \subseteq used
    /\ closed \in [Transport -> SUBSET Session]

Init ==
    /\ spawn = [s \in Session |-> [at |-> "idle", via |-> None]]
    /\ pending = {}
    /\ answer = [s \in Session |-> "empty"]
    /\ mapped = {}
    /\ closing = {}
    /\ current = None
    /\ up = IF LocalAgent THEN {Local} ELSE {}
    /\ used = up
    /\ inputs = 0
    /\ toHost = [t \in Transport |-> <<>>]
    /\ fromHost = [t \in Transport |-> <<>>]
    /\ queued = [t \in Transport |-> <<>>]
    /\ host = [t \in Transport |-> [s \in Session |-> "none"]]
    /\ chunks = [s \in Session |-> 0]
    /\ shown = [s \in Session |-> <<>>]
    /\ scratch = [t \in Transport |-> {}]
    /\ panicked = {}
    /\ closed = [t \in Transport |-> {}]

-----------------------------------------------------------------------------
(* The transports, as module Connection leaves them *)

\* connect and try_reconnect: a new transport, in place of one that is down.
Attach(t) ==
    /\ t \in Remote \ used
    /\ current = None => up \cap Remote = {}
    /\ current # None => current \notin up
    /\ current' = t
    /\ used' = used \cup {t}
    /\ up' = up \cup {t}
    /\ UNCHANGED <<desktop, toHost, fromHost, remote>>

\* disconnect: the transport goes from the map and is not closed.
Detach ==
    /\ current # None
    /\ current' = None
    /\ UNCHANGED <<desktop, up, used, toHost, fromHost, remote>>

\* What was sent and not taken is lost; what was decoded is still there.
Lose(t) ==
    /\ t \in up
    /\ up' = up \ {t}
    /\ toHost' = [toHost EXCEPT ![t] = <<>>]
    /\ queued' = [queued EXCEPT ![t] = <<>>]
    /\ \E decoded \in 0..Len(fromHost[t]) :
         fromHost' = [fromHost EXCEPT ![t] = SubSeq(@, 1, decoded)]
    /\ UNCHANGED <<desktop, current, used, host, chunks>>

-----------------------------------------------------------------------------
(* spawn_session *)

\* The connection's transport if there is one, else the local agent's.
SpawnLooks(s) ==
    /\ spawn[s].at = "idle"
    /\ LET via == IF current # None THEN current ELSE IF LocalAgent THEN Local ELSE None
       IN  spawn' = [spawn EXCEPT ![s] = [at |-> IF via = None THEN "failed" ELSE "found", via |-> via]]
    /\ UNCHANGED <<pending, answer, mapped, closing, inputs, relay, links, toHost, fromHost, remote>>

SpawnForgets(s) ==
    /\ spawn[s].at = "found"
    /\ spawn' = [spawn EXCEPT ![s].at = "registered"]
    /\ UNCHANGED <<pending, answer, mapped, closing, inputs, relay, links, toHost, fromHost, remote>>

SpawnRegisters(s) ==
    /\ spawn[s].at = "found"
    /\ pending' = pending \cup {s}
    /\ spawn' = [spawn EXCEPT ![s].at = "registered"]
    /\ UNCHANGED <<answer, mapped, closing, inputs, relay, links, toHost, fromHost, remote>>

SpawnSends(s) ==
    /\ spawn[s].at = "registered"
    /\ spawn[s].via \in up
    /\ toHost' = [toHost EXCEPT ![spawn[s].via] = Append(@, Message("SpawnSession", s, 0))]
    /\ spawn' = [spawn EXCEPT ![s].at = "waiting"]
    /\ UNCHANGED <<pending, answer, mapped, closing, inputs, relay, links, fromHost, remote>>

SpawnSendFails(s) ==
    /\ spawn[s].at = "registered"
    /\ spawn[s].via \notin up
    /\ pending' = pending \ {s}
    /\ spawn' = [spawn EXCEPT ![s].at = "failed"]
    /\ UNCHANGED <<answer, mapped, closing, inputs, relay, links, toHost, fromHost, remote>>

ReturnsSwapped(s) ==
    /\ spawn[s].at = "waiting"
    /\ answer[s] = "ack"
    /\ spawn' = [spawn EXCEPT ![s].at = "ok"]
    /\ mapped' = mapped \cup {spawn[s].via}
    /\ UNCHANGED <<pending, answer, closing, inputs, relay, links, toHost, fromHost, remote>>

SpawnReturns(s) ==
    /\ spawn[s].at = "waiting"
    /\ answer[s] = "ack"
    /\ spawn' = [spawn EXCEPT ![s].at = "ok"]
    /\ mapped' = mapped \cup {s}
    /\ UNCHANGED <<pending, answer, closing, inputs, relay, links, toHost, fromHost, remote>>

SpawnRefused(s) ==
    /\ spawn[s].at = "waiting"
    /\ answer[s] = "nack"
    /\ spawn' = [spawn EXCEPT ![s].at = "failed"]
    /\ UNCHANGED <<pending, answer, mapped, closing, inputs, relay, links, toHost, fromHost, remote>>

\* Thirty seconds; an answer that is already there wins.
SpawnTimesOut(s) ==
    /\ spawn[s].at = "waiting"
    /\ answer[s] = "empty"
    /\ pending' = pending \ {s}
    /\ spawn' = [spawn EXCEPT ![s].at = "timedout"]
    /\ UNCHANGED <<answer, mapped, closing, inputs, relay, links, toHost, fromHost, remote>>

-----------------------------------------------------------------------------
(* close_session, write_input *)

\* resolve_session_transport
Resolve(s) == IF s \in mapped THEN current ELSE None

\* The bound: one call at a time for a session.
CloseSends(s) ==
    /\ s \notin closing
    /\ Resolve(s) \in up
    /\ toHost' = [toHost EXCEPT ![Resolve(s)] = Append(@, Message("CloseSession", s, 0))]
    /\ closing' = closing \cup {s}
    /\ UNCHANGED <<spawn, pending, answer, mapped, inputs, relay, links, fromHost, remote>>

CloseUnmaps(s) ==
    /\ s \in closing
    /\ closing' = closing \ {s}
    /\ mapped' = mapped \ {s}
    /\ UNCHANGED <<spawn, pending, answer, inputs, relay, links, toHost, fromHost, remote>>

WriteInput(s) ==
    /\ inputs < MaxInputs
    /\ Resolve(s) \in up
    /\ toHost' = [toHost EXCEPT ![Resolve(s)] = Append(@, Message("TerminalInput", s, 0))]
    /\ inputs' = inputs + 1
    /\ UNCHANGED <<spawn, pending, answer, mapped, closing, relay, links, fromHost, remote>>

-----------------------------------------------------------------------------
(* connection_demux_relay, one for each transport *)

RelayTakes(t, kinds) ==
    /\ t \notin panicked
    /\ fromHost[t] # <<>>
    /\ Head(fromHost[t]).kind \in kinds
    /\ fromHost' = [fromHost EXCEPT ![t] = Tail(@)]

RelayAnswers(t) ==
    /\ RelayTakes(t, {"SpawnSessionAck", "SpawnSessionNack"})
    /\ LET m == Head(fromHost[t]) IN
         /\ pending' = pending \ {m.session}
         /\ answer' = IF m.session \in pending
                      THEN [answer EXCEPT ![m.session] =
                              IF m.kind = "SpawnSessionAck" THEN "ack" ELSE "nack"]
                      ELSE answer
    /\ UNCHANGED <<spawn, mapped, closing, inputs, relay, links, toHost, remote>>

RelayShowsMapped(t) ==
    /\ RelayTakes(t, {"TerminalData"})
    /\ LET m == Head(fromHost[t]) IN
         /\ shown' = IF m.session \in mapped
                     THEN [shown EXCEPT ![m.session] = Append(@, m.seq)] ELSE shown
         /\ scratch' = [scratch EXCEPT ![t] = @ \cup {m.session}]
    /\ UNCHANGED <<spawn, pending, answer, mapped, closing, inputs, panicked, closed, links, toHost, remote>>

\* emit terminal:data, then buffer the chunk: entry(sid).or_default().
RelayShows(t) ==
    /\ RelayTakes(t, {"TerminalData"})
    /\ LET m == Head(fromHost[t]) IN
         /\ shown' = [shown EXCEPT ![m.session] = Append(@, m.seq)]
         /\ scratch' = [scratch EXCEPT ![t] = @ \cup {m.session}]
    /\ UNCHANGED <<spawn, pending, answer, mapped, closing, inputs, panicked, closed, links, toHost, remote>>

\* scan_terminal_for_diff on a buffer that holds the head of a diff and not its
\* end: the slice [..diff_end + 2] passes the end of the buffer.
RelayPanics(t) ==
    /\ RelayTakes(t, {"TerminalData"})
    /\ LET m == Head(fromHost[t]) IN shown' = [shown EXCEPT ![m.session] = Append(@, m.seq)]
    /\ panicked' = panicked \cup {t}
    /\ scratch' = [scratch EXCEPT ![t] = {}]
    /\ UNCHANGED <<spawn, pending, answer, mapped, closing, inputs, closed, links, toHost, remote>>

RelayForgets(t) ==
    /\ RelayTakes(t, {"CloseSessionAck"})
    /\ LET m == Head(fromHost[t]) IN
         /\ scratch' = [scratch EXCEPT ![t] = @ \ {m.session}]
         /\ closed' = [closed EXCEPT ![t] = @ \cup {m.session}]
    /\ UNCHANGED <<spawn, pending, answer, mapped, closing, inputs, shown, panicked, links, toHost, remote>>

RelaySkips(t) ==
    /\ RelayTakes(t, {"Error"})
    /\ UNCHANGED <<desktop, links, toHost, remote>>

-----------------------------------------------------------------------------
(* The host *)

HostTakes(t, kind) ==
    /\ t \in up
    /\ toHost[t] # <<>>
    /\ Head(toHost[t]).kind = kind
    /\ toHost' = [toHost EXCEPT ![t] = Tail(@)]
    /\ UNCHANGED <<desktop, links, queued, chunks>>

Answers(t, kind, s) == fromHost' = [fromHost EXCEPT ![t] = Append(@, Message(kind, s, 0))]

HostSpawns(t) ==
    /\ HostTakes(t, "SpawnSession")
    /\ LET s == Head(toHost[t]).session IN
         \/ Answers(t, "SpawnSessionAck", s) /\ host' = [host EXCEPT ![t][s] = "live"]
         \/ Answers(t, "SpawnSessionNack", s) /\ UNCHANGED host

HostCloses(t) ==
    /\ HostTakes(t, "CloseSession")
    /\ LET s == Head(toHost[t]).session IN
         IF host[t][s] = "live"
         THEN Answers(t, "CloseSessionAck", s) /\ host' = [host EXCEPT ![t][s] = "closed"]
         ELSE Answers(t, "Error", s) /\ UNCHANGED host

HostTypes(t) ==
    /\ HostTakes(t, "TerminalInput")
    /\ UNCHANGED <<fromHost, host>>

\* The reader thread goes on until the child has exited, closed or not.
HostReads(t, s) ==
    /\ t \in up
    /\ host[t][s] # "none"
    /\ chunks[s] < MaxChunks
    /\ queued' = [queued EXCEPT ![t] = Append(@, Message("TerminalData", s, chunks[s]))]
    /\ chunks' = [chunks EXCEPT ![s] = @ + 1]
    /\ UNCHANGED <<desktop, links, toHost, fromHost, host>>

HostWrites(t) ==
    /\ t \in up
    /\ queued[t] # <<>>
    /\ fromHost' = [fromHost EXCEPT ![t] = Append(@, Head(queued[t]))]
    /\ queued' = [queued EXCEPT ![t] = Tail(@)]
    /\ UNCHANGED <<desktop, links, toHost, host, chunks>>

-----------------------------------------------------------------------------
SpawnCommand(s) ==
    \/ SpawnLooks(s) \/ SpawnRegisters(s) \/ SpawnSends(s) \/ SpawnSendFails(s)
    \/ SpawnReturns(s) \/ SpawnRefused(s)

Relay(t) == RelayAnswers(t) \/ RelayShows(t) \/ RelayPanics(t) \/ RelayForgets(t) \/ RelaySkips(t)

HostMain(t) == HostSpawns(t) \/ HostCloses(t) \/ HostTypes(t)

Next ==
    \/ \E s \in Session : SpawnCommand(s) \/ SpawnTimesOut(s) \/ CloseSends(s) \/ CloseUnmaps(s) \/ WriteInput(s)
    \/ \E t \in Transport :
         Relay(t) \/ HostMain(t) \/ HostWrites(t) \/ Lose(t) \/ \E s \in Session : HostReads(t, s)
    \/ Detach \/ \E t \in Remote : Attach(t)

Spec == Init /\ [][Next]_vars

\* Commands that were called, relays and the main loops of hosts are run; the
\* thirty seconds need not pass.
FairSpec ==
    /\ Spec
    /\ \A s \in Session : WF_vars(SpawnCommand(s))
    /\ \A t \in Transport : WF_vars(Relay(t)) /\ WF_vars(HostMain(t))

-----------------------------------------------------------------------------
(* Safety *)

Said(s, m) == m.kind = "TerminalData" /\ m.session = s

\* The chunks of s in q are k .. n - 1, each once and in this order.
Coming(q, s, k, n) ==
    /\ \A i \in DOMAIN q : Said(s, q[i]) => q[i].seq \in k..(n - 1)
    /\ \A i, j \in DOMAIN q : i < j /\ Said(s, q[i]) /\ Said(s, q[j]) => q[i].seq < q[j].seq
    /\ \A c \in k..(n - 1) : \E i \in DOMAIN q : Said(s, q[i]) /\ q[i].seq = c

\* Sessions share a relay and none takes another's output: while a transport is up,
\* what was shown of a session, with what is on its way, is all it said, in order.
NothingSwallowed ==
    \A t \in up, s \in Session :
        host[t][s] # "none" =>
            /\ Len(shown[s]) <= chunks[s]
            /\ \A i \in DOMAIN shown[s] : shown[s][i] = i - 1
            /\ Coming(fromHost[t] \o queued[t], s, Len(shown[s]), chunks[s])

-----------------------------------------------------------------------------
(* Liveness *)

\* While the transport stays up and its relay runs, a spawn is answered through
\* the relay, however many sessions share it.
SpawnAnswered ==
    \A s \in Session :
        spawn[s].at = "waiting" ~>
            (spawn[s].at \in {"ok", "failed", "timedout"} \/ spawn[s].via \notin up \ panicked)

-----------------------------------------------------------------------------
(* Said of the program and not kept by it: see README, Disagreements *)

\* "Used by write_input / resize_terminal / close_session to find the correct
\* transport for a given session": the one its spawn went to.
ResolvesToItsTransport ==
    \A s \in mapped : Resolve(s) # None => Resolve(s) = spawn[s].via

\* "try to close via agent_transport (local IPC sessions)".
LocalClosable ==
    \A s \in mapped : spawn[s].via = Local => Resolve(s) = Local

\* "A session closed - drop its scratch state."
ClosedScratchGone == \A t \in Transport : scratch[t] \cap closed[t] = {}

\* "The relay lives on for the connection's other sessions."
RelayLivesOn == panicked = {}
=============================================================================
