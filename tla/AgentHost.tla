----------------------------- MODULE AgentHost -----------------------------
(***************************************************************************)
(* The remote agent host: the main dispatch loop of main.rs, the message   *)
(* handlers of server.rs, the session registry, the tap proxies, and the   *)
(* reader and writer threads that pty/worker.rs runs for every session.    *)
(*                                                                         *)
(* A "launch" stands for one handled SpawnSession: the child process, its  *)
(* PTY, its Session object (the Arc the registry holds) and its proxy.     *)
(* Session ids are chosen by the client and may be used again, launches    *)
(* are not: that is how the model tells a session from its namesake.       *)
(*                                                                         *)
(* Abstracted: the bytes of inputs and outputs, the parsing of an agent's  *)
(* stream (a chunk may carry one AgentEvent), the byte counts behind       *)
(* `paused` (module FlowControl has them) and the frames on the wire       *)
(* (module FrameStream).                                                   *)
(***************************************************************************)
EXTENDS Naturals, Sequences, FiniteSets

CONSTANTS
    Session,       \* session ids
    NoSession,     \* session_id: None
    Launch,        \* identities for handled spawns
    NoLaunch,
    MaxSessions,   \* SessionRegistry.max_sessions
    Sends,         \* bound: kinds of request the client sends
    MaxRequests,   \* bound: requests the client sends
    MaxInbox,      \* bound: requests read and not yet dispatched
    MaxChunks,     \* bound: chunks a child writes
    MaxOutput      \* bound: messages queued and written before a chunk is read

ASSUME SessionAssumption == IsFiniteSet(Session) /\ NoSession \notin Session
ASSUME LaunchAssumption == IsFiniteSet(Launch) /\ NoLaunch \notin Launch
ASSUME BoundAssumption ==
    /\ MaxSessions \in Nat /\ MaxRequests \in Nat /\ MaxInbox \in Nat
    /\ MaxChunks \in Nat /\ MaxOutput \in Nat

VARIABLES
    main,       \* the main task: serving, shutdown, stopped, panicked or failed
    peer,       \* the client's end of stdin/stdout: up or gone
    inbox,      \* msg channel: decoded requests the main loop has not taken
    received,   \* number of requests read from stdin so far
    reply,      \* what dispatch returned and write_message has not written
    registry,   \* SessionRegistry.sessions
    proxies,    \* Server.tap_proxies
    pty,        \* the launches
    outq,       \* resp channel: messages of the threads, not yet written
    wire        \* everything written to stdout, in order

vars == <<main, peer, inbox, received, reply, registry, proxies, pty, outq, wire>>

-----------------------------------------------------------------------------
SessionKinds == {"SpawnSession", "CloseSession", "TerminalInput",
                 "ApprovalResponse", "TerminalResize", "Ack"}
HostKinds == {"ProbeRequest", "InstallRequest", "Goodbye", "Error"}

Request == [kind : SessionKinds \cup HostKinds, session : Session \cup {NoSession}]

SpawnAnswers == {"SpawnSessionAck", "SpawnSessionNack"}
OutputKinds == {"SessionEvent", "AgentEvent", "TerminalData"}
MsgKinds == {"none", "CloseSessionAck", "Error", "ProbeResponse",
             "InstallComplete", "HttpTraffic"} \cup SpawnAnswers \cup OutputKinds

Msg == [kind : MsgKinds, session : Session \cup {NoSession},
        launch : Launch \cup {NoLaunch}, seq : Nat]

\* The launch is not on the wire: it is how the properties tell namesakes apart.
Message(kind, s, a, n) == [kind |-> kind, session |-> s, launch |-> a, seq |-> n]
NoReply == Message("none", NoSession, NoLaunch, 0)

\* The code's fourth state, Ended(ConnectionLost), is set by shutdown_all alone,
\* behind the call that panics.
PtyOp == {"Write", "Resize", "Shutdown"}

Pty == [session : Session \cup {NoSession},           \* NoSession: not launched
        tapped  : BOOLEAN,                            \* env points at its own proxy
        child   : {"none", "running", "exited"},
        state   : {"Running", "UserClosed", "ProcessExited"},
        reader  : {"off", "reading", "marking", "done"},
        found   : Launch \cup {NoLaunch},             \* what registry.get gave the reader
        writer  : {"off", "on", "stopped"},
        ops     : Seq(PtyOp),                         \* pty_op channel
        seq     : Nat,                                \* seq_counter
        paused  : BOOLEAN]

Unlaunched == [session |-> NoSession, tapped |-> FALSE, child |-> "none",
               state |-> "Running", reader |-> "off", found |-> NoLaunch,
               writer |-> "off", ops |-> <<>>, seq |-> 0, paused |-> FALSE]

\* A launch whose CLI could not be started, one whose child runs without a
\* session, and one whose threads run.
FailedPty(s, tap) == [Unlaunched EXCEPT !.session = s, !.tapped = tap]
RefusedPty(s, tap) == [FailedPty(s, tap) EXCEPT !.child = "running"]
StartedPty(s, tap) == [RefusedPty(s, tap) EXCEPT !.reader = "reading", !.writer = "on"]

\* Faulty variants stand before the definitions they are variants of.
EndOverwrites(state, reason) == reason

\* An Ended state is never overwritten.
End(state, reason) == IF state = "Running" THEN reason ELSE state

AfterCloseExits(p) == [p EXCEPT !.state = End(@, "ProcessExited"),
                                !.ops = @ \o <<"Shutdown", "Shutdown">>]

\* What the steps of a running launch change.
AfterClose(p) == [p EXCEPT !.state = End(@, "UserClosed"),
                           !.ops = @ \o <<"Shutdown", "Shutdown">>]
AfterOp(p, op) == [p EXCEPT !.ops = Append(@, op)]
AfterRead(p, n, pauses) == [p EXCEPT !.seq = n, !.paused = pauses]
AfterEofUnmarked(p, b) == [p EXCEPT !.found = b, !.reader = "done"]
AfterEof(p, b) == [p EXCEPT !.found = b, !.reader = IF b = NoLaunch THEN "done" ELSE "marking"]
AfterMark(p) == [p EXCEPT !.reader = "done"]
AfterWrite(p, stop) == [p EXCEPT !.ops = Tail(@), !.writer = IF stop THEN "stopped" ELSE @]
Ended(p, reason) == [p EXCEPT !.state = End(@, reason)]
Exited(p) == [p EXCEPT !.child = "exited"]

\* What the main loop, the threads and the channels of the host hold.
TypeOK ==
    /\ main \in {"serving", "shutdown", "stopped", "panicked", "failed"}
    /\ peer \in {"up", "gone"}
    /\ inbox \in Seq(Request)
    /\ received \in Nat
    /\ reply \in Msg
    /\ registry \in [Session -> Launch \cup {NoLaunch}]
    /\ proxies \in [Session -> Launch \cup {NoLaunch}]
    /\ pty \in [Launch -> Pty]
    /\ outq \in Seq(Msg)
    /\ wire \in Seq(Msg)

Init ==
    /\ main = "serving"
    /\ peer = "up"
    /\ inbox = <<>>
    /\ received = 0
    /\ reply = NoReply
    /\ registry = [s \in Session |-> NoLaunch]
    /\ proxies = [s \in Session |-> NoLaunch]
    /\ pty = [a \in Launch |-> Unlaunched]
    /\ outq = <<>>
    /\ wire = <<>>

-----------------------------------------------------------------------------
(* The client and the stdin reader *)

Launched == {a \in Launch : pty[a].session # NoSession}

SpawnsQueued == {i \in DOMAIN inbox : inbox[i].kind = "SpawnSession"}

\* A request leaves a launch for each spawn: the model's bound on spawns.
Receive(r) ==
    /\ main = "serving"
    /\ peer = "up"
    /\ received < MaxRequests /\ Len(inbox) < MaxInbox
    /\ r.kind \in Sends
    /\ r.session = NoSession <=> r.kind \in HostKinds
    /\ r.kind = "SpawnSession" =>
         Cardinality(Launched) + Cardinality(SpawnsQueued) < Cardinality(Launch)
    /\ inbox' = Append(inbox, r)
    /\ received' = received + 1
    /\ UNCHANGED <<main, peer, reply, registry, proxies, pty, outq, wire>>

PeerLeaves ==
    /\ main = "serving"
    /\ peer = "up"
    /\ peer' = "gone"
    /\ UNCHANGED <<main, inbox, received, reply, registry, proxies, pty, outq, wire>>

-----------------------------------------------------------------------------
(* The main loop: select! of the msg channel and the resp channel *)

IdleUnserialised == main = "serving"

\* dispatch and the write of its response are awaited inside the select! arm.
Idle == main = "serving" /\ reply = NoReply

Take(kinds) ==
    /\ Idle
    /\ inbox # <<>>
    /\ Head(inbox).kind \in kinds
    /\ inbox' = Tail(inbox)
    /\ UNCHANGED <<main, peer, received, wire>>

Registered == {s \in Session : registry[s] # NoLaunch}

CanRegisterTwice(s) == Cardinality(Registered \ {s}) < MaxSessions

CanRegister(s) ==
    registry[s] = NoLaunch /\ Cardinality(Registered) < MaxSessions

\* tap_proxies.insert replaces, hence drops, the handle stored for the id.
StartProxy(s, a, tap) ==
    proxies' = IF tap THEN [proxies EXCEPT ![s] = a] ELSE proxies

\* ensure_tool_installed or spawn_cli fails, after the proxy was started; a late
\* failure of spawn_cli, on the handles of the PTY, leaves the child behind.
SpawnFails(s, a, tap) ==
    /\ Take({"SpawnSession"}) /\ Head(inbox).session = s
    /\ a \notin Launched
    /\ StartProxy(s, a, tap)
    /\ \E q \in {FailedPty(s, tap), RefusedPty(s, tap)} : pty' = [pty EXCEPT ![a] = q]
    /\ reply' = Message("SpawnSessionNack", s, a, 0)
    /\ UNCHANGED <<registry, outq>>

\* register_session refuses: the child runs, its PTY handles are dropped.
SpawnRefused(s, a, tap) ==
    /\ Take({"SpawnSession"}) /\ Head(inbox).session = s
    /\ a \notin Launched
    /\ ~CanRegister(s)
    /\ StartProxy(s, a, tap)
    /\ pty' = [pty EXCEPT ![a] = RefusedPty(s, tap)]
    /\ reply' = Message("SpawnSessionNack", s, a, 0)
    /\ UNCHANGED <<registry, outq>>

SpawnSucceeds(s, a, tap) ==
    /\ Take({"SpawnSession"}) /\ Head(inbox).session = s
    /\ a \notin Launched
    /\ CanRegister(s)
    /\ StartProxy(s, a, tap)
    /\ pty' = [pty EXCEPT ![a] = StartedPty(s, tap)]
    /\ registry' = [registry EXCEPT ![s] = a]
    /\ outq' = Append(outq, Message("SessionEvent", s, a, 0))
    /\ reply' = Message("SpawnSessionAck", s, a, 0)

\* The code sends Shutdown twice: handle_close does, and close_session does.
CloseFound(s) ==
    /\ Take({"CloseSession"}) /\ Head(inbox).session = s
    /\ registry[s] # NoLaunch
    /\ LET a == registry[s] IN
         /\ pty' = [pty EXCEPT ![a] = AfterClose(@)]
         /\ reply' = Message("CloseSessionAck", s, a, 0)
    /\ registry' = [registry EXCEPT ![s] = NoLaunch]
    /\ proxies' = [proxies EXCEPT ![s] = NoLaunch]
    /\ UNCHANGED outq

CloseUnknown(s) ==
    /\ Take({"CloseSession"}) /\ Head(inbox).session = s
    /\ registry[s] = NoLaunch
    /\ proxies' = [proxies EXCEPT ![s] = NoLaunch]
    /\ reply' = Message("Error", s, NoLaunch, 0)
    /\ UNCHANGED <<registry, pty, outq>>

SendOp(s, op) ==
    pty' = IF registry[s] = NoLaunch THEN pty
           ELSE [pty EXCEPT ![registry[s]] = AfterOp(@, op)]

\* TerminalInput and ApprovalResponse both queue a Write.
HandleInput(s) ==
    /\ Take({"TerminalInput", "ApprovalResponse"}) /\ Head(inbox).session = s
    /\ SendOp(s, "Write")
    /\ UNCHANGED <<reply, registry, proxies, outq>>

HandleResize(s) ==
    /\ Take({"TerminalResize"}) /\ Head(inbox).session = s
    /\ SendOp(s, "Resize")
    /\ UNCHANGED <<reply, registry, proxies, outq>>

\* handle_ack looks the session up and changes nothing; Error (which read_loop
\* sends for a frame it cannot decode) and unexpected messages are only logged.
HandleIgnored ==
    /\ Take({"Ack", "Error"})
    /\ UNCHANGED <<reply, registry, proxies, pty, outq>>

HandleProbe ==
    /\ Take({"ProbeRequest", "InstallRequest"})
    /\ reply' = IF Head(inbox).kind = "ProbeRequest"
                THEN Message("ProbeResponse", NoSession, NoLaunch, 0)
                ELSE Message("InstallComplete", NoSession, NoLaunch, 0)
    /\ UNCHANGED <<registry, proxies, pty, outq>>

WriteReply ==
    /\ main = "serving"
    /\ reply # NoReply
    /\ wire' = Append(wire, reply)
    /\ reply' = NoReply
    /\ UNCHANGED <<main, peer, inbox, received, registry, proxies, pty, outq>>

WriteQueued ==
    /\ Idle
    /\ outq # <<>>
    /\ wire' = Append(wire, Head(outq))
    /\ outq' = Tail(outq)
    /\ UNCHANGED <<main, peer, inbox, received, reply, registry, proxies, pty>>

\* write_message(..)? leaves main without reaching server.shutdown().
WriteFails ==
    /\ main = "serving"
    /\ peer = "gone"
    /\ reply # NoReply \/ outq # <<>>
    /\ main' = "failed"
    /\ UNCHANGED <<peer, inbox, received, reply, registry, proxies, pty, outq, wire>>

Goodbye ==
    /\ Idle
    /\ inbox # <<>>
    /\ Head(inbox).kind = "Goodbye"
    /\ inbox' = Tail(inbox)
    /\ main' = "shutdown"
    /\ UNCHANGED <<peer, received, reply, registry, proxies, pty, outq, wire>>

StdinEof ==
    /\ Idle
    /\ inbox = <<>>
    /\ peer = "gone"
    /\ main' = "shutdown"
    /\ UNCHANGED <<peer, inbox, received, reply, registry, proxies, pty, outq, wire>>

ShutdownMarksLost(s) ==
    /\ main = "shutdown"
    /\ registry[s] # NoLaunch
    /\ pty' = [pty EXCEPT ![registry[s]] = Ended(AfterOp(@, "Shutdown"), "ConnectionLost")]
    /\ main' = "panicked"
    /\ UNCHANGED <<peer, inbox, received, reply, registry, proxies, outq, wire>>

\* shutdown_all, first session: Shutdown is sent, then Handle::block_on is
\* called on the thread that already runs the main task and panics.
ShutdownPanics(s) ==
    /\ main = "shutdown"
    /\ registry[s] # NoLaunch
    /\ pty' = [pty EXCEPT ![registry[s]] = AfterOp(@, "Shutdown")]
    /\ main' = "panicked"
    /\ UNCHANGED <<peer, inbox, received, reply, registry, proxies, outq, wire>>

ShutdownEmpty ==
    /\ main = "shutdown"
    /\ Registered = {}
    /\ main' = "stopped"
    /\ UNCHANGED <<peer, inbox, received, reply, registry, proxies, pty, outq, wire>>

-----------------------------------------------------------------------------
(* The threads of a session; they live as long as the host process *)

Alive == main \in {"serving", "shutdown"}

Room == Len(outq) + Len(wire) < MaxOutput

\* What the parser of an agent's stream makes of a chunk.
Parsed(a, events) ==
    IF events THEN <<Message("AgentEvent", pty[a].session, a, pty[a].seq)>> ELSE <<>>

ChunkUnlessPaused(a, pauses) ==
    IF pauses THEN <<>> ELSE <<Message("TerminalData", pty[a].session, a, pty[a].seq)>>

Chunk(a, pauses) == <<Message("TerminalData", pty[a].session, a, pty[a].seq)>>

\* One read of the PTY master: next_seq, record_sent, the parser's messages and
\* the chunk. record_sent pauses the session when the chunk crosses the high
\* watermark.
ReadChunk(a, events, pauses) ==
    /\ Alive /\ Room
    /\ pty[a].reader = "reading" /\ ~pty[a].paused
    /\ pty[a].seq < MaxChunks
    /\ outq' = outq \o (Parsed(a, events) \o Chunk(a, pauses))
    /\ pty' = [pty EXCEPT ![a] = AfterRead(@, pty[a].seq + 1, pauses)]
    /\ UNCHANGED <<main, peer, inbox, received, reply, registry, proxies, wire>>

\* registry.get(&sid) looks the session up by its id.
Found(a) == registry[pty[a].session]

\* read returns 0 or an error once the child is gone.
ReadEnds(a) ==
    /\ Alive
    /\ pty[a].reader = "reading" /\ ~pty[a].paused
    /\ pty[a].child = "exited"
    /\ pty' = [pty EXCEPT ![a] = AfterEof(@, Found(a))]
    /\ UNCHANGED <<main, peer, inbox, received, reply, registry, proxies, outq, wire>>

MarkEnded(a) ==
    /\ Alive
    /\ pty[a].reader = "marking"
    /\ pty' = [[pty EXCEPT ![pty[a].found] = Ended(@, "ProcessExited")]
               EXCEPT ![a] = AfterMark(@)]
    /\ UNCHANGED <<main, peer, inbox, received, reply, registry, proxies, outq, wire>>

StopsOnlyOnError(a, op, stop) == stop => op = "Write" /\ pty[a].child = "exited"

\* Shutdown breaks the loop, a Write to a dead child may, Resize does nothing.
Stops(a, op, stop) ==
    /\ op = "Shutdown" => stop
    /\ op = "Resize" => ~stop
    /\ op = "Write" => (stop => pty[a].child = "exited")

\* write_all returns when the terminal has taken the bytes, which a child that
\* lives and does not read may put off for ever, or when the child is gone.
Unblocked(a, op) == op = "Write" => pty[a].child = "exited"

WriterStep(a) ==
    /\ Alive
    /\ pty[a].writer = "on"
    /\ pty[a].ops # <<>>
    /\ \E stop \in BOOLEAN :
         /\ Stops(a, Head(pty[a].ops), stop)
         /\ pty' = [pty EXCEPT ![a] = AfterWrite(@, stop)]
    /\ UNCHANGED <<main, peer, inbox, received, reply, registry, proxies, outq, wire>>

\* The child and all that inherited its terminal.
ChildExits(a) ==
    /\ pty[a].child = "running"
    /\ pty' = [pty EXCEPT ![a] = Exited(@)]
    /\ UNCHANGED <<main, peer, inbox, received, reply, registry, proxies, outq, wire>>

\* The proxy reports a finished exchange of the child it was started for. Drop
\* of the handle stops the accept loop, not the connections it has accepted.
ProxyExchange(a) ==
    /\ Alive /\ Room
    /\ pty[a].tapped
    /\ pty[a].child # "none"
    /\ outq' = Append(outq, Message("HttpTraffic", pty[a].session, a, 0))
    /\ UNCHANGED <<main, peer, inbox, received, reply, registry, proxies, pty, wire>>

-----------------------------------------------------------------------------
Dispatch ==
    \/ \E s \in Session, a \in Launch, tap \in BOOLEAN :
         SpawnFails(s, a, tap) \/ SpawnRefused(s, a, tap) \/ SpawnSucceeds(s, a, tap)
    \/ \E s \in Session :
         CloseFound(s) \/ CloseUnknown(s) \/ HandleInput(s) \/ HandleResize(s)
    \/ HandleIgnored
    \/ HandleProbe
    \/ Goodbye

Shutdown == StdinEof \/ ShutdownEmpty \/ \E s \in Session : ShutdownPanics(s)

Reader(a) ==
    \/ \E events, pauses \in BOOLEAN : ReadChunk(a, events, pauses)
    \/ ReadEnds(a)
    \/ MarkEnded(a)

Next ==
    \/ \E r \in Request : Receive(r)
    \/ PeerLeaves
    \/ Dispatch
    \/ WriteReply \/ WriteQueued \/ WriteFails
    \/ Shutdown
    \/ \E a \in Launch : Reader(a) \/ WriterStep(a) \/ ChildExits(a) \/ ProxyExchange(a)

Spec == Init /\ [][Next]_vars

(***************************************************************************)
(* The operating system runs every thread. Nothing makes a child exit or   *)
(* read its input, an output arrive or a write fail, and what is promised  *)
(* below does not even need the main loop to go on.                        *)
(***************************************************************************)
Fairness ==
    \A a \in Launch :
        /\ WF_vars(ReadEnds(a) \/ MarkEnded(a))
        /\ WF_vars(WriterStep(a) /\ Unblocked(a, Head(pty[a].ops)))

FairSpec == Spec /\ Fairness

-----------------------------------------------------------------------------
(* Safety *)

AckOnWire(a, n) ==
    \E j \in 1..n : wire[j].kind = "SpawnSessionAck" /\ wire[j].launch = a

\* The client hears that a session exists before it hears anything the session
\* says: the reader thread starts inside handle_spawn, before the Ack is written,
\* and only the resp channel keeps its chunks behind the Ack.
AckBeforeOutput ==
    \A i \in DOMAIN wire : wire[i].kind \in OutputKinds => AckOnWire(wire[i].launch, i - 1)

ChunkOf(a, m) == m.kind = "TerminalData" /\ m.launch = a

\* The chunks of a in q are 0 .. n - 1, each once and in this order.
ChunksInOrder(q, a, n) ==
    /\ \A i \in DOMAIN q : ChunkOf(a, q[i]) => q[i].seq < n
    /\ \A i, j \in DOMAIN q :
         i < j /\ ChunkOf(a, q[i]) /\ ChunkOf(a, q[j]) => q[i].seq < q[j].seq
    /\ \A k \in 0..(n - 1) : \E i \in DOMAIN q : ChunkOf(a, q[i]) /\ q[i].seq = k

\* No chunk of a session is lost, repeated or overtaken between the PTY and
\* the wire, pauses and closes included.
OutputInOrder == \A a \in Launch : ChunksInOrder(wire \o outq, a, pty[a].seq)

\* A session that was started and that the registry no longer holds has ended:
\* no live session becomes unreachable for a later CloseSession.
LeftRegistryEnded ==
    \A a \in Launched :
        pty[a].reader # "off" /\ registry[pty[a].session] # a => pty[a].state # "Running"

\* b has no child any more, and its reader has found that out and is done.
SeenToExit(b) == pty[b].child = "exited" /\ pty[b].reader = "done"

\* A session is marked as exited only after a child of its id has exited, its own
\* or that of an earlier session it took the id from: the reader threads find
\* sessions by id, after a wait, and mark what they found.
ExitedMeansChildGone ==
    \A a \in Launch : pty[a].state = "ProcessExited" =>
        \E b \in Launch : pty[b].session = pty[a].session /\ SeenToExit(b)

\* The reason a session ended for is never rewritten, whichever of the reader
\* thread and CloseSession comes first.
EndedIsFinal ==
    [][\A a \in Launch : pty[a].state # "Running" => pty'[a].state = pty[a].state]_vars

-----------------------------------------------------------------------------
(* Liveness *)

\* Nothing the writer has still to do can hold it up.
CanFinish(a) == \A i \in DOMAIN pty[a].ops : Unblocked(a, pty[a].ops[i])

\* The writer thread of a session that was closed stops, once the child is gone
\* or when no input waits for it to be read.
WriterStops ==
    \A a \in Launch :
        (pty[a].writer = "on" /\ registry[pty[a].session] # a /\ CanFinish(a))
            ~> (pty[a].writer = "stopped" \/ ~Alive)

\* A session whose child is gone becomes an ended one, although its reader first
\* waits, then looks for it under an id that may by then be closed or another's:
\* unless flow control has paused the reader, or the host itself stops.
ExitIsNoticed ==
    \A a \in Launch :
        (pty[a].reader # "off" /\ pty[a].child = "exited")
            ~> (pty[a].state # "Running" \/ pty[a].paused \/ ~Alive)

-----------------------------------------------------------------------------
(* Said of the program and not kept by it: see README, Disagreements *)

\* The proxies the server holds are those of registered sessions.
ProxiesOfSessions == \A s \in Session : proxies[s] # NoLaunch => s \in Registered

\* The reader of a session marks that session, not one that has taken its id.
ExitIsItsOwn == \A a \in Launch : pty[a].state = "ProcessExited" => SeenToExit(a)

\* Closing a session stops its writer thread, also while its child does not read.
ClosedWriterStops ==
    \A a \in Launch :
        (pty[a].writer = "on" /\ registry[pty[a].session] # a)
            ~> (pty[a].writer = "stopped" \/ ~Alive)

\* Once shutdown is over, no registered session is left with its child running.
ShutdownKillsSessions ==
    main \in {"stopped", "panicked"} =>
        \A s \in Registered : pty[registry[s]].child # "running"
=============================================================================
