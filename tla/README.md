# A specification of agentIDE

agentIDE is a desktop program (Tauri: Rust commands in `src/apps/frontend/src-tauri`, a React
frontend in `src/apps/frontend/src`) that runs coding agents on remote machines. Over SSH it uploads
and starts an agent host (`src/crates/remote-agent-host`), which runs agents and shells on
pseudo-terminals, intercepts their HTTP traffic with a proxy, and speaks a framed protocol
(`src/crates/shared-protocol`) with the desktop over its stdin and stdout.

This directory models the parts of it in which steps of several actors meet. The models are
translated from the source; the documents (`src/design.md`, `src/TODO.txt`) and the comments are
used only as statements about it. Where the code does not do what one of them says, the module states
it as a property all the same, and TLC shows how it fails: see *Disagreements*.

## 1. The system

| component | state | operations | hard because |
|---|---|---|---|
| **agent host** `main.rs`, `server.rs`, `session/*`, `pty/worker.rs` | registry of sessions, `tap_proxies`, per session a child, a PTY, a reader and a writer thread, channels | read a request, spawn (proxy, installation, PTY, registration), close, input, read a chunk, mark ended, write an answer, write a queued message, shut down | two threads for each session beside the main loop; answers and output reach stdout by different ways; ids chosen by the client |
| **flow control** `session/types.rs` | `bytes_pending`, `paused`, `last_acked_seq` | check, record_sent, record_ack, ack | two atomics changed one after the other by two threads |
| **framing** `codec.rs`, `stdio.rs`, `ipc.rs`, `ssh_channel.rs` | a buffer, the byte stream | encode, read some bytes, decode | a read ends anywhere; a malformed frame |
| **connections** `commands/connection.rs`, `connection/*`, `ssh_channel.rs` | three maps of `AppState`, a flag and an actor for each transport | connect, disconnect, health check, reconnect, performance sample | commands and monitors change the maps one after another, with seconds of SSH between reading and writing |
| **session commands and relay** `commands/session.rs` | `pending_acks`, `session_connections`, buffers of the relay | spawn with a timeout, close, input, relay of every message | one relay for all sessions, acknowledgements that come late, transports replaced below a session |
| **approvals** `agent_parse.rs`, `commands/approval.rs`, `approvalStore.ts` | the queue | prompt, list, respond, route to stdin | the answer does not name its prompt |
| **streaming translation** `tap/translate/stream.rs` | translator state, captured bytes | one chunk, `[DONE]`, end of stream, drop | a stream cut and shaped by the provider |
| **cache and updater** `updater.rs`, `lib.rs`, `bootstrap/uploader.rs` | files of a cache directory | start, check, download, verify, unpack, take the agent binary | crashes between files, releases during a download, two writers |
| **session proxy** `tap/proxy.rs`, `record.rs`, `ca.rs` | a listener for each session, its connections and exchanges, one sequence number | CONNECT, route, tunnel, forward, capture, report | concurrent exchanges; either end leaves at any await; a report made at the end of a body and at its drop |
| **request and response translation** `tap/translate/request.rs`, `response.rs` | none | Anthropic request to OpenAI request, OpenAI reply or error to Anthropic | what is written here and read there: the reply comes back as the history of the next request |
| **bootstrap** `bootstrap/*`, `connection/ssh.rs`, `tap/ca.rs` | `~/.remote-agent-host` on the remote machine | detect, compare, upload, verify, rename, start; load or create the certificate authority | several desktops and agent processes share a directory; a lost connection leaves its commands running |
| **restart** `commands/restart.rs` | a flag file in the cache | save, exit, restore | the next start may clear the cache, be killed, or follow the loader |
| **loader** `crates/ota-loader` | the same cache | manifest, files, sweep, launch | it sweeps what the application keeps there |
| frontend stores, files, settings, models | | | see *Not modelled* |

How they meet:

```
 user ── commands ──> desktop                                     host
                      connect/monitors ── AppState maps           main loop <── stdin
                      spawn/close/respond ── transport.send ──>   (dispatch: registry, proxies)
                      relay <── transport.recv <── frames <── stdout <── resp channel
                      │  (one per transport)                      reader + writer thread per session
                      └─ events ──> frontend stores               proxy per session
```

## 2. Modules

| module | models | abstract specification | theorems |
|---|---|---|---|
| `AgentHost` | the host: main loop, handlers, registry, proxies, threads of every session | | `AgentHost_proof` |
| `FlowControl` | the counters of one session, an atomic operation at a time | | `SessionPath_proof` |
| `FrameStream` | codec and read loops over a byte stream | `FifoChannel` | `SessionPath_proof` |
| `Connection` | one connection: commands, monitors, reconnects, actors, relays | | `Connection_proof` |
| `SessionDemux` | session commands, waiters, relays | | `SessionPath_proof` |
| `Approval` | prompts and decisions, end to end | `Consent` | `Approval_proof` |
| `SseTranslate` | the streaming translator and the body that drives it | | `SseTranslate_proof` |
| `TranslateRequest`, `TranslateResponse` | the translations of whole messages, as operators | | |
| `ToolLoop` | a turn of the agent: `SseTranslate` and the two translations composed | | `SseTranslate_proof` |
| `TapProxy` | the proxy of one session: connections, routing, exchanges, records | | `TapProxy_proof` |
| `RemoteHome` | the directory on a remote machine that desktops and agents share | | `RemoteHome_proof` |
| `OtaCache` | start, restart, updater, loader and bootstraps over one cache | | `OtaCache_proof` |

Each has an `MC` module with its symmetry sets and constant functions, and a `.cfg` for each run.
The last section of a module, *Said of the program and not kept by it*, holds properties the code violates.
Operators marked as faulty variants or mutants are plausible bugs, defined next to the operator they
would replace and used nowhere in a specification; they show that each property can fail.

### AgentHost

A *launch* is one handled `SpawnSession`. Sessions may share an id, launches do not, which tells a
session from its namesake. `main`, `inbox` and `reply` are the `select!` loop: the message it took, the
answer that `write_message` writes before the loop goes on. `outq` is the unbounded `resp` channel the
threads send to, `wire` is stdout. `pty[a]` holds the session object with the program counters of its
reader (`reading`, `marking`: it has read the registry and not yet stored the state, `done`) and writer.
`SpawnFails`, `SpawnRefused` and `SpawnSucceeds` are the outcomes of `handle_spawn` in its order: proxy,
installation, PTY and child, registration, event, threads, answer - with each early return; a late one
leaves a child that nothing refers to. `Resize` is queued and has no effect, as in `worker.rs:92`. A `Write`
is `write_all` on a PTY, which may wait for as long as a live child does not read (`Unblocked`).

### FlowControl

One action for each atomic operation of `record_sent` (`fetch_add`, then the store of `paused`) and
`record_ack` (`fetch_sub`, then the store). `handle_ack` of the code records nothing: a behaviour in
which `recorded` is FALSE is that code, one in which it is TRUE has the counters used as they were written
to be (`recorded` never changes; the constant `Recorded` says which of the two an instance has).
`bytesPending` wraps at `Width`, as `usize` does.

### FrameStream and FifoChannel

A frame is a length and a payload; `HeaderSize` and `Base` give the length its digits, so that small
instances have headers of several bytes and payloads at `MaxFrameSize`. `Sendable` are the messages of this
version; `PayloadAssumption` is what is used of MessagePack: payloads are bytes and differ when the
messages do, and a foreign frame does not decode. A step reads any non-empty part of
what was sent and then decodes as often as the loop does. *Foreign* frames are those of a version that
this one cannot decode. The host goes on after an error, the desktop's loops return: `receiver` says which
of the two reads. `FrameStream` implements `FifoChannel`, liveness included, for the messages sent before
the first foreign frame (`SentWell` for `sent`, `delivered` for itself).

### Connection

One connection id (ids are fresh UUIDs). A transport stands for an SSH session with its channel, its
actor task and its flag. `connect`, `disconnect`, the monitor and a reconnect are sequences of map
operations (`insert`, `insertSsh`, `start`, ...), one action each, because every one of them can be
seen by the others. The relay of a transport is what `recv` reports, and may panic (`SessionDemux`
says when).

### SessionDemux

The commands of two sessions over the transports a connection has had, and the local agent. The host is
reduced to what it may write: answers at once, output through its channel. The relay handles one message
at a time. The scan for diffs is modelled by what it does to the relay: nothing, or a panic on a head of
a diff without an end.

### Approval and Consent

The agent is external: it asks, waits for a line, and reads the line as the answer of its oldest prompt.
`Habits` says, by session, what it may do beyond asking one thing at a time; an agent without any is
*plain*. The queue is the store keyed by request
id; a card shows the oldest pending request; each click is a call of its own. `Consent` says what all of
it is for: a prompt goes on with what the user decided on it, once. Restricted to the prompts of plain
agents of remote sessions, `Approval` implements it, whatever the other agents do in the same queue.
The remote sessions are those of one connection (`link`), which the user may disconnect or which may break while the
agents run on; `Send` then fails as `respond_approval` does, and what was under way may be lost. The store
keys requests by an id that the agent chooses; the model takes ids to be unique, or empty.

### SseTranslate

A chunk is what the first choice of a payload carries. Fragments of text and of arguments are named by
their chunk, so the properties can say that none is lost, doubled or moved. `Habits` are things that
providers do beyond the plain reply the code was written for: a chunk without choices, a finish in the first
chunk, parallel calls named later, text and calls in one reply, an index twice in one array of calls; `odd`
records which of them a reply has shown so far, so that a property of plain replies is checked in the runs
where they occur. `captured` is cut at `Cap` events as the code
cuts it at `BODY_CAP` bytes, and the report is made by the drop. `reason` is the `finish_reason` the provider
gave, `stop_reason` what the agent was told.

### TranslateRequest, TranslateResponse and ToolLoop

JSON is a record with the fields that are present; a text is the sequence of its pieces, so joining
texts joins sequences. The two translations are pure, and what makes them right is how they fit: the
client that streams gets from `stream.rs` what the one that does not gets from `response.rs`, and the
reply returns through `request.rs` as part of the next request. Arguments are a text that is JSON or is not
(`Parses`): a whole reply has `{}` for those that are not, and a streamed one hands on what there is.
`ToolLoop` puts the three together: it
assembles the events of a finished `SseTranslate` behaviour by block index as the agent does (which is
external), answers each tool use and translates the request that follows. Its properties are of *unmixed*
replies: text or calls, opened in the order of their indices, and *uncut* ones, all of whose arguments are
JSON; what the translator does to others is in `WellFormed` and under *Disagreements*. A provider that ends a
reply without a reason is left out of the comparison of reasons: the agent hears `tool_use` of calls that were
streamed (`stream.rs:660`) and `end_turn` of whole ones (`response.rs:173`).

### TapProxy

The proxy of one session. `conn` is what `handle_conn` serves, `exchange[x]` a call of `forward`: `at` is
the await it has reached, `route` what `determine_upstream` chose, `mode` which of the three bodies carries
the answer (`TeeBody`, `StreamingTranslateBody`, or a whole reply that is collected first), `ctx` whether the body still has the context of its
record. `emit` takes its number (`seq`) in one step and sends in the next. `Route` has the order of
`determine_upstream`: providers, the gateway, the target with a token of its own. `HostOf` is where the code
sends the request of a provider, `Home` where the provider is; they differ when its base URL names no host. Dropping the handle ends
the accept loop and not the connections; a connection that closes drops its handler at whatever await it
is (`Abandon`), or its body (`DropBody`). Bodies are counted in frames.

### RemoteHome

A command sent over SSH is a process of the remote machine. `cat > agent.tmp` truncates what is there and
writes to the file it opened, under whatever name that file has since (`cat[c].fd`); the verify script is
its three shell commands; `start_agent` reports success before anything has started. When a connection is
lost its script goes on, and its `cat` gets nothing more and holds the file until sshd ends it
(`stray`). A binary is a sequence of chunks named by the client they came from; `Nobody` fills a
hole. `load[c]` is `load_or_create` in the agent that a client runs: two looks, two files, each truncated and then
written; an authority is a number, so that a certificate and a key match when they are equal. `alone` and
`apart` are history variables: which attempts overlapped nothing, and whether no two loads have overlapped yet.

### OtaCache

A release is a number; the content of a file is the release that last changed it, or torn. The updater
goes file by file through save, compare, download (a request is answered with the file as it is now, or
with an older copy), verify, rename and unpack. The start clears the cache entry by entry and opens a window.
`Exit` may happen between any two steps. `prepare_restart` writes the flag (`torn`, then `set`) and exits;
`owed` remembers the sessions it saved, and says `behind` once the manifest of the cache is older than the
executable, because the start then clears the directory the flag is in: the executable was replaced, or the
loader was answered with an old manifest. A bootstrap that cannot read the cached binary removes it, and one
that cannot write it goes on without. The loader runs while the application does not, and uses the
variable `updater` for its own place. One loader runs at a time, and none beside the application.

## 3. Runs

Passing runs, one for each module or composition, and a second one where liveness needs other bounds. The
bounds are the smallest in which every action fires and every race listed has its actors and something to
interfere; each run completes its state space.

| run | bounds | shows |
|---|---|---|
| `MCAgentHost` | 2 ids, 2 launches, 3 requests, 2 chunks, limit 1 | `AckBeforeOutput`, `OutputInOrder`: whatever order the two ways to stdout have, the client hears of a session first from its answer, and gets each chunk once and in order. `LeftRegistryEnded`, `EndedIsFinal` and `ExitedMeansChildGone`, also when ids are used again |
| `MCAgentHostLive` | 1 id, 2 launches, every kind of request | `WriterStops`, `ExitIsNoticed` |
| `MCFlowControl` | watermarks 4 and 1, chunks of at most 4, 16 units of output | `UnackedBounded`: the counter used as intended counts what is unacknowledged, and how far the watermark is passed, with acks recorded and without |
| `MCFrameStream` | 4 frames: empty, short and maximal payloads, two foreign ones; both kinds of reader | `ChannelSpec`: implements `FifoChannel` |
| `MCConnection` | 2 transports: one and its replacement | `StoredIsWatched`, `StoredHasRelay`, `ReplacesDeadOnly`, `DeadIsRetried` |
| `MCSessionDemux` | 2 sessions, 1 transport and the local agent, 1 input | `NothingSwallowed`, `SpawnAnswered` |
| `MCSseTranslate` | 5 chunks, 2 tool indices, every habit | `WellFormed` for plain replies, `ReportedIsSent` for all; `StreamedAsWhole`, with the reason of the end, and `HistoryReturns` (`ToolLoop`) for unmixed and uncut ones. A text is JSON unless the third chunk ends it |
| `MCTapProxy` | 2 connections, 2 exchanges; a tapped session, two providers of which one is translated and the other names no host, copilot beside another provider of its model, the gateway behind a corporate proxy; 2 frames, a cap of 1 | `ReportedOnce`, `RecordIsAnswer`, `RoutedToOwner` |
| `MCRemoteHome` | 2 desktops, one persistent, binaries of 2 chunks, 2 faults | `RunsWhole`, `TrustedAlone`, `Heals` |
| `MCOtaCache` | 3 releases, the last without files, 2 bootstraps, 2 exits, runs of the loader or read errors | `PassInstalls`, `RestartRestored`, `CacheHeals` |
| `MCApproval` | a plain, a local and another session, the two with every habit; 2 prompts | `AnswersTheAsker`, `ConsentSpec`: implements `Consent`; `DecisionsArrive` |

A run checks the type invariant of its module (`TypeOK`, `FrameTypeOK`) too, unless another run of the module does;
`FlowControl` has none beside `UnackedBounded`, which bounds its counters.

Why the bounds are enough: the host treats sessions alike and shares between them only the registry, the
proxies, the two ways to stdout and ids, so two sessions meet in each of them; a monitor knows one
transport at a time, and what it does to a replacement is what it did to the first; a translator keeps no
more of the past than its state and the indices in use, both of which are exhausted by four chunks with
every habit; two prompts are the fewest that can be taken for each other (`AnswersTheAsker` is proved for
any number); two exchanges are the fewest that can share a number or a connection, and a body one frame
longer than the cap is the first that is cut; a file of two chunks is the shortest that can be partly one
desktop's and partly another's or have a hole, and two faults are a lost connection and what is lost while
it is repaired; a cache remembers one release, so the third is the first that can be new to both manifests.
`CHECK_DEADLOCK FALSE` is used
throughout: every instance stops when its bounds are used up, and the programs may stop as well.

### Fairness

* `AgentHost`: the threads are scheduled by the system, so the end of a reader and each writer get weak
  fairness, the writer only at an operation that is not blocked: `write_all` on the PTY of a child that
  lives and does not read may never return. Nothing is assumed of the main loop, the client or of children, which
  need not exit and need not read.
* `FlowControl`: the reader thread, the client's consumption and the handler.
* `FrameStream`: the read loop. `Connection`: each task of the runtime and each relay's poll; a
  bootstrap may fail for ever, which is why `DeadIsRetried` promises an attempt and no success.
* `SessionDemux`: each command, each relay and each host's loop. `Approval`: the relay, each call,
  the host and a reading agent; the user never has to decide.
* `RemoteHome`: the processes of the remote machine and the tasks of the desktop, each step by itself; that a
  lost `cat` ends, because sshd ends the commands of a connection it finds dead. Only a *persistent* client
  is assumed to connect again.
* `OtaCache`: weak fairness of the start, the updater's loop, the loader and bootstraps; strong fairness of a download
  that is answered with the current file and of an unpacking that succeeds, because old copies and
  failures are assumed not to last for ever. It is the only assumption that is about the world and
  not about the code.

### Disagreements

Properties that state what a document, a comment or the code elsewhere says, and that the code violates. One
has a run (`expect: violation`); each of the others fails within the bounds of the run named, as
one sees by adding it to that run's `.cfg` (and, for an invariant, taking out the other properties to see
it first).

| property | run | the code | what it says elsewhere |
|---|---|---|---|
| `FlowControl!AllDelivered` | **`MCFlowControlStuck`** | acks are received and not recorded, so a session stops for ever after 64 KiB (`server.rs:565`) | capability "flow_control" (`main.rs:247`) |
| `Approval!TakenIsDecided` | `MCApproval` | decisions overtake each other, or an interrupted prompt stays in the queue: another prompt goes on with its decision (`server.rs:551`, `approvalStore.ts:54`) | "Route an approval decision back to the agent CLI" (`server.rs:535`) |
| `Approval!NoneStranded` | `MCApproval` | a decision made after a disconnect or on a dead transport is not sent, and its request has left the queue (`approval.rs:33`, `:39`, `:48`, `approvalStore.ts:62`) | "Forwards the user's decision to the Remote Agent Host" (`approval.rs:3`) |
| `FlowControl!AutoResume` | `MCFlowControl` | with acks recorded, a pause may be stored after the ack that should have ended it (`types.rs:109`) | "auto-resume" (`types.rs:102`) |
| `AgentHost!ProxiesOfSessions` | `MCAgentHost` | a spawn that fails leaves its proxy behind (`server.rs:378`) | one proxy for each session |
| `AgentHost!ExitIsItsOwn` | `MCAgentHost` | the reader finds its session by id, after a wait, and marks the one that has taken it (`worker.rs:173`) | "Mark session as ended" (`worker.rs:172`) |
| `AgentHost!ClosedWriterStops` | `MCAgentHostLive` | the writer hangs in `write_all` while a live child does not read, which closing does not kill, and never sees the `Shutdown` (`worker.rs:86`) | `PtyOp::Shutdown` ends the writer (`worker.rs:94`) |
| `AgentHost!ShutdownKillsSessions` | `MCAgentHostLive` | `block_on` inside the runtime panics before the first kill (`registry.rs:60`) | `shutdown_all` |
| `FrameStream!ErrorPerMalformedFrame` | `MCFrameStream` | the loop stays with one malformed frame, reports it without end and never reads on (`stdio.rs:49`) | "Send error and continue" (`stdio.rs:51`) |
| `Connection!OldRelayDied` | `MCConnection` | relays of replaced transports poll on (`ssh_channel.rs:172`) | "the old one died with the old transport" (`connection.rs:288`) |
| `Connection!PerfExits` | `MCConnection` | a reconnect under way undoes a disconnect (`connection.rs:285`) | "Exits when the SSH session is removed" (`perf.rs:46`) |
| `SessionDemux!ResolvesToItsTransport` | `MCSessionDemux` | after a reconnect a session resolves to a host that never had it (`session.rs:563`) | "to find the correct transport for a given session" (`lib.rs:25`) |
| `SessionDemux!LocalClosable` | `MCSessionDemux` | local sessions cannot be closed (`session.rs:578`) | "try to close via agent_transport" (`session.rs:577`) |
| `SessionDemux!ClosedScratchGone` | `MCSessionDemux` | buffers of closed sessions come back (`session.rs:318`) | "drop its scratch state" (`session.rs:393`) |
| `SessionDemux!RelayLivesOn` | `MCSessionDemux` | an unfinished diff ends the relay of all sessions (`session.rs:499`) | "The relay lives on for the connection's other sessions" (`session.rs:393`) |
| `SseTranslate!StartsOnce` | `MCSseTranslate` | a first chunk without choices: the message starts twice (`stream.rs:209`) | the Anthropic event sequence |
| `SseTranslate!BlocksStopped` | `MCSseTranslate` | tool calls named in a later chunk, or a finish in the first: blocks left open (`stream.rs:466`) | the same |
| `SseTranslate!IndexUnique` | `MCSseTranslate` | text and a tool call share block 0 (`stream.rs:355`), or two calls of one array the block of their index (`stream.rs:227`) | the same |
| `ToolLoop!EveryResultSent` | `MCSseTranslate` | a user message with several results becomes one tool message without content (`request.rs:261`) | "converted to separate `role: "tool"` messages" (`request.rs:218`) |
| `ToolLoop!CutAlike` | `MCSseTranslate` | arguments that were cut are `{}` in a whole reply (`response.rs:118`) and handed on as they are in a streamed one (`stream.rs:255`) | the same translation of a "chat completion" and of its "SSE chunks" (`translate/mod.rs:8`) |
| `TapProxy!KeysStayHome` | `MCTapProxy` | the key of a provider whose base URL has no scheme goes to the host the agent called (`proxy.rs:408`) | "routed to a configured third-party endpoint rather than api.anthropic.com" (`proxy.rs:428`) |
| `TapProxy!SentInOrder` | `MCTapProxy` | the number is taken before the record is sent, and another exchange may send in between (`proxy.rs:886`) | the sequence number of `HttpTraffic` (`messages.rs:52`) |
| `TapProxy!EveryRequestReported` | `MCTapProxy` | an exchange refused or abandoned before its answer leaves no record (`proxy.rs:823`) | "Emit even if the stream was cut short" (`proxy.rs:932`) |
| `RemoteHome!AgentNeverPartial` | `MCRemoteHome` | what is renamed may be open for writing by another desktop (`uploader.rs:206`) | "a partial upload never clobbers a good binary" (`uploader.rs:202`) |
| `RemoteHome!CliTrusts` | `MCRemoteHome` | two agents that start together keep one's certificate and the other's key (`ca.rs:56`) | "so the Node-based CLIs trust our interception leaf certs" (`ca.rs:5`) |
| `RemoteHome!CaUsable` | `MCRemoteHome` | a file left torn by a killed agent is never made anew (`ca.rs:56`) | "Load the persisted CA, or generate + persist a new one" (`ca.rs:49`) |
| `OtaCache!SessionsRecovered` | `MCOtaCache` | a newer executable, or the loader that kept an older manifest, makes the start clear the directory that the flag is in (`lib.rs:345`) | "can be recovered after the process restarts" (`restart.rs:1`) |
| `OtaCache!AllDownloaded` | `MCOtaCache` | missing files are never downloaded (`updater.rs:137`) | "downloads updated components to the local cache" (`updater.rs:4`) |
| `OtaCache!WindowIsNew` | `MCOtaCache` | a new program with an old frontend (`lib.rs:345`) | "so embedded assets win over stale OTA-cached ones" (`lib.rs:317`) |
| `OtaCache!AgentWhole` | `MCOtaCache` | half a binary is taken from the cache (`uploader.rs:80`) | "Corrupt cache file — remove it and re-download" (`uploader.rs:66`) |
| `OtaCache!Unpacked` | `MCOtaCache` | a failed unpacking is never repeated (`updater.rs:393`) | extracted directories are managed by their archive (`updater.rs:182`) |

A local session is in the state of `NoneStranded` from the start: `respond_approval` knows no transport for it
(`approval.rs:39`). `ConsentSpec` and `DecisionsArrive` are of remote agents for that reason, and
`DecisionsArrive` of those whose connection stays.

Three comments differ from the code without a property to show it: a reply that cannot be translated is
answered with 502 (`proxy.rs:823`), where `response.rs:13` says that the original body is passed
through; a request to count tokens is translated, where `request.rs:34` says that it is forwarded
unchanged; and the path prefix of `translate/mod.rs:12` is computed and logged, and never sent
(`proxy.rs:543`).

## 4. Proofs

`tlapm` checks them for every value of the constants that the assumptions of the modules allow:
any number of sessions, launches, transports, requests, exchanges, desktops, releases and prompts.

**AgentHost_proof.** Assumptions: `SessionAssumption`, `LaunchAssumption`, `BoundAssumption` (finite sets,
bounds that are natural numbers). Theorems: `TypeCorrect` (`TypeOK`), `NoLiveSessionLost` (`LeftRegistryEnded`), `EndingFinal` (`EndedIsFinal`),
`AckFirst` (`AckBeforeOutput`), `ChildGone` (`ExitedMeansChildGone`) and `ChunksOnceInOrder`
(`OutputInOrder`). None of them is inductive alone. A reader looks its session up by id and
marks what it found, so `TypeOK` needs that a started reader has a session (`ReadersHaveSession`); what
leaves the registry has ended only because the registry holds launches under their own ids
(`RegistryBacked`) and a reader marks started launches only (`FoundStarted`). The proof states once what a
step may do to a launch (`Keeps`: its session stays, a started reader stays started, its end stays) and
shows it of each action; the invariants then follow without looking into the actions again. `AckFirst` uses
a second invariant: what waits in `outq` is of a launch whose answer is on the wire or is the `reply` that
will be written before anything queued. `ChildGone` uses a third, `ChildInv`: a reader that is about to
mark saw the end of its own child, and what it found is a launch under its own id, which is itself or has taken
that id over. `ChunksOnceInOrder` uses a fourth, `OrderInv`: with it a reader that never started
has numbered nothing. A step of any actor either appends to `outq`, moves its head to `wire`, or inserts an
answer between the two, and none of these reorders the chunks of a launch (`InsertedInOrder`).

**SessionPath_proof.** The way of a session between desktop and host. It extends three modules at once,
which is why `FlowControl` and `FrameStream` have names of their own for what other modules call `Init`,
`Next`, `Spec` and `TypeOK`.

* `SessionDemux` (`TransportAssumption`, `BoundAssumption`): `DemuxTypes` (`TypeOK`) and `Shown`
  (`NothingSwallowed`). Chunks of a session are counted over the transports it might be on, so `DemuxInv`
  says that it is on one: a host has a session only when its spawn went there (`SpawnSent`, `OneHost`), over a
  transport that was attached (`HostUsed`), and only such a session has output on its way (`OwnOutput`) or
  shown (`Silent`).
* `FlowControl` (`WatermarkAssumption`): `Bounded` (`UnackedBounded`). `FlowInv` follows a chunk through the
  atomic steps: the counter is what is sent, received and not yet taken off, and what the reader holds
  (`Accounted`); it never wraps (`Written`); and a pause that a late store of `record_ack` undoes costs one chunk
  more (`LateStore`, `Limited`).
* `FrameStream` (`SizeAssumption`, `PeerAssumption`, `PayloadAssumption`): `FrameTypes` (`FrameTypeOK`) and `Fifo`, the
  initial state and the steps of `ChannelSpec`. `FrameInv`: what was sent is what was delivered and then a
  sequence of items of which the buffer and the stream are the frames, one after the other. It needs that a
  header gives the length back (`Header` and `Length` meet in `Weight`) and that the bytes after a frame do not
  change what it decodes to (`StartStays`).

**Connection_proof.** Assumptions: `TransportAssumption`, `ErrorsAssumption`. Theorems: `TypeCorrect`,
`Watched` (`StoredIsWatched`), `Relayed` (`StoredHasRelay`) and `DeadReplaced` (`ReplacesDeadOnly`). The
invariant `IInv` adds: whoever holds a transport holds one that was bootstrapped (`HeldAreUsed`), so a
bootstrap never revives a flag; an actor that runs has its flag set (`FlagOfActor`); between the check
of the monitor and its insert nothing but what it found dead is stored (`FoundDead`), because `connect`
inserts before the monitor starts (`StartedByConnect`) and `disconnect` only removes. `DeadReplaced` is the
step from there: an insert over a transport is that of the monitor, over the one it found dead.

**Approval_proof.** Assumption: `NoneAssumption` (and `PromptAssumption` of the ids). Theorems:
`TypeCorrect` and `Answered` (`AnswersTheAsker`), for agents with any `Habits`. A line on a stdin is right as
long as the decision it carries is not made again, so `IInv` says where a prompt can be until it is
decided: in one event (`EventsOnce`) or pending under one id (`PendingOnce`), not both (`PendingArrived`), and
open in either place (`EventsOpen`, `PendingOpen`). A request without an id overwrites another one, and a
prompt may get lost that way; it never gets to be in two places.

Its second part shows `Implements`: `Spec => ConsentSpec`, the prompts of plain agents restricted to what
`Consent` allows. The line an agent reads does not say which prompt it
answers, and the agent takes it for its oldest. `FlightInv` is why that is right for a plain agent: a
decision is at one place on its way (`OnePlace`: in a call, in the channel, or on a stdin), and what is on
its way to a plain agent that lives - it may be lost with the connection and is never changed - is about the only prompt it waits for (`FlightAwaited`,
`OpenAwaited`), which it has not gone on with yet (`WaitsUntaken`). A read is then the step of `Consent`
that takes what was decided, a click the one that decides, and everything between them a stutter.

**TapProxy_proof.** Assumption: `TapAssumption`. Theorems: `TypeCorrect`, `Reported` (`ReportedOnce`),
`RecordTrue` (`RecordIsAnswer`) and `RoutedRight` (`RoutedToOwner`). A body that ends makes its record and
its drop makes it again if it still has the context, so `IInv` says for every await of an exchange what
its body and its context are (`InStage`), that what was captured is what was given up to the cap (`Captures`),
and that an exchange has a record exactly when it was answered and nothing of it is left to make one
(`RecordedOnes`), of its own (`AllMatch`) and only one (`OneEach`). Routing keeps more than `RoutedToOwner`: the host is what `HostOf` gives (`Owned`), from
which it follows that the host is the provider's own where there is one. That the provider chosen owns the model
is about the first one of a list that does: there is a first one, because finite sets of numbers are well
founded.

**RemoteHome_proof.** Assumption: `RemoteHomeAssumption`. Theorems: `TypeCorrect`, `RunsAlone` (`RunsWhole`)
and `Trusted` (`TrustedAlone`). Only a client that runs loads an authority (`LoadingRuns`), without which a
step of another client would not keep the types. `Progress` follows an attempt that overlaps nothing
through its upload: the temporary file holds the chunks written so far, and the agent is whole from
the rename on. `CaInv` says of loads that overlapped nothing that one runs at a time and that the
certificate and the key on disk agree whenever both are there to be used.

**OtaCache_proof.** Assumption: `OtaAssumption`. Theorems: `TypeCorrect`, `Installs` (`PassInstalls`) and
`Restored` (`RestartRestored`). `OneProcess` keeps the loader and the parts of the application apart,
`TarballListed` and `LoaderSynced` say what of the manifest has been dealt with at each step of a pass,
and `ManifestKept` that the manifest of the cache is not older than the executable once a start has
compared them, or while sessions are owed: the comparison is why a start does not clear the flag that
`OwedFlagged` finds set.

**SseTranslate_proof.** Assumption: `SseAssumption`. Theorems: `TypeCorrect`, `MessageWellFormed`
(`WellFormed`), `Reported` (`ReportedIsSent`), and of `ToolLoop` `Streamed` (`StreamedAsWhole`) and `History`
(`HistoryReturns`), for any set of habits, any arrays of calls, any number of chunks and any `Parses`. The events of a chunk are *quiet*, or quiet ones followed by `message_stop`, and the second exactly
when the translator becomes finished (`PushOutcome`, `FinishOutcome`), after which it emits nothing; `Stopped` is
the invariant. `Captured` says that while the body is polled the captured part is the beginning of what was
sent, and that once the end has been added without a look at the cap, cutting it gives the same
(`CapturedSoFar`, `CapturedAtEnd`). `KeptInv` is about fragments: what is collected from the events of a chunk
is what the chunk gives (`PushCarries`), and collecting goes over concatenation and over `FlattenSeq`
(`CollectConcat`, `CollectFlatten`); with `Path`, which tells from the state what the provider has said,
a finished translator is one that has nothing left to translate. `PlainInv` is about blocks: while the
reply is plain, the events sent are a message whose blocks are open (`Open`: one start for each index that
was announced, every delta after the start of its block) or closed (`Closed`: one stop for each start, after
its deltas). The proof is why `Habits` has "an index twice in one array": without it `IndexUnique`
does not follow for any arrays of calls. What `FlattenSeq` builds is reasoned about by induction along an
interval (`IntervalInduction`), by a least counterexample.

Its last part is about whole turns. Three habits make a message that a whole reply cannot be: text among
calls, calls after text, and an index twice in an array (`Mixing`). Without them the blocks of the message
follow from the state of the translator (`ShapedInv`, checked with TLC before it was proved): one block
of text, or one of a call for each announced index, each of them started once, and no delta of another
kind (`Filled`). This is weaker than `PlainInv`, which knows nothing of a reply whose calls come in several
chunks, and it is what `Unmixed` leaves. The agent's blocks are then as many as there are starts
(`AssembledPlaces`), their contents what the provider gave under each index (`ArgumentsArrive`,
`TextArrives`, from `KeptInv`), and their order that of the indices, because a set of numbers has one rising list
(`RisingUnique`, `CallsSorted`). So the message has one of two forms (`ReplyForms`), and the two
translations of each are computed and compared (`TextWhole`, `CallsWhole`, `TextReturns`, `CallsReturn`).
That the reasons agree needs that only the first finish is told the agent (`ReasonInv`).
A selection from a sequence is the list of its places, which serves every sequence of that length
(`ChosenPlaces`); the model selects with `FlattenSeq` (`Filtered`) for that reason.

Every safety property of a passing run is the statement of a theorem. Only model-checked is what is under
fairness (`WriterStops`, `ExitIsNoticed`, `DeadIsRetried`, `SpawnAnswered`, `DecisionsArrive`, `Heals`, `CacheHeals` and the fairness in
`ChannelSpec`), because the prover has no rules for it, and the run that shows a violation.

## 5. Not modelled

* MessagePack, JSON, certificates, SSH, HTTP clients: libraries; the models have their outcomes.
* Commands for files, settings, models, logs and the database: one read or write each, no state between calls.
* `codeChangeStore` and its editor: `initCodeChangeListeners` is never called, so the store stays empty.
* The other frontend stores: copies of what the desktop reports, for display, changed by one event loop.
* Two loaders at once, a loader beside a running application, and two applications over one cache.
* In the proxy: headers, leaf certificates, and the split of bytes into lines before translation.
* Rendering, shared TypeScript declarations, test programs and scripts.
* Byte widths: only the pending counter of `FlowControl` wraps; sequence numbers are 64 bits and do not in
  the life of a session.

## 6. Plan

1. `SessionService`: `SessionDemux` composed with `Connection` and the host side of `AgentHost`, as an
   implementation of an abstract session service (a session is starting, running or ended; its output is a
   prefix of what it said) while its transport lives.
2. `drain_lines` and `LineDiff`: pure functions against reference definitions over bounded inputs.
3. `TerminalBuffer`: the 500 events a terminal replays, with sessions that come and go.
4. Proofs: that a spawn of `SessionDemux` is answered once; action properties of the maps of
   `Connection`; `FifoChannel` for the frames that come after a foreign one, on the side of the host.
