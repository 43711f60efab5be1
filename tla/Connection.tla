---------------------------- MODULE Connection -----------------------------
(***************************************************************************)
(* The life of one SSH connection of the desktop: the connect and          *)
(* disconnect commands and the health monitor (commands/connection.rs),    *)
(* the performance monitor (connection/perf.rs), and what each of them     *)
(* leaves in the shared maps of AppState.                                  *)
(*                                                                         *)
(* Connection ids are fresh UUIDs, so connections share nothing and one is *)
(* enough. Every successful bootstrap makes a new transport with an actor  *)
(* task of its own (transport/ssh_channel.rs) and a new SSH session; one   *)
(* identity stands for both. The commands, the monitors and the actors run *)
(* on a multi-threaded runtime: between two map operations anything else   *)
(* may run.                                                                *)
(***************************************************************************)
EXTENDS Naturals

CONSTANTS
    Transport,          \* bound: transports that are ever made
    None,
    MaxSampleErrors     \* failed samples that end the performance monitor

ASSUME TransportAssumption == None \notin Transport
ASSUME ErrorsAssumption == MaxSampleErrors \in Nat \ {0}

VARIABLES
    command,    \* the connect command
    leaving,    \* how far the disconnect command is
    status,     \* ConnectionManager.connections: the entry's status, or absent
    stored,     \* AppState.connection_transports
    ssh,        \* AppState.ssh_sessions
    actor,      \* the actor task of a transport
    connected,  \* SshChannelTransport.connected
    relay,      \* the transports a connection_demux_relay was started for
    panicked,   \* those whose relay has panicked since
    monitor,    \* health_monitor
    perf        \* run_perf_monitor

vars == <<command, leaving, status, stored, ssh, actor, connected, relay, panicked, monitor, perf>>

Starting == {"insert", "insertSsh", "start"}

\* What the three maps, the tasks and the actors of a connection can be.
TypeOK ==
    /\ command \in [at : {"idle", "bootstrapping", "returned", "failed"} \cup Starting,
                    new : Transport \cup {None}]
    /\ leaving \in {"no", "ssh", "record", "done"}
    /\ status \in {"absent", "Disconnected", "Reconnecting", "Connected"}
    /\ stored \in Transport \cup {None}
    /\ ssh \in Transport \cup {None}
    /\ actor \in [Transport -> {"unused", "running", "ended", "returned"}]
    /\ connected \in [Transport -> BOOLEAN]
    /\ panicked \subseteq relay /\ relay \subseteq Transport
    /\ monitor \in [at : {"off", "sleeping", "checking", "reconnecting", "reporting", "exited"} \cup Starting,
                    seen : Transport \cup {None}, new : Transport \cup {None}]
    /\ perf \in [at : {"off", "waiting", "sampling", "exited"}, of : Transport \cup {None},
                 errors : 0..MaxSampleErrors]

Init ==
    /\ command = [at |-> "idle", new |-> None]
    /\ leaving = "no"
    /\ status = "absent"
    /\ stored = None
    /\ ssh = None
    /\ actor = [t \in Transport |-> "unused"]
    /\ connected = [t \in Transport |-> FALSE]
    /\ relay = {}
    /\ panicked = {}
    /\ monitor = [at |-> "off", seen |-> None, new |-> None]
    /\ perf = [at |-> "off", of |-> None, errors |-> 0]

-----------------------------------------------------------------------------
(* A transport and its actor *)

\* run_bootstrap: SshChannelTransport::new, with its actor task.
Bootstrap(t) ==
    /\ actor[t] = "unused"
    /\ actor' = [actor EXCEPT ![t] = "running"]
    /\ connected' = [connected EXCEPT ![t] = TRUE]

\* The channel ends or a write fails: the loop breaks and clears the flag.
ActorEnds(t) ==
    /\ actor[t] = "running"
    /\ actor' = [actor EXCEPT ![t] = "ended"]
    /\ connected' = [connected EXCEPT ![t] = FALSE]
    /\ UNCHANGED <<command, leaving, status, stored, ssh, relay, panicked, monitor, perf>>

\* A frame cannot be decoded, or nobody receives any more: the task returns past
\* the line that clears the flag.
ActorReturns(t) ==
    /\ actor[t] = "running"
    /\ actor' = [actor EXCEPT ![t] = "returned"]
    /\ UNCHANGED <<command, leaving, status, stored, ssh, connected, relay, panicked, monitor, perf>>

RelayPollsOnly(t) ==
    /\ t \in relay \ panicked /\ actor[t] = "returned"
    /\ UNCHANGED vars

\* recv finds its channel disconnected, clears the flag and returns Ok(None):
\* connection_demux_relay sleeps and polls again, for ever.
RelayPolls(t) ==
    /\ t \in relay \ panicked /\ actor[t] \in {"returned", "ended"}
    /\ connected' = [connected EXCEPT ![t] = FALSE]
    /\ UNCHANGED <<command, leaving, status, stored, ssh, actor, relay, panicked, monitor, perf>>

\* The scan for diffs panics on output of some session: the task is gone and
\* nothing else notices.
RelayPanics(t) ==
    /\ t \in relay \ panicked
    /\ panicked' = panicked \cup {t}
    /\ UNCHANGED <<command, leaving, status, stored, ssh, actor, connected, relay, monitor, perf>>

-----------------------------------------------------------------------------
(* connect *)

Connect ==
    /\ command.at = "idle"
    /\ command' = [command EXCEPT !.at = "bootstrapping"]
    /\ status' = "Disconnected"
    /\ UNCHANGED <<leaving, stored, ssh, actor, connected, relay, panicked, monitor, perf>>

\* ssh::connect or run_bootstrap fails; the record stays.
ConnectFails ==
    /\ command.at = "bootstrapping"
    /\ command' = [command EXCEPT !.at = "failed"]
    /\ UNCHANGED <<leaving, status, stored, ssh, actor, connected, relay, panicked, monitor, perf>>

ConnectSucceeds(t) ==
    /\ command.at = "bootstrapping"
    /\ Bootstrap(t)
    /\ command' = [at |-> "insert", new |-> t]
    /\ UNCHANGED <<leaving, status, stored, ssh, relay, panicked, monitor, perf>>

ConnectInserts ==
    /\ command.at = "insert"
    /\ stored' = command.new
    /\ command' = [command EXCEPT !.at = "insertSsh"]
    /\ UNCHANGED <<leaving, status, ssh, actor, connected, relay, panicked, monitor, perf>>

ConnectInsertsSsh ==
    /\ command.at = "insertSsh"
    /\ ssh' = command.new
    /\ command' = [command EXCEPT !.at = "start"]
    /\ UNCHANGED <<leaving, status, stored, actor, connected, relay, panicked, monitor, perf>>

\* Three tokio::spawn, then the answer "connected" (the record says Disconnected).
ConnectReturns ==
    /\ command.at = "start"
    /\ relay' = relay \cup {command.new}
    /\ monitor' = [monitor EXCEPT !.at = "sleeping"]
    /\ perf' = [perf EXCEPT !.at = "waiting"]
    /\ command' = [command EXCEPT !.at = "returned"]
    /\ UNCHANGED <<leaving, status, stored, ssh, actor, connected, panicked>>

-----------------------------------------------------------------------------
(* disconnect, of a connection that list_connections shows; it closes nothing *)

Disconnect ==
    /\ leaving = "no"
    /\ status # "absent"
    /\ stored' = None
    /\ leaving' = "ssh"
    /\ UNCHANGED <<command, status, ssh, actor, connected, relay, panicked, monitor, perf>>

DisconnectSsh ==
    /\ leaving = "ssh"
    /\ ssh' = None
    /\ leaving' = "record"
    /\ UNCHANGED <<command, status, stored, actor, connected, relay, panicked, monitor, perf>>

DisconnectRecord ==
    /\ leaving = "record"
    /\ status' = "absent"
    /\ leaving' = "done"
    /\ UNCHANGED <<command, stored, ssh, actor, connected, relay, panicked, monitor, perf>>

-----------------------------------------------------------------------------
(* health_monitor and try_reconnect *)

\* A status is written into the record if connections.get still finds it.
Report(s) == status' = IF status = "absent" THEN "absent" ELSE s

MonitorLooks ==
    /\ monitor.at = "sleeping"
    /\ monitor' = [monitor EXCEPT !.seen = stored, !.at = IF stored = None THEN "exited" ELSE "checking"]
    /\ UNCHANGED <<command, leaving, status, stored, ssh, actor, connected, relay, panicked, perf>>

MonitorFindsAlive ==
    /\ monitor.at = "checking"
    /\ connected[monitor.seen]
    /\ monitor' = [monitor EXCEPT !.at = "sleeping"]
    /\ UNCHANGED <<command, leaving, status, stored, ssh, actor, connected, relay, panicked, perf>>

ReconnectUnchecked ==
    /\ monitor.at = "checking"
    /\ monitor' = [monitor EXCEPT !.at = "reconnecting"]
    /\ Report("Reconnecting")
    /\ UNCHANGED <<command, leaving, stored, ssh, actor, connected, relay, panicked, perf>>

MonitorFindsDead ==
    /\ monitor.at = "checking"
    /\ ~connected[monitor.seen]
    /\ monitor' = [monitor EXCEPT !.at = "reconnecting"]
    /\ Report("Reconnecting")
    /\ UNCHANGED <<command, leaving, stored, ssh, actor, connected, relay, panicked, perf>>

ReconnectFailsForGood ==
    /\ monitor.at = "reconnecting"
    /\ monitor' = [monitor EXCEPT !.at = "exited"]
    /\ Report("Reconnecting")
    /\ UNCHANGED <<command, leaving, stored, ssh, actor, connected, relay, panicked, perf>>

ReconnectFails ==
    /\ monitor.at = "reconnecting"
    /\ monitor' = [monitor EXCEPT !.at = "sleeping"]
    /\ Report("Reconnecting")
    /\ UNCHANGED <<command, leaving, stored, ssh, actor, connected, relay, panicked, perf>>

ReconnectSucceeds(t) ==
    /\ monitor.at = "reconnecting"
    /\ Bootstrap(t)
    /\ monitor' = [monitor EXCEPT !.at = "insert", !.new = t]
    /\ UNCHANGED <<command, leaving, status, stored, ssh, relay, panicked, perf>>

ReconnectInserts ==
    /\ monitor.at = "insert"
    /\ stored' = monitor.new
    /\ monitor' = [monitor EXCEPT !.at = "insertSsh"]
    /\ UNCHANGED <<command, leaving, status, ssh, actor, connected, relay, panicked, perf>>

ReconnectInsertsSsh ==
    /\ monitor.at = "insertSsh"
    /\ ssh' = monitor.new
    /\ monitor' = [monitor EXCEPT !.at = "start"]
    /\ UNCHANGED <<command, leaving, status, stored, actor, connected, relay, panicked, perf>>

ReconnectKeepsRelay ==
    /\ monitor.at = "start"
    /\ monitor' = [monitor EXCEPT !.at = "reporting"]
    /\ UNCHANGED <<command, leaving, status, stored, ssh, actor, connected, relay, panicked, perf>>

ReconnectStartsRelay ==
    /\ monitor.at = "start"
    /\ relay' = relay \cup {monitor.new}
    /\ monitor' = [monitor EXCEPT !.at = "reporting"]
    /\ UNCHANGED <<command, leaving, status, stored, ssh, actor, connected, panicked, perf>>

ReconnectReports ==
    /\ monitor.at = "reporting"
    /\ Report("Connected")
    /\ monitor' = [monitor EXCEPT !.at = "sleeping"]
    /\ UNCHANGED <<command, leaving, stored, ssh, actor, connected, relay, panicked, perf>>

-----------------------------------------------------------------------------
(* run_perf_monitor *)

PerfLooks ==
    /\ perf.at = "waiting"
    /\ perf' = [perf EXCEPT !.of = ssh, !.at = IF ssh = None THEN "exited" ELSE "sampling"]
    /\ UNCHANGED <<command, leaving, status, stored, ssh, actor, connected, relay, panicked, monitor>>

PerfSamples ==
    /\ perf.at = "sampling"
    /\ actor[perf.of] = "running"
    /\ perf' = [perf EXCEPT !.at = "waiting", !.errors = 0]
    /\ UNCHANGED <<command, leaving, status, stored, ssh, actor, connected, relay, panicked, monitor>>

PerfSampleFailsOneMore ==
    /\ perf.at = "sampling"
    /\ perf' = [perf EXCEPT !.errors = @ + 1,
                            !.at = IF perf.errors + 1 > MaxSampleErrors THEN "exited" ELSE "waiting"]
    /\ UNCHANGED <<command, leaving, status, stored, ssh, actor, connected, relay, panicked, monitor>>

PerfSampleFails ==
    /\ perf.at = "sampling"
    /\ perf' = [perf EXCEPT !.errors = @ + 1,
                            !.at = IF perf.errors + 1 >= MaxSampleErrors THEN "exited" ELSE "waiting"]
    /\ UNCHANGED <<command, leaving, status, stored, ssh, actor, connected, relay, panicked, monitor>>

-----------------------------------------------------------------------------
ConnectCommand ==
    \/ Connect \/ ConnectFails \/ ConnectInserts \/ ConnectInsertsSsh \/ ConnectReturns
    \/ \E t \in Transport : ConnectSucceeds(t)

DisconnectCommand == Disconnect \/ DisconnectSsh \/ DisconnectRecord

Monitor ==
    \/ MonitorLooks \/ MonitorFindsAlive \/ MonitorFindsDead
    \/ ReconnectFails \/ ReconnectInserts \/ ReconnectInsertsSsh
    \/ ReconnectStartsRelay \/ ReconnectReports
    \/ \E t \in Transport : ReconnectSucceeds(t)

Perf == PerfLooks \/ PerfSamples \/ PerfSampleFails

Next ==
    \/ ConnectCommand
    \/ DisconnectCommand
    \/ Monitor
    \/ Perf
    \/ \E t \in Transport : ActorEnds(t) \/ ActorReturns(t) \/ RelayPolls(t) \/ RelayPanics(t)

Spec == Init /\ [][Next]_vars

\* Tasks and commands that were started are run; nothing makes a user act, a link
\* break or a bootstrap succeed.
FairSpec ==
    /\ Spec
    /\ WF_vars(ConnectInserts \/ ConnectInsertsSsh \/ ConnectReturns)
    /\ WF_vars(DisconnectSsh \/ DisconnectRecord)
    /\ WF_vars(Monitor)
    /\ WF_vars(Perf)
    /\ \A t \in Transport : WF_vars(RelayPolls(t))

-----------------------------------------------------------------------------
(* Safety *)

\* A transport that commands can find is watched: the health monitor runs, or
\* connect is about to start it. It exits on an empty map only, and only itself
\* fills the map after that.
StoredIsWatched ==
    stored # None =>
        /\ monitor.at # "exited"
        /\ monitor.at = "off" => command.at \in {"insertSsh", "start"}

\* A transport that commands can find was given a relay to consume it, or its relay
\* is about to be started by whoever inserted it: no Ack waits in a queue that was
\* nobody's to read.
StoredHasRelay ==
    stored # None =>
        \/ stored \in relay
        \/ command.at \in {"insertSsh", "start"} /\ command.new = stored
        \/ monitor.at \in {"insertSsh", "start"} /\ monitor.new = stored

\* A reconnect replaces a transport that is dead, and replaces no other: the
\* transport was checked long before, on the other side of a whole bootstrap.
ReplacesDeadOnly ==
    [][stored' # stored /\ stored # None /\ stored' # None =>
        ~connected[stored] /\ actor[stored] # "running"]_vars

-----------------------------------------------------------------------------
(* Liveness *)

\* A dead transport is found out and a reconnect tried, also when its actor
\* returned on a frame it could not decode and left the flag set; only a relay that
\* panicked leaves such an actor undiscovered.
DeadIsRetried ==
    \A t \in Transport :
        (stored = t /\ actor[t] # "running") ~>
            \/ monitor.at = "reconnecting"
            \/ stored # t
            \/ actor[t] = "returned" /\ t \in panicked

-----------------------------------------------------------------------------
(* Said of the program and not kept by it: see README, Disagreements *)

\* "the old one died with the old transport": a connection has one relay.
OldRelayDied == \A t, u \in relay \ panicked : t = u

\* "Exits when the SSH session is removed from AppState (i.e. on disconnect)".
PerfExits == (leaving = "done") ~> (perf.at \in {"off", "exited"})
=============================================================================
