-------------------------- MODULE Connection_proof --------------------------
(***************************************************************************)
(* What module Connection promises of the shared maps, proved for any      *)
(* number of transports. The invariant is IInv: what each task still holds *)
(* of the transports that came before.                                     *)
(***************************************************************************)
EXTENDS Connection, TLAPS

\* The monitors are started when connect returns, and not before.
StartedByConnect ==
    /\ monitor.at # "off" <=> command.at = "returned"
    /\ perf.at # "off" <=> command.at = "returned"

Used(t) == t \in Transport /\ actor[t] # "unused"

\* Whoever holds a transport holds one that was bootstrapped, and a bootstrap
\* is never of a transport that was: a flag that is cleared stays cleared.
HeldAreUsed ==
    /\ command.at \in Starting => Used(command.new)
    /\ monitor.at \in Starting => Used(monitor.new)
    /\ monitor.at \in {"checking", "reconnecting", "insert"} => Used(monitor.seen)
    /\ perf.at = "sampling" => perf.of \in Transport
    /\ stored # None => Used(stored)

\* A transport whose flag is cleared has no actor.
FlagOfActor == \A t \in Transport : actor[t] = "running" => connected[t]

\* From the check to the insert, what is stored is what was found dead.
FoundDead ==
    /\ monitor.at \in {"checking", "reconnecting", "insert"} => stored \in {None, monitor.seen}
    /\ monitor.at \in {"reconnecting", "insert"} => ~connected[monitor.seen]

\* A performance monitor that goes on has failures left.
PerfBudget == perf.at # "exited" => perf.errors < MaxSampleErrors

IInv ==
    /\ TypeOK
    /\ PerfBudget
    /\ StartedByConnect
    /\ HeldAreUsed
    /\ FlagOfActor
    /\ FoundDead
    /\ StoredIsWatched
    /\ StoredHasRelay

-----------------------------------------------------------------------------
\* At the start nothing is stored and no task holds a transport.
LEMMA InitIInv == Init => IInv
BY TransportAssumption, ErrorsAssumption DEF Init, IInv, TypeOK, StartedByConnect, HeldAreUsed,
     FlagOfActor, FoundDead, PerfBudget, StoredIsWatched, StoredHasRelay, Starting

\* Each step of a task, an actor or a relay keeps the invariant.
LEMMA StepIInv == IInv /\ [Next]_vars => IInv'
<1>. SUFFICES ASSUME IInv, [Next]_vars PROVE IInv'
  OBVIOUS
<1>. USE TransportAssumption, ErrorsAssumption
<1>0. CASE UNCHANGED vars
  BY <1>0 DEF vars, IInv, TypeOK, StartedByConnect, HeldAreUsed, Used, FlagOfActor, FoundDead,
       PerfBudget, StoredIsWatched, StoredHasRelay
<1>1. ASSUME NEW t \in Transport, ActorEnds(t) PROVE IInv'
  <2>1. TypeOK'
    BY <1>1 DEF ActorEnds, IInv, TypeOK
  <2>2. (StartedByConnect /\ PerfBudget /\ HeldAreUsed)'
    BY <1>1 DEF ActorEnds, IInv, StartedByConnect, HeldAreUsed, Used, PerfBudget
  <2>3. (FlagOfActor /\ FoundDead)'
    BY <1>1 DEF ActorEnds, IInv, TypeOK, FlagOfActor, FoundDead
  <2>4. (StoredIsWatched /\ StoredHasRelay)'
    BY <1>1 DEF ActorEnds, IInv, StoredIsWatched, StoredHasRelay
  <2>. QED BY <2>1, <2>2, <2>3, <2>4 DEF IInv
<1>2. ASSUME NEW t \in Transport, ActorReturns(t) PROVE IInv'
  <2>1. TypeOK'
    BY <1>2 DEF ActorReturns, IInv, TypeOK
  <2>2. (StartedByConnect /\ PerfBudget /\ HeldAreUsed)'
    BY <1>2 DEF ActorReturns, IInv, StartedByConnect, HeldAreUsed, Used, PerfBudget
  <2>3. (FlagOfActor /\ FoundDead)'
    BY <1>2 DEF ActorReturns, IInv, FlagOfActor, FoundDead
  <2>4. (StoredIsWatched /\ StoredHasRelay)'
    BY <1>2 DEF ActorReturns, IInv, StoredIsWatched, StoredHasRelay
  <2>. QED BY <2>1, <2>2, <2>3, <2>4 DEF IInv
<1>3. ASSUME NEW t \in Transport, RelayPolls(t) PROVE IInv'
  <2>1. TypeOK'
    BY <1>3 DEF RelayPolls, IInv, TypeOK
  <2>2. (StartedByConnect /\ PerfBudget /\ HeldAreUsed)'
    BY <1>3 DEF RelayPolls, IInv, StartedByConnect, HeldAreUsed, Used, PerfBudget
  <2>3. (FlagOfActor /\ FoundDead)'
    BY <1>3 DEF RelayPolls, IInv, FlagOfActor, FoundDead
  <2>4. (StoredIsWatched /\ StoredHasRelay)'
    BY <1>3 DEF RelayPolls, IInv, StoredIsWatched, StoredHasRelay
  <2>. QED BY <2>1, <2>2, <2>3, <2>4 DEF IInv
<1>4. ASSUME NEW t \in Transport, RelayPanics(t) PROVE IInv'
  <2>1. TypeOK'
    BY <1>4 DEF RelayPanics, IInv, TypeOK
  <2>2. (StartedByConnect /\ PerfBudget /\ HeldAreUsed)'
    BY <1>4 DEF RelayPanics, IInv, StartedByConnect, HeldAreUsed, Used, PerfBudget
  <2>3. (FlagOfActor /\ FoundDead)'
    BY <1>4 DEF RelayPanics, IInv, FlagOfActor, FoundDead
  <2>4. (StoredIsWatched /\ StoredHasRelay)'
    BY <1>4 DEF RelayPanics, IInv, StoredIsWatched, StoredHasRelay
  <2>. QED BY <2>1, <2>2, <2>3, <2>4 DEF IInv
<1>5. CASE Connect
  <2>1. TypeOK'
    BY <1>5 DEF Connect, IInv, TypeOK
  <2>2. (StartedByConnect /\ PerfBudget /\ HeldAreUsed)'
    BY <1>5 DEF Connect, IInv, StartedByConnect, HeldAreUsed, PerfBudget, StoredIsWatched, Starting
  <2>3. (FlagOfActor /\ FoundDead)'
    BY <1>5 DEF Connect, IInv, FlagOfActor, FoundDead
  <2>4. (StoredIsWatched /\ StoredHasRelay)'
    BY <1>5 DEF Connect, IInv, StoredIsWatched, StoredHasRelay
  <2>. QED BY <2>1, <2>2, <2>3, <2>4 DEF IInv
<1>6. CASE ConnectFails
  <2>1. TypeOK'
    BY <1>6 DEF ConnectFails, IInv, TypeOK
  <2>2. (StartedByConnect /\ PerfBudget /\ HeldAreUsed)'
    BY <1>6 DEF ConnectFails, IInv, StartedByConnect, HeldAreUsed, PerfBudget,
         StoredIsWatched, Starting
  <2>3. (FlagOfActor /\ FoundDead)'
    BY <1>6 DEF ConnectFails, IInv, FlagOfActor, FoundDead
  <2>4. (StoredIsWatched /\ StoredHasRelay)'
    BY <1>6 DEF ConnectFails, IInv, StoredIsWatched, StoredHasRelay
  <2>. QED BY <2>1, <2>2, <2>3, <2>4 DEF IInv
<1>7. CASE ConnectInserts
  <2>1. TypeOK'
    BY <1>7 DEF ConnectInserts, IInv, TypeOK, Starting
  <2>2. (StartedByConnect /\ PerfBudget /\ HeldAreUsed)'
    BY <1>7 DEF ConnectInserts, IInv, StartedByConnect, HeldAreUsed, Used, PerfBudget, Starting
  <2>3. (FlagOfActor /\ FoundDead)'
    BY <1>7 DEF ConnectInserts, IInv, StartedByConnect, FlagOfActor, FoundDead
  <2>4. (StoredIsWatched /\ StoredHasRelay)'
    BY <1>7 DEF ConnectInserts, IInv, StartedByConnect, StoredIsWatched, StoredHasRelay
  <2>. QED BY <2>1, <2>2, <2>3, <2>4 DEF IInv
<1>8. CASE ConnectInsertsSsh
  <2>1. TypeOK'
    BY <1>8 DEF ConnectInsertsSsh, IInv, TypeOK, Starting
  <2>2. (StartedByConnect /\ PerfBudget /\ HeldAreUsed)'
    BY <1>8 DEF ConnectInsertsSsh, IInv, StartedByConnect, HeldAreUsed, Used, PerfBudget, Starting
  <2>3. (FlagOfActor /\ FoundDead)'
    BY <1>8 DEF ConnectInsertsSsh, IInv, FlagOfActor, FoundDead
  <2>4. (StoredIsWatched /\ StoredHasRelay)'
    BY <1>8 DEF ConnectInsertsSsh, IInv, StoredIsWatched, StoredHasRelay
  <2>. QED BY <2>1, <2>2, <2>3, <2>4 DEF IInv
<1>9. CASE ConnectReturns
  <2>1. TypeOK'
    BY <1>9 DEF ConnectReturns, IInv, HeldAreUsed, Used, TypeOK
  <2>2. (StartedByConnect /\ PerfBudget /\ HeldAreUsed)'
    <3>1. monitor'.at = "sleeping" /\ perf'.at = "waiting" /\ command'.at = "returned"
      BY <1>9 DEF ConnectReturns
    <3>2. perf'.errors = perf.errors /\ perf.at = "off"
      BY <1>9 DEF ConnectReturns, IInv, StartedByConnect
    <3>. QED BY <1>9, <3>1, <3>2 DEF ConnectReturns, IInv, StartedByConnect, HeldAreUsed,
         Used, PerfBudget, Starting
  <2>3. (FlagOfActor /\ FoundDead)'
    BY <1>9 DEF ConnectReturns, IInv, FlagOfActor, FoundDead
  <2>4. (StoredIsWatched /\ StoredHasRelay)'
    BY <1>9 DEF ConnectReturns, IInv, StartedByConnect, StoredIsWatched, StoredHasRelay
  <2>. QED BY <2>1, <2>2, <2>3, <2>4 DEF IInv
<1>10. ASSUME NEW t \in Transport, ConnectSucceeds(t) PROVE IInv'
  <2>1. TypeOK'
    BY <1>10 DEF ConnectSucceeds, Bootstrap, IInv, TypeOK, Starting
  <2>2. (StartedByConnect /\ PerfBudget /\ HeldAreUsed)'
    BY <1>10 DEF ConnectSucceeds, Bootstrap, IInv, TypeOK, StartedByConnect, HeldAreUsed,
         Used, PerfBudget
  <2>3. (FlagOfActor /\ FoundDead)'
    BY <1>10 DEF ConnectSucceeds, Bootstrap, IInv, TypeOK, HeldAreUsed, Used, FlagOfActor, FoundDead
  <2>4. (StoredIsWatched /\ StoredHasRelay)'
    BY <1>10 DEF ConnectSucceeds, IInv, StoredIsWatched, StoredHasRelay
  <2>. QED BY <2>1, <2>2, <2>3, <2>4 DEF IInv
<1>11. CASE Disconnect
  <2>1. TypeOK'
    BY <1>11 DEF Disconnect, IInv, TypeOK
  <2>2. (StartedByConnect /\ PerfBudget /\ HeldAreUsed)'
    BY <1>11 DEF Disconnect, IInv, StartedByConnect, HeldAreUsed, Used, PerfBudget
  <2>3. (FlagOfActor /\ FoundDead)'
    BY <1>11 DEF Disconnect, IInv, FlagOfActor, FoundDead
  <2>4. (StoredIsWatched /\ StoredHasRelay)'
    BY <1>11 DEF Disconnect, StoredIsWatched, StoredHasRelay
  <2>. QED BY <2>1, <2>2, <2>3, <2>4 DEF IInv
<1>12. CASE DisconnectSsh
  <2>1. TypeOK'
    BY <1>12 DEF DisconnectSsh, IInv, TypeOK
  <2>2. (StartedByConnect /\ PerfBudget /\ HeldAreUsed)'
    BY <1>12 DEF DisconnectSsh, IInv, StartedByConnect, HeldAreUsed, Used, PerfBudget
  <2>3. (FlagOfActor /\ FoundDead)'
    BY <1>12 DEF DisconnectSsh, IInv, FlagOfActor, FoundDead
  <2>4. (StoredIsWatched /\ StoredHasRelay)'
    BY <1>12 DEF DisconnectSsh, IInv, StoredIsWatched, StoredHasRelay
  <2>. QED BY <2>1, <2>2, <2>3, <2>4 DEF IInv
<1>13. CASE DisconnectRecord
  <2>1. TypeOK'
    BY <1>13 DEF DisconnectRecord, IInv, TypeOK
  <2>2. (StartedByConnect /\ PerfBudget /\ HeldAreUsed)'
    BY <1>13 DEF DisconnectRecord, IInv, StartedByConnect, HeldAreUsed, Used, PerfBudget
  <2>3. (FlagOfActor /\ FoundDead)'
    BY <1>13 DEF DisconnectRecord, IInv, FlagOfActor, FoundDead
  <2>4. (StoredIsWatched /\ StoredHasRelay)'
    BY <1>13 DEF DisconnectRecord, IInv, StoredIsWatched, StoredHasRelay
  <2>. QED BY <2>1, <2>2, <2>3, <2>4 DEF IInv
<1>14. CASE MonitorLooks
  <2>1. TypeOK'
    <3>1. ASSUME NEW to \in {"exited", "checking"}
          PROVE  [monitor EXCEPT !.seen = stored, !.at = to]
                   \in [at : {"off", "sleeping", "checking", "reconnecting", "reporting", "exited"} \cup Starting,
                       seen : Transport \cup {None}, new : Transport \cup {None}]
      BY DEF IInv, TypeOK
    <3>2. \E to \in {"exited", "checking"} : monitor' = [monitor EXCEPT !.seen = stored, !.at = to]
      BY <1>14 DEF MonitorLooks
    <3>3. monitor' \in [at : {"off", "sleeping", "checking", "reconnecting", "reporting", "exited"} \cup Starting,
                       seen : Transport \cup {None}, new : Transport \cup {None}]
      BY <3>1, <3>2
    <3>. QED BY <1>14, <3>3 DEF MonitorLooks, IInv, TypeOK
  <2>2. (StartedByConnect /\ PerfBudget /\ HeldAreUsed)'
    BY <1>14 DEF MonitorLooks, IInv, StartedByConnect, HeldAreUsed, Used, PerfBudget, Starting
  <2>3. (FlagOfActor /\ FoundDead)'
    BY <1>14 DEF MonitorLooks, IInv, FlagOfActor, FoundDead
  <2>4. (StoredIsWatched /\ StoredHasRelay)'
    BY <1>14 DEF MonitorLooks, IInv, StoredIsWatched, StoredHasRelay
  <2>. QED BY <2>1, <2>2, <2>3, <2>4 DEF IInv
<1>15. CASE MonitorFindsAlive
  <2>1. TypeOK'
    BY <1>15 DEF MonitorFindsAlive, IInv, TypeOK
  <2>2. (StartedByConnect /\ PerfBudget /\ HeldAreUsed)'
    BY <1>15 DEF MonitorFindsAlive, IInv, StartedByConnect, HeldAreUsed, Used, PerfBudget, Starting
  <2>3. (FlagOfActor /\ FoundDead)'
    BY <1>15 DEF MonitorFindsAlive, IInv, FlagOfActor, FoundDead
  <2>4. (StoredIsWatched /\ StoredHasRelay)'
    BY <1>15 DEF MonitorFindsAlive, IInv, StoredIsWatched, StoredHasRelay
  <2>. QED BY <2>1, <2>2, <2>3, <2>4 DEF IInv
<1>16. CASE MonitorFindsDead
  <2>1. TypeOK'
    BY <1>16 DEF MonitorFindsDead, Report, IInv, TypeOK
  <2>2. (StartedByConnect /\ PerfBudget /\ HeldAreUsed)'
    BY <1>16 DEF MonitorFindsDead, IInv, StartedByConnect, HeldAreUsed, Used, PerfBudget, Starting
  <2>3. (FlagOfActor /\ FoundDead)'
    BY <1>16 DEF MonitorFindsDead, IInv, FlagOfActor, FoundDead
  <2>4. (StoredIsWatched /\ StoredHasRelay)'
    BY <1>16 DEF MonitorFindsDead, IInv, StoredIsWatched, StoredHasRelay
  <2>. QED BY <2>1, <2>2, <2>3, <2>4 DEF IInv
<1>17. CASE ReconnectFails
  <2>1. TypeOK'
    BY <1>17 DEF ReconnectFails, Report, IInv, TypeOK
  <2>2. (StartedByConnect /\ PerfBudget /\ HeldAreUsed)'
    BY <1>17 DEF ReconnectFails, IInv, StartedByConnect, HeldAreUsed, Used, PerfBudget, Starting
  <2>3. (FlagOfActor /\ FoundDead)'
    BY <1>17 DEF ReconnectFails, IInv, FlagOfActor, FoundDead
  <2>4. (StoredIsWatched /\ StoredHasRelay)'
    BY <1>17 DEF ReconnectFails, IInv, StoredIsWatched, StoredHasRelay
  <2>. QED BY <2>1, <2>2, <2>3, <2>4 DEF IInv
<1>18. CASE ReconnectInserts
  <2>1. TypeOK'
    BY <1>18 DEF ReconnectInserts, IInv, TypeOK, Starting
  <2>2. (StartedByConnect /\ PerfBudget /\ HeldAreUsed)'
    BY <1>18 DEF ReconnectInserts, IInv, StartedByConnect, HeldAreUsed, Used, PerfBudget, Starting
  <2>3. (FlagOfActor /\ FoundDead)'
    BY <1>18 DEF ReconnectInserts, IInv, FlagOfActor, FoundDead
  <2>4. (StoredIsWatched /\ StoredHasRelay)'
    BY <1>18 DEF ReconnectInserts, StoredIsWatched, StoredHasRelay
  <2>. QED BY <2>1, <2>2, <2>3, <2>4 DEF IInv
<1>19. CASE ReconnectInsertsSsh
  <2>1. TypeOK'
    BY <1>19 DEF ReconnectInsertsSsh, IInv, TypeOK, Starting
  <2>2. (StartedByConnect /\ PerfBudget /\ HeldAreUsed)'
    BY <1>19 DEF ReconnectInsertsSsh, IInv, StartedByConnect, HeldAreUsed, Used, PerfBudget,
         Starting
  <2>3. (FlagOfActor /\ FoundDead)'
    BY <1>19 DEF ReconnectInsertsSsh, IInv, FlagOfActor, FoundDead
  <2>4. (StoredIsWatched /\ StoredHasRelay)'
    BY <1>19 DEF ReconnectInsertsSsh, IInv, StoredIsWatched, StoredHasRelay
  <2>. QED BY <2>1, <2>2, <2>3, <2>4 DEF IInv
<1>20. CASE ReconnectStartsRelay
  <2>1. TypeOK'
    BY <1>20 DEF ReconnectStartsRelay, IInv, HeldAreUsed, Used, TypeOK
  <2>2. (StartedByConnect /\ PerfBudget /\ HeldAreUsed)'
    BY <1>20 DEF ReconnectStartsRelay, IInv, StartedByConnect, HeldAreUsed, Used, PerfBudget,
         Starting
  <2>3. (FlagOfActor /\ FoundDead)'
    BY <1>20 DEF ReconnectStartsRelay, IInv, FlagOfActor, FoundDead
  <2>4. (StoredIsWatched /\ StoredHasRelay)'
    BY <1>20 DEF ReconnectStartsRelay, IInv, StoredIsWatched, StoredHasRelay
  <2>. QED BY <2>1, <2>2, <2>3, <2>4 DEF IInv
<1>21. CASE ReconnectReports
  <2>1. TypeOK'
    BY <1>21 DEF ReconnectReports, Report, IInv, TypeOK
  <2>2. (StartedByConnect /\ PerfBudget /\ HeldAreUsed)'
    BY <1>21 DEF ReconnectReports, IInv, StartedByConnect, HeldAreUsed, Used, PerfBudget, Starting
  <2>3. (FlagOfActor /\ FoundDead)'
    BY <1>21 DEF ReconnectReports, IInv, FlagOfActor, FoundDead
  <2>4. (StoredIsWatched /\ StoredHasRelay)'
    BY <1>21 DEF ReconnectReports, IInv, StoredIsWatched, StoredHasRelay
  <2>. QED BY <2>1, <2>2, <2>3, <2>4 DEF IInv
<1>22. ASSUME NEW t \in Transport, ReconnectSucceeds(t) PROVE IInv'
  <2>1. TypeOK'
    <3>1. monitor' \in [at : {"off", "sleeping", "checking", "reconnecting", "reporting", "exited"} \cup Starting,
                       seen : Transport \cup {None}, new : Transport \cup {None}]
      BY <1>22 DEF ReconnectSucceeds, IInv, TypeOK, Starting
    <3>2. /\ actor' \in [Transport -> {"unused", "running", "ended", "returned"}]
          /\ connected' \in [Transport -> BOOLEAN]
      BY <1>22 DEF ReconnectSucceeds, Bootstrap, IInv, TypeOK
    <3>. QED BY <1>22, <3>1, <3>2 DEF ReconnectSucceeds, IInv, TypeOK
  <2>2. (StartedByConnect /\ PerfBudget /\ HeldAreUsed)'
    BY <1>22 DEF ReconnectSucceeds, Bootstrap, IInv, TypeOK, StartedByConnect, HeldAreUsed,
         Used, PerfBudget
  <2>3. (FlagOfActor /\ FoundDead)'
    BY <1>22 DEF ReconnectSucceeds, Bootstrap, IInv, TypeOK, HeldAreUsed, Used, FlagOfActor,
         FoundDead
  <2>4. (StoredIsWatched /\ StoredHasRelay)'
    BY <1>22 DEF ReconnectSucceeds, IInv, StoredIsWatched, StoredHasRelay
  <2>. QED BY <2>1, <2>2, <2>3, <2>4 DEF IInv
<1>23. CASE PerfLooks
  <2>1. TypeOK'
    <3>1. perf' \in [at : {"off", "waiting", "sampling", "exited"}, of : Transport \cup {None},
                   errors : 0..MaxSampleErrors]
      <4>1. CASE ssh = None
        BY <1>23, <4>1 DEF PerfLooks, IInv, TypeOK
      <4>2. CASE ssh # None
        BY <1>23, <4>2 DEF PerfLooks, IInv, TypeOK
      <4>. QED BY <4>1, <4>2
    <3>. QED BY <1>23, <3>1 DEF PerfLooks, IInv, TypeOK
  <2>2. (StartedByConnect /\ PerfBudget /\ HeldAreUsed)'
    BY <1>23 DEF PerfLooks, IInv, TypeOK, StartedByConnect, HeldAreUsed, Used, PerfBudget
  <2>3. (FlagOfActor /\ FoundDead)'
    BY <1>23 DEF PerfLooks, IInv, FlagOfActor, FoundDead
  <2>4. (StoredIsWatched /\ StoredHasRelay)'
    BY <1>23 DEF PerfLooks, IInv, StoredIsWatched, StoredHasRelay
  <2>. QED BY <2>1, <2>2, <2>3, <2>4 DEF IInv
<1>24. CASE PerfSamples
  <2>1. TypeOK'
    <3>1. perf' \in [at : {"off", "waiting", "sampling", "exited"}, of : Transport \cup {None},
                   errors : 0..MaxSampleErrors]
      <4>1. 0 \in 0..MaxSampleErrors
        OBVIOUS
      <4>. QED BY <1>24, <4>1 DEF PerfSamples, IInv, TypeOK
    <3>. QED BY <1>24, <3>1 DEF PerfSamples, IInv, TypeOK
  <2>2. (StartedByConnect /\ PerfBudget /\ HeldAreUsed)'
    BY <1>24 DEF PerfSamples, IInv, StartedByConnect, HeldAreUsed, Used, PerfBudget
  <2>3. (FlagOfActor /\ FoundDead)'
    BY <1>24 DEF PerfSamples, IInv, FlagOfActor, FoundDead
  <2>4. (StoredIsWatched /\ StoredHasRelay)'
    BY <1>24 DEF PerfSamples, IInv, StoredIsWatched, StoredHasRelay
  <2>. QED BY <2>1, <2>2, <2>3, <2>4 DEF IInv
<1>25. CASE PerfSampleFails
  <2>1. TypeOK'
    <3>1. perf' \in [at : {"off", "waiting", "sampling", "exited"}, of : Transport \cup {None},
                   errors : 0..MaxSampleErrors]
      <4>1. perf.errors + 1 \in 0..MaxSampleErrors
        BY <1>25 DEF PerfSampleFails, IInv, TypeOK, PerfBudget
      <4>2. ASSUME NEW n \in 0..MaxSampleErrors, NEW to \in {"waiting", "exited"}
            PROVE  [perf EXCEPT !.errors = n, !.at = to]
                     \in [at : {"off", "waiting", "sampling", "exited"}, of : Transport \cup {None},
                         errors : 0..MaxSampleErrors]
        BY DEF IInv, TypeOK
      <4>3. \E to \in {"waiting", "exited"} : perf' = [perf EXCEPT !.errors = perf.errors + 1, !.at = to]
        BY <1>25 DEF PerfSampleFails
      <4>. QED BY <4>1, <4>2, <4>3
    <3>. QED BY <1>25, <3>1 DEF PerfSampleFails, IInv, TypeOK
  <2>2. (StartedByConnect /\ PerfBudget /\ HeldAreUsed)'
    BY <1>25 DEF PerfSampleFails, IInv, TypeOK, StartedByConnect, HeldAreUsed, Used, PerfBudget
  <2>3. (FlagOfActor /\ FoundDead)'
    BY <1>25 DEF PerfSampleFails, IInv, FlagOfActor, FoundDead
  <2>4. (StoredIsWatched /\ StoredHasRelay)'
    BY <1>25 DEF PerfSampleFails, IInv, StoredIsWatched, StoredHasRelay
  <2>. QED BY <2>1, <2>2, <2>3, <2>4 DEF IInv
<1>. QED BY <1>0, <1>1, <1>2, <1>3, <1>4, <1>5, <1>6, <1>7, <1>8, <1>9, <1>10, <1>11, <1>12,
     <1>13, <1>14, <1>15, <1>16, <1>17, <1>18, <1>19, <1>20, <1>21, <1>22, <1>23, <1>24, <1>25 DEF
     Next, ConnectCommand, DisconnectCommand, Monitor, Perf
-----------------------------------------------------------------------------
\* The invariant holds of every behaviour of connect, disconnect and the monitors.
THEOREM Invariant == Spec => []IInv
BY InitIInv, StepIInv, PTL DEF Spec

\* The state has its type, for any number of transports: a flag, a relay or a map
\* entry never belongs to a transport that was not made.
THEOREM TypeCorrect == Spec => []TypeOK
BY Invariant, PTL DEF IInv

\* What commands can find in connection_transports is watched: between connect,
\* disconnect and a reconnect no order of the map operations leaves it alone.
THEOREM Watched == Spec => []StoredIsWatched
BY Invariant, PTL DEF IInv

\* What commands can find was given a relay, or is about to be by who inserted it.
THEOREM Relayed == Spec => []StoredHasRelay
BY Invariant, PTL DEF IInv

\* An insert over a transport is over one that is dead, although the check was made
\* before the bootstrap: no other task inserts while the monitor reconnects, and a
\* cleared flag is never set again. The step:
LEMMA StepReplaces ==
    IInv /\ [Next]_vars =>
        [stored' # stored /\ stored # None /\ stored' # None =>
            ~connected[stored] /\ actor[stored] # "running"]_vars
<1>. SUFFICES ASSUME IInv, Next, stored' # stored, stored # None, stored' # None
              PROVE  ~connected[stored] /\ actor[stored] # "running"
  OBVIOUS
<1>1. ConnectInserts \/ ReconnectInserts
  BY DEF Next, ConnectCommand, Connect, ConnectFails, ConnectInsertsSsh, ConnectReturns,
       ConnectSucceeds, DisconnectCommand, Disconnect, DisconnectSsh, DisconnectRecord, Monitor,
       MonitorLooks, MonitorFindsAlive, MonitorFindsDead, ReconnectFails, ReconnectInsertsSsh,
       ReconnectStartsRelay, ReconnectReports, ReconnectSucceeds, Perf, PerfLooks, PerfSamples,
       PerfSampleFails, ActorEnds, ActorReturns, RelayPolls, RelayPanics
<1>2. ~ConnectInserts
  BY DEF ConnectInserts, IInv, StartedByConnect, StoredIsWatched
<1>3. ASSUME ReconnectInserts PROVE ~connected[stored] /\ stored \in Transport
  BY <1>3 DEF ReconnectInserts, IInv, FoundDead, HeldAreUsed, Used
<1>. QED BY <1>1, <1>2, <1>3 DEF IInv, FlagOfActor

\* A reconnect replaces dead transports only, although it bootstraps between its
\* check and its insert.
THEOREM DeadReplaced == Spec => ReplacesDeadOnly
<1>1. IInv /\ [Next]_vars =>
        [stored' # stored /\ stored # None /\ stored' # None =>
            ~connected[stored] /\ actor[stored] # "running"]_vars
  BY StepReplaces
<1>. QED BY <1>1, Invariant, PTL DEF Spec, ReplacesDeadOnly
=============================================================================
