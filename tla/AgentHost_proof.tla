-------------------------- MODULE AgentHost_proof --------------------------
(***************************************************************************)
(* Theorems about AgentHost for every set of sessions and launches, every  *)
(* limit on the registry and every bound.                                  *)
(***************************************************************************)
EXTENDS AgentHost, TLAPS, SequenceTheorems

LEMMA MessageType ==
    ASSUME NEW k \in MsgKinds, NEW s \in Session \cup {NoSession},
           NEW a \in Launch \cup {NoLaunch}, NEW n \in Nat
    PROVE  Message(k, s, a, n) \in Msg
  BY DEF Message, Msg

LEMMA NoReplyType == NoReply \in Msg
  BY MessageType DEF NoReply, MsgKinds

-----------------------------------------------------------------------------
(* What an update of a launch keeps *)

\* A launch's life goes one way: it keeps its session, a started reader stays
\* started, and the reason it ended for stays.
Keeps(p, q) ==
    /\ q \in Pty
    /\ q.session = p.session
    /\ q.reader = "off" <=> p.reader = "off"
    /\ p.state # "Running" \/ p.reader = "off" => q.state = p.state

SameReader(p, q) == q.reader = p.reader /\ q.found = p.found

LEMMA KeepsSelf == \A p \in Pty : Keeps(p, p)
  BY DEF Keeps

LEMMA KeepsTransitive ==
    \A p, q, r : Keeps(p, q) /\ Keeps(q, r) => Keeps(p, r)
  BY DEF Keeps

LEMMA EndKeeps ==
    ASSUME NEW p \in Pty, p.reader # "off", NEW reason \in {"UserClosed", "ProcessExited"}
    PROVE  /\ Keeps(p, Ended(p, reason))
           /\ Ended(p, reason).state # "Running"
           /\ SameReader(p, Ended(p, reason))
  BY DEF SameReader, Ended, End, Keeps, Pty

LEMMA OpKeeps ==
    ASSUME NEW p \in Pty, NEW op \in PtyOp
    PROVE  Keeps(p, AfterOp(p, op)) /\ SameReader(p, AfterOp(p, op))
  BY DEF SameReader, AfterOp, Keeps, Pty

LEMMA CloseKeeps ==
    ASSUME NEW p \in Pty, p.reader # "off"
    PROVE  /\ Keeps(p, AfterClose(p)) /\ AfterClose(p).state # "Running"
           /\ SameReader(p, AfterClose(p))
  <1>1. p.ops \o <<"Shutdown", "Shutdown">> \in Seq(PtyOp)
    BY DEF Pty, PtyOp
  <1>2. End(p.state, "UserClosed") \in {"UserClosed", "ProcessExited"}
        /\ (p.state # "Running" => End(p.state, "UserClosed") = p.state)
    BY DEF End, Pty
  <1> QED BY <1>1, <1>2 DEF AfterClose, SameReader, Keeps, Pty

LEMMA ReadKeeps ==
    ASSUME NEW p \in Pty, NEW n \in Nat, NEW pauses \in BOOLEAN
    PROVE  Keeps(p, AfterRead(p, n, pauses)) /\ SameReader(p, AfterRead(p, n, pauses))
  BY DEF SameReader, AfterRead, Keeps, Pty

LEMMA EofKeeps ==
    ASSUME NEW p \in Pty, p.reader # "off", NEW b \in Launch \cup {NoLaunch}
    PROVE  /\ Keeps(p, AfterEof(p, b))
           /\ AfterEof(p, b).found = b
           /\ AfterEof(p, b).reader = IF b = NoLaunch THEN "done" ELSE "marking"
  BY DEF AfterEof, Keeps, Pty

LEMMA MarkKeeps ==
    ASSUME NEW p \in Pty, p.reader # "off"
    PROVE  Keeps(p, AfterMark(p)) /\ AfterMark(p).reader = "done"
  BY DEF AfterMark, Keeps, Pty

LEMMA WriteKeeps ==
    ASSUME NEW p \in Pty, p.ops # <<>>, NEW stop \in BOOLEAN
    PROVE  Keeps(p, AfterWrite(p, stop)) /\ SameReader(p, AfterWrite(p, stop))
  <1>1. Tail(p.ops) \in Seq(PtyOp)
    BY DEF Pty
  <1> QED BY <1>1 DEF AfterWrite, SameReader, Keeps, Pty

LEMMA ExitKeeps ==
    ASSUME NEW p \in Pty
    PROVE  Keeps(p, Exited(p)) /\ SameReader(p, Exited(p))
  BY DEF SameReader, Exited, Keeps, Pty

LEMMA LaunchedPty ==
    ASSUME NEW s \in Session, NEW tap \in BOOLEAN
    PROVE  /\ Unlaunched \in Pty
           /\ FailedPty(s, tap) \in Pty /\ FailedPty(s, tap).session = s
           /\ FailedPty(s, tap).reader = "off"
           /\ RefusedPty(s, tap) \in Pty /\ RefusedPty(s, tap).session = s
           /\ RefusedPty(s, tap).reader = "off"
           /\ StartedPty(s, tap) \in Pty /\ StartedPty(s, tap).session = s
           /\ StartedPty(s, tap).reader = "reading"
  <1>1. Unlaunched \in Pty /\ Unlaunched.reader = "off"
    BY DEF Unlaunched, Pty
  <1>2. FailedPty(s, tap) \in Pty /\ FailedPty(s, tap).session = s
        /\ FailedPty(s, tap).reader = "off"
    BY <1>1 DEF FailedPty, Pty
  <1>3. RefusedPty(s, tap) \in Pty /\ RefusedPty(s, tap).session = s
        /\ RefusedPty(s, tap).reader = "off"
    BY <1>2 DEF RefusedPty, Pty
  <1>4. StartedPty(s, tap) \in Pty /\ StartedPty(s, tap).session = s
        /\ StartedPty(s, tap).reader = "reading"
    BY <1>3 DEF StartedPty, Pty
  <1> QED BY <1>1, <1>2, <1>3, <1>4

-----------------------------------------------------------------------------
(* The inductive invariant of the registry *)

\* The registry holds launches under their own ids, and only started ones.
RegistryBacked ==
    \A s \in Session : registry[s] # NoLaunch =>
        pty[registry[s]].session = s /\ pty[registry[s]].reader # "off"

\* TypeOK is not inductive: a reader looks up registry[pty[a].session], which
\* is a launch or NoLaunch only because a started reader has a session.
ReadersHaveSession == \A a \in Launch : pty[a].reader # "off" => pty[a].session \in Session

\* A launch whose threads never started is in no state but the first, and what
\* a reader is about to mark is a started launch.
UnstartedRunning == \A a \in Launch : pty[a].reader = "off" => pty[a].state = "Running"
FoundStarted == \A a \in Launch : pty[a].reader = "marking" =>
                    pty[a].found \in Launch /\ pty[pty[a].found].reader # "off"

RegistryInv ==
    /\ TypeOK /\ RegistryBacked /\ ReadersHaveSession
    /\ UnstartedRunning /\ FoundStarted /\ LeftRegistryEnded

\* Steps that launch nothing: every launch keeps its life, and a reader that is
\* about to mark holds a started launch.
MarksStarted(q) == q.reader = "marking" => q.found \in Launch /\ pty[q.found].reader # "off"
PtyKept ==
    /\ pty' \in [Launch -> Pty]
    /\ \A b \in Launch : Keeps(pty[b], pty'[b]) /\ MarksStarted(pty'[b])

LEMMA UnchangedKeeps == ASSUME RegistryInv, UNCHANGED pty PROVE PtyKept
  BY KeepsSelf DEF RegistryInv, TypeOK, FoundStarted, PtyKept, MarksStarted

LEMMA OneChangeKeeps ==
    ASSUME RegistryInv, NEW a \in Launch, NEW q, Keeps(pty[a], q), MarksStarted(q),
           pty' = [pty EXCEPT ![a] = q]
    PROVE  PtyKept
  <1>1. q \in Pty
    BY DEF Keeps
  <1>2. pty \in [Launch -> Pty] /\ pty' \in [Launch -> Pty]
    BY <1>1 DEF RegistryInv, TypeOK
  <1>3. \A b \in Launch : pty'[b] = IF b = a THEN q ELSE pty[b]
    BY <1>2
  <1> QED BY <1>2, <1>3, KeepsSelf DEF RegistryInv, FoundStarted, PtyKept, MarksStarted

LEMMA SameReaderMarks ==
    ASSUME RegistryInv, NEW a \in Launch, NEW q, SameReader(pty[a], q)
    PROVE  MarksStarted(q)
  BY DEF RegistryInv, FoundStarted, MarksStarted, SameReader

LEMMA CloseFoundKeeps ==
    ASSUME RegistryInv, NEW s \in Session, CloseFound(s)
    PROVE  PtyKept /\ pty'[registry[s]].state # "Running"
  <1> DEFINE a == registry[s]
  <1>1. a \in Launch /\ pty[a] \in Pty /\ pty \in [Launch -> Pty] /\ pty[a].reader # "off"
    BY DEF CloseFound, RegistryInv, TypeOK, RegistryBacked
  <1>2. pty' = [pty EXCEPT ![a] = AfterClose(pty[a])]
    BY DEF CloseFound
  <1> QED BY <1>1, <1>2, CloseKeeps, SameReaderMarks, OneChangeKeeps

LEMMA SendOpKeeps ==
    ASSUME RegistryInv, NEW s \in Session, NEW op \in PtyOp, SendOp(s, op)
    PROVE  PtyKept
  <1>1. CASE registry[s] = NoLaunch
    BY <1>1, UnchangedKeeps DEF SendOp
  <1>2. CASE registry[s] # NoLaunch
    <2>1. registry[s] \in Launch /\ pty[registry[s]] \in Pty
      BY <1>2 DEF RegistryInv, TypeOK
    <2>2. pty' = [pty EXCEPT ![registry[s]] = AfterOp(pty[registry[s]], op)]
      BY <1>2 DEF SendOp
    <2> QED BY <2>1, <2>2, OpKeeps, SameReaderMarks, OneChangeKeeps
  <1> QED BY <1>1, <1>2

LEMMA ShutdownPanicsKeeps ==
    ASSUME RegistryInv, NEW s \in Session, ShutdownPanics(s)
    PROVE  PtyKept
  <1>1. SendOp(s, "Shutdown")
    BY DEF ShutdownPanics, SendOp
  <1> QED BY <1>1, SendOpKeeps DEF PtyOp

LEMMA ReaderKeeps == ASSUME RegistryInv, NEW a \in Launch, Reader(a) PROVE PtyKept
  <1>0. pty[a] \in Pty
    BY DEF RegistryInv, TypeOK
  <1>1. ASSUME NEW events \in BOOLEAN, NEW pauses \in BOOLEAN, ReadChunk(a, events, pauses)
        PROVE  PtyKept
    <2>1. pty[a].seq + 1 \in Nat
      BY <1>0 DEF Pty
    <2>2. pty' = [pty EXCEPT ![a] = AfterRead(pty[a], pty[a].seq + 1, pauses)]
      BY <1>1 DEF ReadChunk
    <2> QED BY <1>0, <2>1, <2>2, ReadKeeps, SameReaderMarks, OneChangeKeeps
  <1>2. CASE ReadEnds(a)
    <2>1. pty[a].reader # "off" /\ pty[a].session \in Session
      BY <1>2 DEF ReadEnds, RegistryInv, ReadersHaveSession
    <2>2. Found(a) \in Launch \cup {NoLaunch}
          /\ (Found(a) # NoLaunch => pty[Found(a)].reader # "off")
      BY <2>1 DEF Found, RegistryInv, TypeOK, RegistryBacked
    <2>3. pty' = [pty EXCEPT ![a] = AfterEof(pty[a], Found(a))]
      BY <1>2 DEF ReadEnds
    <2>4. MarksStarted(AfterEof(pty[a], Found(a)))
      BY <1>0, <2>1, <2>2, EofKeeps DEF MarksStarted
    <2> QED BY <1>0, <2>1, <2>2, <2>3, <2>4, EofKeeps, OneChangeKeeps
  <1>3. CASE MarkEnded(a)
    <2> DEFINE f == pty[a].found
               q == Ended(pty[f], "ProcessExited")
               pty1 == [pty EXCEPT ![f] = q]
    <2>1. /\ f \in Launch /\ pty[f] \in Pty /\ pty[f].reader # "off"
          /\ pty \in [Launch -> Pty] /\ pty[a].reader # "off"
      BY <1>3 DEF MarkEnded, RegistryInv, FoundStarted, TypeOK
    <2>2. Keeps(pty[f], q) /\ SameReader(pty[f], q)
      BY <2>1, EndKeeps
    <2>3. pty1 \in [Launch -> Pty]
          /\ \A b \in Launch : Keeps(pty[b], pty1[b]) /\ SameReader(pty[b], pty1[b])
      <3>1. q \in Pty
        BY <2>2 DEF Keeps
      <3>2. \A b \in Launch : pty1[b] = IF b = f THEN q ELSE pty[b]
        BY <2>1
      <3> QED BY <2>1, <2>2, <3>1, <3>2, KeepsSelf DEF SameReader
    <2>4. pty' = [pty1 EXCEPT ![a] = AfterMark(pty1[a])]
      BY <1>3 DEF MarkEnded
    <2> HIDE DEF pty1
    <2>5. Keeps(pty1[a], AfterMark(pty1[a])) /\ AfterMark(pty1[a]).reader = "done"
      BY <2>1, <2>3, MarkKeeps DEF SameReader
    <2>6. pty' \in [Launch -> Pty]
      BY <2>3, <2>4, <2>5 DEF Keeps
    <2>7. \A b \in Launch : pty'[b] = IF b = a THEN AfterMark(pty1[a]) ELSE pty1[b]
      BY <2>3, <2>4
    <2>8. \A b \in Launch : Keeps(pty[b], pty'[b])
      BY <2>3, <2>5, <2>7, KeepsTransitive
    <2>9. \A b \in Launch : MarksStarted(pty'[b])
      BY <2>3, <2>5, <2>7, SameReaderMarks DEF MarksStarted
    <2> QED BY <2>6, <2>8, <2>9 DEF PtyKept
  <1> QED BY <1>1, <1>2, <1>3 DEF Reader

LEMMA WriterKeeps == ASSUME RegistryInv, NEW a \in Launch, WriterStep(a) PROVE PtyKept
  <1>1. pty[a] \in Pty /\ pty[a].ops # <<>>
    BY DEF RegistryInv, TypeOK, WriterStep
  <1>2. PICK stop \in BOOLEAN : pty' = [pty EXCEPT ![a] = AfterWrite(pty[a], stop)]
    BY DEF WriterStep
  <1> QED BY <1>1, <1>2, WriteKeeps, SameReaderMarks, OneChangeKeeps

LEMMA ExitsKeeps == ASSUME RegistryInv, NEW a \in Launch, ChildExits(a) PROVE PtyKept
  <1>1. pty[a] \in Pty
    BY DEF RegistryInv, TypeOK
  <1> QED BY <1>1, ExitKeeps, SameReaderMarks, OneChangeKeeps DEF ChildExits

-----------------------------------------------------------------------------
(* The invariant is inductive *)

\* The variables other than pty.
OthersType ==
    /\ main \in {"serving", "shutdown", "stopped", "panicked", "failed"}
    /\ peer \in {"up", "gone"}
    /\ inbox \in Seq(Request)
    /\ received \in Nat
    /\ reply \in Msg
    /\ registry \in [Session -> Launch \cup {NoLaunch}]
    /\ proxies \in [Session -> Launch \cup {NoLaunch}]
    /\ outq \in Seq(Msg)
    /\ wire \in Seq(Msg)

LEMMA TypeSplit == TypeOK <=> OthersType /\ pty \in [Launch -> Pty]
  BY DEF TypeOK, OthersType

LEMMA TakeType ==
    ASSUME OthersType, NEW kinds, Take(kinds)
    PROVE  /\ main' = main /\ peer' = peer /\ received' = received /\ wire' = wire
           /\ inbox' \in Seq(Request)
           /\ Head(inbox) \in Request
  BY DEF OthersType, Take, Idle

LEMMA SpawnOthers ==
    ASSUME OthersType, NEW s \in Session, NEW a \in Launch, NEW tap \in BOOLEAN,
           SpawnFails(s, a, tap) \/ SpawnRefused(s, a, tap) \/ SpawnSucceeds(s, a, tap)
    PROVE  OthersType'
  <1>1. StartProxy(s, a, tap) => proxies' \in [Session -> Launch \cup {NoLaunch}]
    BY DEF OthersType, StartProxy
  <1>2. /\ Message("SpawnSessionNack", s, a, 0) \in Msg
        /\ Message("SpawnSessionAck", s, a, 0) \in Msg
        /\ Message("SessionEvent", s, a, 0) \in Msg
    BY MessageType DEF MsgKinds, SpawnAnswers, OutputKinds
  <1>3. CASE SpawnFails(s, a, tap)
    BY <1>1, <1>2, <1>3, TakeType DEF SpawnFails, OthersType
  <1>4. CASE SpawnRefused(s, a, tap)
    BY <1>1, <1>2, <1>4, TakeType DEF SpawnRefused, OthersType
  <1>5. CASE SpawnSucceeds(s, a, tap)
    BY <1>1, <1>2, <1>5, TakeType DEF SpawnSucceeds, OthersType
  <1> QED BY <1>3, <1>4, <1>5

LEMMA DispatchOthers == ASSUME OthersType, Dispatch PROVE OthersType'
  <1>1. ASSUME NEW s \in Session, CloseFound(s) PROVE OthersType'
    <2>1. Message("CloseSessionAck", s, registry[s], 0) \in Msg
      BY <1>1, MessageType DEF OthersType, CloseFound, MsgKinds
    <2> QED BY <1>1, <2>1, TakeType DEF CloseFound, OthersType
  <1>2. ASSUME NEW s \in Session, CloseUnknown(s) PROVE OthersType'
    <2>1. Message("Error", s, NoLaunch, 0) \in Msg
      BY MessageType DEF MsgKinds
    <2> QED BY <1>2, <2>1, TakeType DEF CloseUnknown, OthersType
  <1>3. ASSUME NEW s \in Session, HandleInput(s) \/ HandleResize(s) PROVE OthersType'
    BY <1>3, TakeType DEF HandleInput, HandleResize, OthersType
  <1>4. CASE HandleIgnored
    BY <1>4, TakeType DEF HandleIgnored, OthersType
  <1>5. CASE HandleProbe
    <2>1. /\ Message("ProbeResponse", NoSession, NoLaunch, 0) \in Msg
          /\ Message("InstallComplete", NoSession, NoLaunch, 0) \in Msg
      BY MessageType DEF MsgKinds
    <2> QED BY <1>5, <2>1, TakeType DEF HandleProbe, OthersType
  <1>6. CASE Goodbye
    BY <1>6 DEF Goodbye, OthersType
  <1> QED BY <1>1, <1>2, <1>3, <1>4, <1>5, <1>6, SpawnOthers DEF Dispatch

LEMMA ThreadOthers ==
    ASSUME TypeOK, NEW a \in Launch,
           Reader(a) \/ WriterStep(a) \/ ChildExits(a) \/ ProxyExchange(a)
    PROVE  OthersType'
  <1>0. pty[a] \in Pty /\ OthersType
    BY TypeSplit DEF TypeOK
  <1>1. /\ Message("AgentEvent", pty[a].session, a, pty[a].seq) \in Msg
        /\ Message("TerminalData", pty[a].session, a, pty[a].seq) \in Msg
        /\ Message("HttpTraffic", pty[a].session, a, 0) \in Msg
    BY <1>0, MessageType DEF Pty, MsgKinds, OutputKinds
  <1>2. ASSUME NEW events \in BOOLEAN, NEW pauses \in BOOLEAN, ReadChunk(a, events, pauses)
        PROVE  OthersType'
    BY <1>0, <1>1, <1>2 DEF ReadChunk, Parsed, Chunk, OthersType
  <1>3. CASE ReadEnds(a) \/ MarkEnded(a)
    BY <1>0, <1>3 DEF ReadEnds, MarkEnded, OthersType
  <1>4. CASE WriterStep(a) \/ ChildExits(a)
    BY <1>0, <1>4 DEF WriterStep, ChildExits, OthersType
  <1>5. CASE ProxyExchange(a)
    BY <1>0, <1>1, <1>5 DEF ProxyExchange, OthersType
  <1> QED BY <1>2, <1>3, <1>4, <1>5 DEF Reader

LEMMA NextOthers == ASSUME TypeOK, [Next]_vars PROVE OthersType'
  <1>0. OthersType
    BY TypeSplit
  <1>1. ASSUME NEW r \in Request, Receive(r) PROVE OthersType'
    BY <1>0, <1>1 DEF Receive, OthersType
  <1>2. CASE PeerLeaves \/ WriteFails \/ UNCHANGED vars
    BY <1>0, <1>2 DEF PeerLeaves, WriteFails, vars, OthersType
  <1>3. CASE WriteReply
    BY <1>0, <1>3, NoReplyType DEF WriteReply, OthersType
  <1>4. CASE WriteQueued
    BY <1>0, <1>4 DEF WriteQueued, OthersType
  <1>5. CASE Shutdown
    BY <1>0, <1>5 DEF Shutdown, StdinEof, ShutdownEmpty, ShutdownPanics, OthersType
  <1> QED BY <1>0, <1>1, <1>2, <1>3, <1>4, <1>5, DispatchOthers, ThreadOthers DEF Next

\* Steps that leave the registry alone keep the invariant if they keep the launches.
LEMMA KeptInv ==
    ASSUME RegistryInv, OthersType', PtyKept, registry' = registry
    PROVE  RegistryInv'
  <1>1. TypeOK'
    BY TypeSplit DEF TypeOK, OthersType, PtyKept
  <1>2. RegistryBacked'
    BY DEF RegistryInv, TypeOK, RegistryBacked, PtyKept, Keeps
  <1>3. ReadersHaveSession' /\ UnstartedRunning'
    BY DEF RegistryInv, ReadersHaveSession, UnstartedRunning, PtyKept, Keeps
  <1>4. FoundStarted'
    BY DEF RegistryInv, FoundStarted, PtyKept, MarksStarted, Keeps
  <1>5. LeftRegistryEnded'
    <2> SUFFICES ASSUME NEW a \in Launch, pty'[a].session # NoSession,
                        pty'[a].reader # "off", registry'[pty'[a].session] # a
                 PROVE  pty'[a].state # "Running"
      BY DEF LeftRegistryEnded, Launched
    <2>1. Keeps(pty[a], pty'[a])
      BY DEF PtyKept
    <2>2. pty[a].session # NoSession /\ pty[a].reader # "off" /\ registry[pty[a].session] # a
      BY <2>1 DEF Keeps
    <2>3. pty[a].state # "Running"
      BY <2>2 DEF RegistryInv, LeftRegistryEnded, Launched
    <2> QED BY <2>1, <2>3 DEF Keeps
  <1> QED BY <1>1, <1>2, <1>3, <1>4, <1>5 DEF RegistryInv

\* A launch that did not start changes nothing the invariant speaks of.
LEMMA UnstartedInv ==
    ASSUME RegistryInv, OthersType', NEW s \in Session, NEW a \in Launch, a \notin Launched,
           NEW tap \in BOOLEAN, NEW q \in {FailedPty(s, tap), RefusedPty(s, tap)},
           pty' = [pty EXCEPT ![a] = q], registry' = registry
    PROVE  RegistryInv'
  <1>1. q \in Pty /\ q.reader = "off" /\ q.session = s
    BY LaunchedPty
  <1>2. q.state = "Running"
    BY DEF FailedPty, RefusedPty, Unlaunched
  <1>3. pty \in [Launch -> Pty] /\ pty' \in [Launch -> Pty]
        /\ \A b \in Launch : pty'[b] = IF b = a THEN q ELSE pty[b]
    BY <1>1 DEF RegistryInv, TypeOK
  <1>4. pty[a].reader = "off"
    BY SessionAssumption DEF RegistryInv, ReadersHaveSession, Launched
  <1>5. TypeOK'
    BY <1>3, TypeSplit DEF TypeOK, OthersType
  <1>6. RegistryBacked'
    BY <1>3, <1>4 DEF RegistryInv, TypeOK, RegistryBacked
  <1>7. ReadersHaveSession' /\ UnstartedRunning'
    BY <1>1, <1>2, <1>3 DEF RegistryInv, ReadersHaveSession, UnstartedRunning
  <1>8. FoundStarted'
    BY <1>1, <1>3, <1>4 DEF RegistryInv, FoundStarted
  <1>9. LeftRegistryEnded'
    BY <1>1, <1>3 DEF RegistryInv, LeftRegistryEnded, Launched
  <1> QED BY <1>5, <1>6, <1>7, <1>8, <1>9 DEF RegistryInv

LEMMA StartedInv ==
    ASSUME RegistryInv, OthersType', NEW s \in Session, NEW a \in Launch, NEW tap \in BOOLEAN,
           SpawnSucceeds(s, a, tap)
    PROVE  RegistryInv'
  <1> DEFINE q == StartedPty(s, tap)
  <1>1. q \in Pty /\ q.reader = "reading" /\ q.session = s
    BY LaunchedPty
  <1>2. pty' = [pty EXCEPT ![a] = q] /\ registry' = [registry EXCEPT ![s] = a]
        /\ registry[s] = NoLaunch /\ a \notin Launched
    BY DEF SpawnSucceeds, CanRegister
  <1> HIDE DEF q
  <1>3. pty \in [Launch -> Pty] /\ pty' \in [Launch -> Pty]
        /\ \A b \in Launch : pty'[b] = IF b = a THEN q ELSE pty[b]
    BY <1>1, <1>2 DEF RegistryInv, TypeOK
  <1>4. pty[a].reader = "off"
    BY <1>2, SessionAssumption DEF RegistryInv, ReadersHaveSession, Launched
  <1>5. TypeOK'
    BY <1>3, TypeSplit DEF TypeOK, OthersType
  <1>6. RegistryBacked'
    <2>1. \A r \in Session : registry'[r] = IF r = s THEN a ELSE registry[r]
      BY <1>2 DEF RegistryInv, TypeOK
    <2> QED BY <1>1, <1>3, <1>4, <2>1 DEF RegistryInv, TypeOK, RegistryBacked
  <1>7. ReadersHaveSession' /\ UnstartedRunning'
    BY <1>1, <1>3 DEF RegistryInv, ReadersHaveSession, UnstartedRunning
  <1>8. FoundStarted'
    BY <1>1, <1>3, <1>4 DEF RegistryInv, FoundStarted
  <1>9. LeftRegistryEnded'
    <2> SUFFICES ASSUME NEW b \in Launch, pty'[b].session # NoSession,
                        pty'[b].reader # "off", registry'[pty'[b].session] # b
                 PROVE  pty'[b].state # "Running"
      BY DEF LeftRegistryEnded, Launched
    <2>1. b # a
      BY <1>1, <1>2, <1>3 DEF RegistryInv, TypeOK
    <2>2. pty'[b] = pty[b] /\ pty[b].session \in Session
      BY <1>3, <2>1 DEF RegistryInv, ReadersHaveSession
    <2>3. registry[pty[b].session] # b
      BY <1>2, <2>2, LaunchAssumption DEF RegistryInv, TypeOK
    <2> QED BY <2>2, <2>3 DEF RegistryInv, LeftRegistryEnded, Launched
  <1> QED BY <1>5, <1>6, <1>7, <1>8, <1>9 DEF RegistryInv

LEMMA ClosedInv ==
    ASSUME RegistryInv, OthersType', NEW s \in Session, CloseFound(s)
    PROVE  RegistryInv'
  <1>1. PtyKept /\ pty'[registry[s]].state # "Running"
    BY CloseFoundKeeps
  <1>2. registry' = [registry EXCEPT ![s] = NoLaunch]
        /\ \A r \in Session : registry'[r] = IF r = s THEN NoLaunch ELSE registry[r]
    BY DEF CloseFound, RegistryInv, TypeOK
  <1>3. TypeOK'
    BY <1>1, TypeSplit DEF TypeOK, OthersType, PtyKept
  <1>4. RegistryBacked'
    BY <1>1, <1>2, SMTT(30) DEF RegistryInv, TypeOK, RegistryBacked, PtyKept, Keeps
  <1>5. ReadersHaveSession' /\ UnstartedRunning'
    BY <1>1 DEF RegistryInv, ReadersHaveSession, UnstartedRunning, PtyKept, Keeps
  <1>6. FoundStarted'
    BY <1>1 DEF RegistryInv, FoundStarted, PtyKept, MarksStarted, Keeps
  <1>7. LeftRegistryEnded'
    <2> SUFFICES ASSUME NEW a \in Launch, pty'[a].session # NoSession,
                        pty'[a].reader # "off", registry'[pty'[a].session] # a,
                        a # registry[s]
                 PROVE  pty'[a].state # "Running"
      BY <1>1 DEF LeftRegistryEnded, Launched
    <2>1. Keeps(pty[a], pty'[a])
      BY <1>1 DEF PtyKept
    <2>2. pty[a].session \in Session /\ pty[a].reader # "off"
      BY <2>1 DEF Keeps, RegistryInv, ReadersHaveSession
    <2>3. registry[pty[a].session] # a
      BY <1>2, <2>1, <2>2 DEF Keeps
    <2>4. pty[a].state # "Running"
      BY <2>2, <2>3, SessionAssumption DEF RegistryInv, LeftRegistryEnded, Launched
    <2> QED BY <2>1, <2>4 DEF Keeps
  <1> QED BY <1>3, <1>4, <1>5, <1>6, <1>7 DEF RegistryInv

LEMMA NextInv == ASSUME RegistryInv, [Next]_vars PROVE RegistryInv'
  <1>0. OthersType'
    BY NextOthers DEF RegistryInv
  <1>1. CASE UNCHANGED <<pty, registry>>
    BY <1>0, <1>1, UnchangedKeeps, KeptInv
  <1>2. ASSUME NEW s \in Session, NEW a \in Launch, NEW tap \in BOOLEAN,
               SpawnFails(s, a, tap) \/ SpawnRefused(s, a, tap)
        PROVE  RegistryInv'
    <2>1. /\ a \notin Launched /\ registry' = registry
          /\ \/ pty' = [pty EXCEPT ![a] = FailedPty(s, tap)]
             \/ pty' = [pty EXCEPT ![a] = RefusedPty(s, tap)]
      BY <1>2 DEF SpawnFails, SpawnRefused
    <2> QED BY <1>0, <2>1, UnstartedInv
  <1>3. ASSUME NEW s \in Session, NEW a \in Launch, NEW tap \in BOOLEAN, SpawnSucceeds(s, a, tap)
        PROVE  RegistryInv'
    BY <1>0, <1>3, StartedInv
  <1>4. ASSUME NEW s \in Session, CloseFound(s) PROVE RegistryInv'
    BY <1>0, <1>4, ClosedInv
  <1>5. ASSUME NEW s \in Session, HandleInput(s) \/ HandleResize(s) PROVE RegistryInv'
    <2>1. registry' = registry /\ (SendOp(s, "Write") \/ SendOp(s, "Resize"))
      BY <1>5 DEF HandleInput, HandleResize
    <2>2. PtyKept
      BY <2>1, SendOpKeeps DEF PtyOp
    <2> QED BY <1>0, <2>1, <2>2, KeptInv
  <1>6. ASSUME NEW s \in Session, ShutdownPanics(s) PROVE RegistryInv'
    BY <1>0, <1>6, ShutdownPanicsKeeps, KeptInv DEF ShutdownPanics
  <1>7. ASSUME NEW a \in Launch, Reader(a) \/ WriterStep(a) \/ ChildExits(a) PROVE RegistryInv'
    <2>1. registry' = registry
      BY <1>7 DEF Reader, ReadChunk, ReadEnds, MarkEnded, WriterStep, ChildExits
    <2> QED BY <1>0, <1>7, <2>1, ReaderKeeps, WriterKeeps, ExitsKeeps, KeptInv
  <1> QED
    BY <1>1, <1>2, <1>3, <1>4, <1>5, <1>6, <1>7
    DEF Next, Dispatch, Shutdown, Receive, PeerLeaves, WriteReply, WriteQueued, WriteFails,
        CloseUnknown, HandleIgnored, HandleProbe, Goodbye, StdinEof, ShutdownEmpty,
        ProxyExchange, vars

LEMMA InitInv == Init => RegistryInv
  <1> SUFFICES ASSUME Init PROVE RegistryInv
    OBVIOUS
  <1>1. Unlaunched \in Pty
    BY DEF Unlaunched, Pty
  <1>2. TypeOK
    BY <1>1, NoReplyType DEF Init, TypeOK
  <1>3. \A a \in Launch : /\ pty[a].session = NoSession /\ pty[a].reader = "off"
                           /\ pty[a].state = "Running"
    BY DEF Init, Unlaunched
  <1>4. RegistryBacked
    BY DEF Init, RegistryBacked
  <1> QED BY <1>2, <1>3, <1>4 DEF RegistryInv, ReadersHaveSession, UnstartedRunning,
             FoundStarted, LeftRegistryEnded, Launched

\* Every variable keeps its type: in particular no session is ever marked with
\* ConnectionLost, and whatever a reader's lookup finds is a launch.
THEOREM TypeCorrect == Spec => []TypeOK
  <1>1. RegistryInv => TypeOK
    BY DEF RegistryInv
  <1> QED BY <1>1, InitInv, NextInv, PTL DEF Spec

\* No live session becomes unreachable: what the registry no longer holds has
\* ended, whatever ids the client uses and however the threads are scheduled.
THEOREM NoLiveSessionLost == Spec => []LeftRegistryEnded
  <1>1. RegistryInv => LeftRegistryEnded
    BY DEF RegistryInv
  <1> QED BY <1>1, InitInv, NextInv, PTL DEF Spec

-----------------------------------------------------------------------------
(* Endings and capacity *)

\* A step keeps the launches or launches one that was not.
LEMMA StepKeepsOrLaunches ==
    ASSUME RegistryInv, [Next]_vars
    PROVE  \/ PtyKept
           \/ \E a \in Launch : /\ pty[a].reader = "off"
                               /\ \A b \in Launch \ {a} : pty'[b] = pty[b]
  <1>1. CASE UNCHANGED pty
    BY <1>1, UnchangedKeeps
  <1>2. ASSUME NEW s \in Session, NEW a \in Launch, NEW tap \in BOOLEAN,
               SpawnFails(s, a, tap) \/ SpawnRefused(s, a, tap) \/ SpawnSucceeds(s, a, tap)
        PROVE  pty[a].reader = "off" /\ \A b \in Launch \ {a} : pty'[b] = pty[b]
    <2>1. a \notin Launched
      BY <1>2 DEF SpawnFails, SpawnRefused, SpawnSucceeds
    <2>2. pty[a].reader = "off"
      BY <2>1, SessionAssumption DEF RegistryInv, ReadersHaveSession, Launched
    <2> QED BY <1>2, <2>2 DEF SpawnFails, SpawnRefused, SpawnSucceeds, RegistryInv, TypeOK
  <1>3. ASSUME NEW s \in Session, CloseFound(s) \/ ShutdownPanics(s) PROVE PtyKept
    BY <1>3, CloseFoundKeeps, ShutdownPanicsKeeps
  <1>4. ASSUME NEW s \in Session, HandleInput(s) \/ HandleResize(s) PROVE PtyKept
    BY <1>4, SendOpKeeps DEF HandleInput, HandleResize, PtyOp
  <1>5. ASSUME NEW a \in Launch, Reader(a) \/ WriterStep(a) \/ ChildExits(a) PROVE PtyKept
    BY <1>5, ReaderKeeps, WriterKeeps, ExitsKeeps
  <1> QED
    BY <1>1, <1>2, <1>3, <1>4, <1>5
    DEF Next, Dispatch, Shutdown, Receive, PeerLeaves, WriteReply, WriteQueued, WriteFails,
        CloseUnknown, HandleIgnored, HandleProbe, Goodbye, StdinEof, ShutdownEmpty,
        ProxyExchange, vars

LEMMA StepKeepsEnded ==
    ASSUME RegistryInv, [Next]_vars, NEW b \in Launch, pty[b].state # "Running"
    PROVE  pty'[b].state = pty[b].state
  <1>1. CASE PtyKept
    BY <1>1 DEF PtyKept, Keeps
  <1>2. ASSUME NEW a \in Launch, pty[a].reader = "off",
               \A c \in Launch \ {a} : pty'[c] = pty[c]
        PROVE  pty'[b].state = pty[b].state
    BY <1>2 DEF RegistryInv, UnstartedRunning
  <1> QED BY <1>1, <1>2, StepKeepsOrLaunches

\* A session that has ended keeps the reason it ended for, whichever of its
\* reader thread and CloseSession comes second.
THEOREM EndingFinal == Spec => EndedIsFinal
  <1>1. RegistryInv /\ [Next]_vars =>
          [\A a \in Launch : pty[a].state # "Running" => pty'[a].state = pty[a].state]_vars
    BY StepKeepsEnded
  <1> QED BY <1>1, InitInv, NextInv, PTL DEF Spec, EndedIsFinal

-----------------------------------------------------------------------------
(* A session that says its process exited *)

\* A reader that is about to mark saw the end of its own child, and found a
\* launch of its own id.
MarkerSaw == \A a \in Launch : pty[a].reader = "marking" =>
                 pty[a].child = "exited" /\ pty[pty[a].found].session = pty[a].session

ChildInv == MarkerSaw /\ ExitedMeansChildGone

\* An update that revives no child, marks nothing and moves no reader.
Mild(p, q) ==
    /\ p.child = "exited" => q.child = "exited"
    /\ q.state = "ProcessExited" => p.state = "ProcessExited"
    /\ SameReader(p, q)

LEMMA MildUpdates ==
    ASSUME NEW p \in Pty
    PROVE  /\ Mild(p, p) /\ Mild(p, Exited(p)) /\ Mild(p, AfterClose(p))
           /\ \A op : Mild(p, AfterOp(p, op))
           /\ \A n, pauses : Mild(p, AfterRead(p, n, pauses))
           /\ \A stop \in BOOLEAN : Mild(p, AfterWrite(p, stop))
  <1>1. Mild(p, p) /\ Mild(p, Exited(p))
    BY DEF Mild, SameReader, Exited, Pty
  <1>2. Mild(p, AfterClose(p))
    BY DEF Mild, SameReader, AfterClose, End, Pty
  <1>3. \A op : Mild(p, AfterOp(p, op))
    BY DEF Mild, SameReader, AfterOp, Pty
  <1>4. \A n, pauses : Mild(p, AfterRead(p, n, pauses))
    BY DEF Mild, SameReader, AfterRead, Pty
  <1>5. \A stop \in BOOLEAN : Mild(p, AfterWrite(p, stop))
    BY DEF Mild, SameReader, AfterWrite, Pty
  <1> QED BY <1>1, <1>2, <1>3, <1>4, <1>5

LEMMA MildChild ==
    ASSUME RegistryInv, ChildInv, PtyKept, \A b \in Launch : Mild(pty[b], pty'[b])
    PROVE  ChildInv'
  <1>1. \A b \in Launch : pty'[b].session = pty[b].session
    BY DEF PtyKept, Keeps
  <1>2. MarkerSaw'
    <2> SUFFICES ASSUME NEW a \in Launch, pty'[a].reader = "marking"
                 PROVE  pty'[a].child = "exited" /\ pty'[pty'[a].found].session = pty'[a].session
      BY DEF MarkerSaw
    <2>1. pty[a].reader = "marking" /\ pty'[a].found = pty[a].found
      BY DEF Mild, SameReader
    <2>2. pty[a].found \in Launch /\ pty[a].child = "exited"
          /\ pty[pty[a].found].session = pty[a].session
      BY <2>1 DEF RegistryInv, FoundStarted, ChildInv, MarkerSaw
    <2> QED BY <1>1, <2>1, <2>2 DEF Mild
  <1>3. ExitedMeansChildGone'
    BY <1>1 DEF ChildInv, ExitedMeansChildGone, SeenToExit, Mild, SameReader
  <1> QED BY <1>2, <1>3 DEF ChildInv

LEMMA OneMildChild ==
    ASSUME RegistryInv, ChildInv, PtyKept, NEW a \in Launch, NEW q, Mild(pty[a], q),
           pty' = [pty EXCEPT ![a] = q]
    PROVE  ChildInv'
  <1>1. \A b \in Launch : pty[b] \in Pty /\ pty'[b] = IF b = a THEN q ELSE pty[b]
    BY DEF RegistryInv, TypeOK
  <1>2. \A b \in Launch : Mild(pty[b], pty'[b])
    BY <1>1, MildUpdates
  <1> QED BY <1>2, MildChild

LEMMA OpChild ==
    ASSUME RegistryInv, ChildInv, NEW s \in Session, NEW op \in PtyOp, SendOp(s, op)
    PROVE  ChildInv'
  <1>1. PtyKept
    BY SendOpKeeps
  <1>2. CASE registry[s] = NoLaunch
    <2>1. pty' = pty /\ \A b \in Launch : pty[b] \in Pty
      BY <1>2 DEF SendOp, RegistryInv, TypeOK
    <2> QED BY <1>1, <2>1, MildUpdates, MildChild
  <1>3. CASE registry[s] # NoLaunch
    <2>1. registry[s] \in Launch /\ pty[registry[s]] \in Pty
      BY <1>3 DEF RegistryInv, TypeOK
    <2>2. pty' = [pty EXCEPT ![registry[s]] = AfterOp(pty[registry[s]], op)]
      BY <1>3 DEF SendOp
    <2> QED BY <1>1, <2>1, <2>2, MildUpdates, OneMildChild
  <1> QED BY <1>2, <1>3

LEMMA SpawnChild ==
    ASSUME RegistryInv, ChildInv, NEW s \in Session, NEW a \in Launch, NEW tap \in BOOLEAN,
           SpawnFails(s, a, tap) \/ SpawnRefused(s, a, tap) \/ SpawnSucceeds(s, a, tap)
    PROVE  ChildInv'
  <1>1. PICK q \in {FailedPty(s, tap), RefusedPty(s, tap), StartedPty(s, tap)} :
            pty' = [pty EXCEPT ![a] = q] /\ a \notin Launched
    BY DEF SpawnFails, SpawnRefused, SpawnSucceeds
  <1>2. q.state = "Running" /\ q.reader # "marking"
    BY DEF FailedPty, RefusedPty, StartedPty, Unlaunched
  <1>3. \A b \in Launch : pty'[b] = IF b = a THEN q ELSE pty[b]
    BY <1>1 DEF RegistryInv, TypeOK
  <1>4. pty[a].session = NoSession /\ pty[a].reader = "off"
    BY <1>1, SessionAssumption DEF RegistryInv, ReadersHaveSession, Launched
  <1>5. MarkerSaw'
    <2> SUFFICES ASSUME NEW b \in Launch, pty'[b].reader = "marking"
                 PROVE  pty'[b].child = "exited" /\ pty'[pty'[b].found].session = pty'[b].session
      BY DEF MarkerSaw
    <2>1. b # a /\ pty'[b] = pty[b]
      BY <1>2, <1>3
    <2>2. pty[b].found \in Launch /\ pty[b].found # a
      BY <2>1, <1>4 DEF RegistryInv, FoundStarted
    <2> QED BY <2>1, <2>2, <1>3 DEF ChildInv, MarkerSaw
  <1>6. ExitedMeansChildGone'
    <2> SUFFICES ASSUME NEW b \in Launch, pty'[b].state = "ProcessExited"
                 PROVE  \E c \in Launch : pty'[c].session = pty'[b].session /\ SeenToExit(c)'
      BY DEF ExitedMeansChildGone
    <2>1. b # a /\ pty'[b] = pty[b]
      BY <1>2, <1>3
    <2>2. pty[b].session # NoSession
      BY <2>1, SessionAssumption DEF RegistryInv, UnstartedRunning, ReadersHaveSession
    <2>3. PICK c \in Launch : pty[c].session = pty[b].session /\ SeenToExit(c)
      BY <2>1 DEF ChildInv, ExitedMeansChildGone
    <2>4. c # a
      BY <2>2, <2>3, <1>4
    <2> QED BY <2>1, <2>3, <2>4, <1>3 DEF SeenToExit
  <1> QED BY <1>5, <1>6 DEF ChildInv

LEMMA ReaderChild == ASSUME RegistryInv, ChildInv, NEW a \in Launch, Reader(a) PROVE ChildInv'
  <1>0. /\ PtyKept /\ pty \in [Launch -> Pty] /\ pty[a] \in Pty
        /\ \A b \in Launch : pty'[b].session = pty[b].session
    BY ReaderKeeps DEF RegistryInv, TypeOK, PtyKept, Keeps
  <1>1. ASSUME NEW events \in BOOLEAN, NEW pauses \in BOOLEAN, ReadChunk(a, events, pauses)
        PROVE  ChildInv'
    <2>1. pty' = [pty EXCEPT ![a] = AfterRead(pty[a], pty[a].seq + 1, pauses)]
      BY <1>1 DEF ReadChunk
    <2> QED BY <1>0, <2>1, MildUpdates, OneMildChild
  <1>2. CASE ReadEnds(a)
    <2> DEFINE q == AfterEof(pty[a], Found(a))
    <2>1. /\ pty' = [pty EXCEPT ![a] = q] /\ pty[a].child = "exited"
          /\ pty[a].session \in Session
      BY <1>2 DEF ReadEnds, RegistryInv, ReadersHaveSession
    <2>2. q.child = "exited" /\ q.state = pty[a].state /\ q.found = Found(a)
          /\ (q.reader = "marking" => Found(a) # NoLaunch)
      BY <1>0, <2>1 DEF AfterEof, Pty
    <2> HIDE DEF q
    <2>3. \A b \in Launch : pty'[b] = IF b = a THEN q ELSE pty[b]
      BY <1>0, <2>1
    <2>4. Found(a) # NoLaunch => Found(a) \in Launch /\ pty[Found(a)].session = pty[a].session
      BY <2>1 DEF Found, RegistryInv, TypeOK, RegistryBacked
    <2>5. MarkerSaw'
      <3> SUFFICES ASSUME NEW b \in Launch, pty'[b].reader = "marking"
                   PROVE  pty'[b].child = "exited" /\ pty'[pty'[b].found].session = pty'[b].session
        BY DEF MarkerSaw
      <3>1. CASE b = a
        BY <3>1, <1>0, <2>2, <2>3, <2>4
      <3>2. CASE b # a
        <4>1. pty'[b] = pty[b] /\ pty[b].found \in Launch
          BY <3>2, <2>3 DEF RegistryInv, FoundStarted
        <4> QED BY <4>1, <1>0 DEF ChildInv, MarkerSaw
      <3> QED BY <3>1, <3>2
    <2>6. ExitedMeansChildGone'
      <3>1. \A b \in Launch : pty'[b].state = pty[b].state
        BY <2>2, <2>3
      <3>2. \A b \in Launch : SeenToExit(b) => SeenToExit(b)'
        <4>1. pty[a].reader = "reading"
          BY <1>2 DEF ReadEnds
        <4> QED BY <4>1, <2>3 DEF SeenToExit
      <3> QED BY <3>1, <3>2, <1>0 DEF ChildInv, ExitedMeansChildGone
    <2> QED BY <2>5, <2>6 DEF ChildInv
  <1>3. CASE MarkEnded(a)
    <2> DEFINE f == pty[a].found
               q == Ended(pty[f], "ProcessExited")
               pty1 == [pty EXCEPT ![f] = q]
    <2>1. /\ f \in Launch /\ pty[f] \in Pty /\ pty[a].child = "exited"
          /\ pty[f].session = pty[a].session
      BY <1>0, <1>3 DEF MarkEnded, RegistryInv, FoundStarted, ChildInv, MarkerSaw
    <2>2. q \in Pty /\ q.child = pty[f].child /\ SameReader(pty[f], q)
      BY <2>1 DEF Ended, End, SameReader, Pty
    <2> HIDE DEF q
    <2>3. /\ pty1 \in [Launch -> Pty]
          /\ \A b \in Launch : pty1[b] = IF b = f THEN q ELSE pty[b]
      BY <1>0, <2>1, <2>2
    <2>4. pty' = [pty1 EXCEPT ![a] = AfterMark(pty1[a])]
      BY <1>3 DEF MarkEnded, q
    <2> HIDE DEF pty1
    <2>5. /\ AfterMark(pty1[a]).child = pty1[a].child /\ AfterMark(pty1[a]).state = pty1[a].state
          /\ AfterMark(pty1[a]).reader = "done"
      BY <2>3 DEF AfterMark, Pty
    <2>6. \A b \in Launch : pty'[b] = IF b = a THEN AfterMark(pty1[a]) ELSE pty1[b]
      BY <2>3, <2>4
    <2>7. \A b \in Launch : /\ pty'[b].child = pty[b].child
                            /\ b # f => pty'[b].state = pty[b].state
                            /\ pty'[b].reader = "marking" => SameReader(pty[b], pty'[b])
      BY <2>2, <2>3, <2>5, <2>6 DEF SameReader
    <2>7a. \A c \in Launch : pty[c].reader = "done" => pty'[c].reader = "done"
      BY <2>2, <2>3, <2>5, <2>6 DEF SameReader
    <2>8. MarkerSaw'
      <3> SUFFICES ASSUME NEW b \in Launch, pty'[b].reader = "marking"
                   PROVE  pty'[b].child = "exited" /\ pty'[pty'[b].found].session = pty'[b].session
        BY DEF MarkerSaw
      <3>1. pty[b].reader = "marking" /\ pty'[b].found = pty[b].found
        BY <2>7 DEF SameReader
      <3>2. pty[b].found \in Launch
        BY <3>1 DEF RegistryInv, FoundStarted
      <3> QED BY <3>1, <3>2, <2>7, <1>0 DEF ChildInv, MarkerSaw
    <2>9. ExitedMeansChildGone'
      <3> SUFFICES ASSUME NEW b \in Launch, pty'[b].state = "ProcessExited"
                   PROVE  \E c \in Launch : pty'[c].session = pty'[b].session /\ SeenToExit(c)'
        BY DEF ExitedMeansChildGone
      <3>1. SeenToExit(a)' /\ \A c \in Launch : SeenToExit(c) => SeenToExit(c)'
        BY <2>1, <2>5, <2>6, <2>7, <2>7a DEF SeenToExit
      <3>2. CASE b = f
        BY <3>1, <3>2, <2>1, <1>0
      <3>3. CASE b # f
        BY <3>1, <3>3, <2>7, <1>0 DEF ChildInv, ExitedMeansChildGone
      <3> QED BY <3>2, <3>3
    <2> QED BY <2>8, <2>9 DEF ChildInv
  <1> QED BY <1>1, <1>2, <1>3 DEF Reader

LEMMA NextChild == ASSUME RegistryInv, ChildInv, [Next]_vars PROVE ChildInv'
  <1>0. pty \in [Launch -> Pty]
    BY DEF RegistryInv, TypeOK
  <1>1. CASE UNCHANGED pty
    BY <1>1 DEF ChildInv, MarkerSaw, ExitedMeansChildGone, SeenToExit
  <1>2. ASSUME NEW s \in Session, CloseFound(s) PROVE ChildInv'
    <2>1. PtyKept /\ registry[s] \in Launch /\ pty[registry[s]] \in Pty
          /\ pty' = [pty EXCEPT ![registry[s]] = AfterClose(pty[registry[s]])]
      BY <1>0, <1>2, CloseFoundKeeps DEF CloseFound, RegistryInv, TypeOK
    <2> QED BY <2>1, MildUpdates, OneMildChild
  <1>3. ASSUME NEW s \in Session, HandleInput(s) \/ HandleResize(s) \/ ShutdownPanics(s) PROVE ChildInv'
    <2>1. SendOp(s, "Write") \/ SendOp(s, "Resize") \/ SendOp(s, "Shutdown")
      BY <1>3 DEF HandleInput, HandleResize, ShutdownPanics, SendOp
    <2> QED BY <2>1, OpChild DEF PtyOp
  <1>4. ASSUME NEW a \in Launch, WriterStep(a) \/ ChildExits(a) PROVE ChildInv'
    <2>1. PtyKept /\ pty[a] \in Pty
      BY <1>0, <1>4, WriterKeeps, ExitsKeeps
    <2>2. CASE WriterStep(a)
      <3>1. PICK stop \in BOOLEAN : pty' = [pty EXCEPT ![a] = AfterWrite(pty[a], stop)]
        BY <2>2 DEF WriterStep
      <3> QED BY <2>1, <3>1, MildUpdates, OneMildChild
    <2>3. CASE ChildExits(a)
      BY <2>1, <2>3, MildUpdates, OneMildChild DEF ChildExits
    <2> QED BY <1>4, <2>2, <2>3
  <1> QED
    BY <1>1, <1>2, <1>3, <1>4, SpawnChild, ReaderChild
    DEF Next, Dispatch, Shutdown, Receive, PeerLeaves, WriteReply, WriteQueued, WriteFails,
        CloseUnknown, HandleIgnored, HandleProbe, Goodbye, StdinEof, ShutdownEmpty,
        ProxyExchange, vars

\* A session says that its process exited only after a child of its id has, and
\* the reader of that child has seen it: a reader marks what it finds under the id.
THEOREM ChildGone == Spec => []ExitedMeansChildGone
  <1>1. Init => ChildInv
    BY DEF Init, Unlaunched, ChildInv, MarkerSaw, ExitedMeansChildGone
  <1>2. RegistryInv /\ ChildInv /\ [Next]_vars => (RegistryInv /\ ChildInv)'
    BY NextInv, NextChild
  <1>3. ChildInv => ExitedMeansChildGone
    BY DEF ChildInv
  <1> QED BY <1>1, <1>2, <1>3, InitInv, PTL DEF Spec

-----------------------------------------------------------------------------
(* The Ack comes first *)

\* An Ack is promised from the moment dispatch returns it.
Promised(a) ==
    AckOnWire(a, Len(wire)) \/ (reply.kind = "SpawnSessionAck" /\ reply.launch = a)

PromisedMsg(m) == m.kind \in OutputKinds => Promised(m.launch)

AckInv ==
    /\ AckBeforeOutput
    /\ reply.kind \notin OutputKinds
    /\ \A i \in 1..Len(outq) : PromisedMsg(outq[i])
    /\ \A a \in Launch : pty[a].reader # "off" => Promised(a)

\* A promise is kept when dispatch answers and when the answer is written.
LEMMA AnswerPromises ==
    ASSUME TypeOK, Idle, wire' = wire, reply' \in Msg, NEW a, Promised(a)
    PROVE  Promised(a)'
  BY DEF Promised, AckOnWire, Idle, NoReply, Message, TypeOK

LEMMA WritePromises ==
    ASSUME TypeOK, WriteReply \/ WriteQueued, NEW a, Promised(a)
    PROVE  Promised(a)'
  <1>1. CASE WriteReply
    <2>1. wire' = Append(wire, reply) /\ wire \in Seq(Msg) /\ reply \in Msg
      BY <1>1 DEF WriteReply, TypeOK
    <2>2. Len(wire') = Len(wire) + 1 /\ wire'[Len(wire) + 1] = reply /\ Len(wire) \in Nat
          /\ \A j \in 1..Len(wire) : wire'[j] = wire[j]
      BY <2>1
    <2> QED BY <2>2 DEF Promised, AckOnWire
  <1>2. CASE WriteQueued
    <2>1. wire' = Append(wire, Head(outq)) /\ wire \in Seq(Msg) /\ reply' = reply
          /\ Head(outq) \in Msg
      BY <1>2 DEF WriteQueued, TypeOK
    <2>2. Len(wire') = Len(wire) + 1 /\ Len(wire) \in Nat
          /\ \A j \in 1..Len(wire) : wire'[j] = wire[j]
      BY <2>1
    <2> QED BY <2>1, <2>2 DEF Promised, AckOnWire
  <1> QED BY <1>1, <1>2

\* Steps that neither write nor answer nor queue.
LEMMA QuietAck ==
    ASSUME RegistryInv, AckInv, UNCHANGED <<wire, reply, outq>>, PtyKept
    PROVE  AckInv'
  <1>1. \A a : Promised(a)' <=> Promised(a)
    BY DEF Promised, AckOnWire
  <1>2. \A a \in Launch : pty'[a].reader # "off" => pty[a].reader # "off"
    BY DEF PtyKept, Keeps
  <1> QED BY <1>1, <1>2 DEF AckInv, AckBeforeOutput, AckOnWire, PromisedMsg

\* Dispatch steps that start no thread.
LEMMA AnswerAck ==
    ASSUME RegistryInv, AckInv, Idle, wire' = wire, outq' = outq, reply' \in Msg,
           reply'.kind \notin OutputKinds,
           \A a \in Launch : pty'[a].reader # "off" => pty[a].reader # "off"
    PROVE  AckInv'
  <1>1. \A a : Promised(a) => Promised(a)'
    BY AnswerPromises DEF RegistryInv
  <1> QED BY <1>1 DEF AckInv, AckBeforeOutput, AckOnWire, PromisedMsg

\* Steps of the threads that queue messages of their own launch.
LEMMA QueueAck ==
    ASSUME RegistryInv, AckInv, UNCHANGED <<wire, reply>>, PtyKept, NEW q \in Seq(Msg),
           \A i \in 1..Len(q) : PromisedMsg(q[i]),
           outq' = outq \o q
    PROVE  AckInv'
  <1>1. \A a : Promised(a)' <=> Promised(a)
    BY DEF Promised, AckOnWire
  <1>2. \A a \in Launch : pty'[a].reader # "off" => pty[a].reader # "off"
    BY DEF PtyKept, Keeps
  <1>3. \A i \in 1..Len(outq') : PromisedMsg(outq'[i])
    <2>1. outq \in Seq(Msg)
      BY DEF RegistryInv, TypeOK
    <2>2. Len(outq') = Len(outq) + Len(q) /\ Len(outq) \in Nat /\ Len(q) \in Nat
          /\ \A i \in 1..(Len(outq) + Len(q)) :
                outq'[i] = IF i <= Len(outq) THEN outq[i] ELSE q[i - Len(outq)]
      BY <2>1
    <2> QED BY <2>2 DEF AckInv
  <1> QED BY <1>1, <1>2, <1>3 DEF AckInv, AckBeforeOutput, AckOnWire, PromisedMsg

LEMMA StartAck ==
    ASSUME RegistryInv, AckInv, NEW s \in Session, NEW a \in Launch, NEW tap \in BOOLEAN,
           SpawnSucceeds(s, a, tap), RegistryInv'
    PROVE  AckInv'
  <1>1. Idle /\ wire' = wire
    BY DEF SpawnSucceeds, Take
  <1>2. reply' = Message("SpawnSessionAck", s, a, 0) /\ reply' \in Msg
    BY DEF SpawnSucceeds, RegistryInv, TypeOK
  <1>3. reply'.kind = "SpawnSessionAck" /\ reply'.launch = a
    BY <1>2 DEF Message
  <1>4. Promised(a)' /\ \A b : Promised(b) => Promised(b)'
    BY <1>1, <1>2, <1>3, AnswerPromises DEF Promised, RegistryInv
  <1> DEFINE e == Message("SessionEvent", s, a, 0)
  <1>5. outq' = Append(outq, e) /\ outq \in Seq(Msg)
    BY DEF SpawnSucceeds, RegistryInv, TypeOK
  <1>6. e.launch = a
    BY DEF Message
  <1> HIDE DEF e
  <1>7. \A i \in 1..Len(outq') : outq'[i] = e \/ (i \in 1..Len(outq) /\ outq'[i] = outq[i])
    <2>1. Len(outq') = Len(outq) + 1 /\ Len(outq) \in Nat /\ outq'[Len(outq) + 1] = e
          /\ \A i \in 1..Len(outq) : outq'[i] = outq[i]
      BY <1>5
    <2> QED BY <2>1
  <1>8. (\A i \in 1..Len(outq) : PromisedMsg(outq[i]))'
    <2>1. PromisedMsg(e)' /\ \A m : PromisedMsg(m) => PromisedMsg(m)'
      BY <1>4, <1>6 DEF PromisedMsg
    <2> QED BY <1>7, <2>1 DEF AckInv
  <1>9. \A b \in Launch : pty'[b].reader # "off" => Promised(b)'
    <2>1. \A b \in Launch : b # a => pty'[b] = pty[b]
      BY DEF SpawnSucceeds, RegistryInv, TypeOK
    <2> QED BY <1>4, <2>1 DEF AckInv
  <1>10. AckBeforeOutput'
    BY <1>1 DEF AckInv, AckBeforeOutput, AckOnWire
  <1> QED BY <1>3, <1>8, <1>9, <1>10 DEF AckInv, OutputKinds, PromisedMsg

LEMMA WriteReplyAck == ASSUME RegistryInv, AckInv, WriteReply PROVE AckInv'
  <1>1. \A a : Promised(a) => Promised(a)'
    BY WritePromises DEF RegistryInv
  <1>2. wire' = Append(wire, reply) /\ wire \in Seq(Msg) /\ reply \in Msg
        /\ reply' = NoReply /\ UNCHANGED <<outq, pty>>
    BY DEF WriteReply, RegistryInv, TypeOK
  <1>3. AckBeforeOutput'
    <2>1. Len(wire') = Len(wire) + 1 /\ wire'[Len(wire) + 1] = reply /\ Len(wire) \in Nat
          /\ (\A j \in 1..Len(wire) : wire'[j] = wire[j])
          /\ DOMAIN wire = 1..Len(wire) /\ DOMAIN wire' = 1..Len(wire')
      BY <1>2
    <2> QED BY <2>1 DEF AckInv, AckBeforeOutput, AckOnWire
  <1>4. NoReply.kind \notin OutputKinds
    BY DEF NoReply, Message, OutputKinds
  <1> QED BY <1>1, <1>2, <1>3, <1>4 DEF AckInv, PromisedMsg

LEMMA WriteQueuedAck == ASSUME RegistryInv, AckInv, WriteQueued PROVE AckInv'
  <1>1. \A a : Promised(a) => Promised(a)'
    BY WritePromises DEF RegistryInv
  <1> DEFINE m == Head(outq)
  <1>2. wire' = Append(wire, m) /\ wire \in Seq(Msg) /\ m \in Msg /\ m = outq[1]
        /\ outq \in Seq(Msg) /\ outq # <<>> /\ outq' = Tail(outq) /\ UNCHANGED <<reply, pty>>
    BY DEF WriteQueued, RegistryInv, TypeOK
  <1>3. reply.kind # "SpawnSessionAck"
    BY DEF WriteQueued, Idle, NoReply, Message
  <1>4. PromisedMsg(m)
    BY <1>2 DEF AckInv
  <1>5. m.kind \in OutputKinds => AckOnWire(m.launch, Len(wire))
    BY <1>3, <1>4 DEF PromisedMsg, Promised
  <1> HIDE DEF m
  <1>6. AckBeforeOutput'
    <2>1. Len(wire') = Len(wire) + 1 /\ wire'[Len(wire) + 1] = m /\ Len(wire) \in Nat
          /\ (\A j \in 1..Len(wire) : wire'[j] = wire[j])
          /\ DOMAIN wire = 1..Len(wire) /\ DOMAIN wire' = 1..Len(wire')
      BY <1>2
    <2> QED BY <1>5, <2>1 DEF AckInv, AckBeforeOutput, AckOnWire
  <1>7. (\A i \in 1..Len(outq) : PromisedMsg(outq[i]))'
    <2>0. \A x : PromisedMsg(x) => PromisedMsg(x)'
      BY <1>1 DEF PromisedMsg
    <2>1. \A i \in 1..Len(outq') : i + 1 \in 1..Len(outq) /\ outq'[i] = outq[i + 1]
      BY <1>2
    <2>2. \A i \in 1..Len(outq') : PromisedMsg(outq'[i])
      BY <2>1 DEF AckInv
    <2> QED BY <2>0, <2>2
  <1> QED BY <1>1, <1>2, <1>6, <1>7 DEF AckInv, PromisedMsg

LEMMA DispatchAck == ASSUME RegistryInv, AckInv, Dispatch, RegistryInv' PROVE AckInv'
  <1>0. reply' \in Msg /\ pty \in [Launch -> Pty]
    BY DEF RegistryInv, TypeOK
  <1>1. ASSUME NEW s \in Session, NEW a \in Launch, NEW tap \in BOOLEAN,
               SpawnFails(s, a, tap) \/ SpawnRefused(s, a, tap)
        PROVE  AckInv'
    <2>1. /\ Idle /\ wire' = wire /\ outq' = outq
          /\ reply' = Message("SpawnSessionNack", s, a, 0)
          /\ \/ pty' = [pty EXCEPT ![a] = FailedPty(s, tap)]
             \/ pty' = [pty EXCEPT ![a] = RefusedPty(s, tap)]
      BY <1>1 DEF SpawnFails, SpawnRefused, Take
    <2>2. \A b \in Launch : pty'[b].reader # "off" => pty[b].reader # "off"
      BY <1>0, <2>1, LaunchedPty
    <2>3. reply'.kind \notin OutputKinds
      BY <2>1 DEF Message, OutputKinds
    <2> QED BY <1>0, <2>1, <2>2, <2>3, AnswerAck
  <1>2. ASSUME NEW s \in Session, CloseFound(s) PROVE AckInv'
    <2>1. Idle /\ wire' = wire /\ outq' = outq
          /\ reply' = Message("CloseSessionAck", s, registry[s], 0)
      BY <1>2 DEF CloseFound, Take
    <2>2. reply'.kind \notin OutputKinds
      BY <2>1 DEF Message, OutputKinds
    <2>3. PtyKept
      BY <1>2, CloseFoundKeeps
    <2>4. \A b \in Launch : pty'[b].reader # "off" => pty[b].reader # "off"
      BY <2>3 DEF PtyKept, Keeps
    <2> QED BY <1>0, <2>1, <2>2, <2>4, AnswerAck
  <1>3. ASSUME NEW s \in Session, CloseUnknown(s) PROVE AckInv'
    <2>1. Idle /\ wire' = wire /\ outq' = outq /\ pty' = pty
          /\ reply' = Message("Error", s, NoLaunch, 0)
      BY <1>3 DEF CloseUnknown, Take
    <2>2. reply'.kind \notin OutputKinds
      BY <2>1 DEF Message, OutputKinds
    <2> QED BY <1>0, <2>1, <2>2, AnswerAck
  <1>4. CASE HandleProbe
    <2>1. Idle /\ wire' = wire /\ outq' = outq /\ pty' = pty
          /\ reply' \in {Message("ProbeResponse", NoSession, NoLaunch, 0),
                        Message("InstallComplete", NoSession, NoLaunch, 0)}
      BY <1>4 DEF HandleProbe, Take
    <2>2. reply'.kind \notin OutputKinds
      BY <2>1 DEF Message, OutputKinds
    <2> QED BY <1>0, <2>1, <2>2, AnswerAck
  <1>5. ASSUME NEW s \in Session, HandleInput(s) \/ HandleResize(s) PROVE AckInv'
    <2>1. UNCHANGED <<wire, reply, outq>> /\ (SendOp(s, "Write") \/ SendOp(s, "Resize"))
      BY <1>5 DEF HandleInput, HandleResize, Take
    <2> QED BY <2>1, SendOpKeeps, QuietAck DEF PtyOp
  <1>6. CASE HandleIgnored \/ Goodbye
    <2>1. UNCHANGED <<wire, reply, outq, pty>>
      BY <1>6 DEF HandleIgnored, Goodbye, Take
    <2> QED BY <2>1, UnchangedKeeps, QuietAck
  <1> QED BY <1>1, <1>2, <1>3, <1>4, <1>5, <1>6, StartAck DEF Dispatch

LEMMA ThreadAck ==
    ASSUME RegistryInv, AckInv, NEW a \in Launch,
           Reader(a) \/ WriterStep(a) \/ ChildExits(a) \/ ProxyExchange(a)
    PROVE  AckInv'
  <1>0. pty[a] \in Pty /\ outq \in Seq(Msg)
    BY DEF RegistryInv, TypeOK
  <1> DEFINE event == Message("AgentEvent", pty[a].session, a, pty[a].seq)
             data == Message("TerminalData", pty[a].session, a, pty[a].seq)
             traffic == Message("HttpTraffic", pty[a].session, a, 0)
  <1>1. event \in Msg /\ data \in Msg /\ traffic \in Msg
    BY <1>0, MessageType DEF Pty, MsgKinds, OutputKinds
  <1>2. event.launch = a /\ data.launch = a /\ traffic.kind \notin OutputKinds
    BY DEF Message, OutputKinds
  <1>3. ASSUME NEW events \in BOOLEAN, NEW pauses \in BOOLEAN, ReadChunk(a, events, pauses)
        PROVE  AckInv'
    <2>1. PromisedMsg(event) /\ PromisedMsg(data)
      BY <1>2, <1>3 DEF ReadChunk, AckInv, PromisedMsg
    <2> DEFINE q == Parsed(a, events) \o Chunk(a, pauses)
    <2>2. outq' = outq \o q /\ UNCHANGED <<wire, reply>>
      BY <1>3 DEF ReadChunk
    <2>3. q \in Seq(Msg) /\ \A i \in 1..Len(q) : q[i] = event \/ q[i] = data
      <3>1. CASE events
        <4>1. q = <<event>> \o <<data>>
          BY <3>1 DEF Parsed, Chunk
        <4> HIDE DEF event, data, q
        <4> QED BY <1>1, <4>1
      <3>2. CASE ~events
        <4>1. q = <<>> \o <<data>>
          BY <3>2 DEF Parsed, Chunk
        <4> HIDE DEF event, data, q
        <4> QED BY <1>1, <4>1
      <3> QED BY <3>1, <3>2
    <2> HIDE DEF q, event, data
    <2>4. PtyKept
      BY <1>3, ReaderKeeps DEF Reader
    <2>5. \A i \in 1..Len(q) : PromisedMsg(q[i])
      BY <2>1, <2>3
    <2> QED BY <2>2, <2>3, <2>4, <2>5, QueueAck
  <1>4. CASE ReadEnds(a) \/ MarkEnded(a)
    <2>1. UNCHANGED <<wire, reply, outq>>
      BY <1>4 DEF ReadEnds, MarkEnded
    <2> QED BY <1>4, <2>1, ReaderKeeps, QuietAck DEF Reader
  <1>5. CASE WriterStep(a) \/ ChildExits(a)
    <2>1. UNCHANGED <<wire, reply, outq>>
      BY <1>5 DEF WriterStep, ChildExits
    <2> QED BY <1>5, <2>1, WriterKeeps, ExitsKeeps, QuietAck
  <1>6. CASE ProxyExchange(a)
    <2>1. outq' = Append(outq, traffic) /\ UNCHANGED <<wire, reply, pty>>
      BY <1>6 DEF ProxyExchange
    <2>2. PromisedMsg(traffic)
      BY <1>2 DEF PromisedMsg
    <2> HIDE DEF traffic
    <2>3. outq' = outq \o <<traffic>> /\ <<traffic>> \in Seq(Msg)
      BY <1>0, <1>1, <2>1
    <2>4. \A i \in 1..Len(<<traffic>>) : PromisedMsg(<<traffic>>[i])
      BY <2>2
    <2> QED BY <2>1, <2>3, <2>4, UnchangedKeeps, QueueAck
  <1> QED BY <1>3, <1>4, <1>5, <1>6 DEF Reader

LEMMA NextAck == ASSUME RegistryInv, AckInv, [Next]_vars PROVE AckInv'
  <1>0. RegistryInv'
    BY NextInv
  <1>1. ASSUME NEW r \in Request, Receive(r) PROVE AckInv'
    BY <1>1, UnchangedKeeps, QuietAck DEF Receive
  <1>2. CASE PeerLeaves \/ WriteFails \/ UNCHANGED vars
    BY <1>2, UnchangedKeeps, QuietAck DEF PeerLeaves, WriteFails, vars
  <1>3. CASE StdinEof \/ ShutdownEmpty
    BY <1>3, UnchangedKeeps, QuietAck DEF StdinEof, ShutdownEmpty
  <1>4. ASSUME NEW s \in Session, ShutdownPanics(s) PROVE AckInv'
    BY <1>4, ShutdownPanicsKeeps, QuietAck DEF ShutdownPanics
  <1> QED BY <1>0, <1>1, <1>2, <1>3, <1>4, DispatchAck, ThreadAck, WriteReplyAck, WriteQueuedAck
          DEF Next, Shutdown

LEMMA InitAck == Init => AckInv
  <1> SUFFICES ASSUME Init PROVE AckInv
    OBVIOUS
  <1>1. \A a \in Launch : pty[a].reader = "off"
    BY DEF Init, Unlaunched
  <1>2. reply.kind \notin OutputKinds
    BY DEF Init, NoReply, Message, OutputKinds
  <1> QED BY <1>1, <1>2 DEF Init, AckInv, AckBeforeOutput

\* On the wire no event, agent event or chunk of a session comes before the
\* SpawnSessionAck that announces it, although its reader thread runs before
\* the Ack is written.
THEOREM AckFirst == Spec => []AckBeforeOutput
  <1>1. RegistryInv /\ AckInv /\ [Next]_vars => (RegistryInv /\ AckInv)'
    BY NextInv, NextAck
  <1>2. AckInv => AckBeforeOutput
    BY DEF AckInv
  <1> QED BY <1>1, <1>2, InitInv, InitAck, PTL DEF Spec

-----------------------------------------------------------------------------
(* Chunks in order *)

\* A message that is not a chunk may come anywhere.
LEMMA InsertedInOrder ==
    ASSUME NEW p \in Seq(Msg), NEW q \in Seq(Msg), NEW m \in Msg, m.kind # "TerminalData",
           NEW a \in Launch, NEW n \in Nat, ChunksInOrder(p \o q, a, n)
    PROVE  ChunksInOrder(Append(p, m) \o q, a, n)
  <1> DEFINE k == Len(p)
             l == Len(q)
             old == p \o q
             new == Append(p, m) \o q
             At(i) == IF i <= k THEN i ELSE i - 1
  <1>1. k \in Nat /\ l \in Nat
    OBVIOUS
  <1>2. DOMAIN old = 1..(k + l) /\ \A i \in 1..(k + l) : old[i] = IF i <= k THEN p[i] ELSE q[i - k]
    OBVIOUS
  <1>3. DOMAIN new = 1..(k + 1 + l)
        /\ \A i \in 1..(k + 1 + l) :
              new[i] = IF i <= k THEN p[i] ELSE IF i = k + 1 THEN m ELSE q[i - k - 1]
    OBVIOUS
  <1> HIDE DEF k, l, old, new
  <1>4. ~ChunkOf(a, m)
    BY DEF ChunkOf
  <1>5. \A i \in DOMAIN new : ChunkOf(a, new[i]) => i # k + 1 /\ At(i) \in DOMAIN old /\ new[i] = old[At(i)]
    <2> SUFFICES ASSUME NEW i \in DOMAIN new, ChunkOf(a, new[i])
                 PROVE  i # k + 1 /\ At(i) \in DOMAIN old /\ new[i] = old[At(i)]
      OBVIOUS
    <2>1. i # k + 1
      BY <1>1, <1>3, <1>4
    <2>2. CASE i <= k
      BY <1>1, <1>2, <1>3, <2>2
    <2>3. CASE i > k + 1
      <3>1. (i - 1) - k = i - k - 1 /\ At(i) = i - 1 /\ i - 1 \in 1..(k + l) /\ ~(i - 1 <= k)
        BY <1>1, <1>3, <2>3
      <3>2. new[i] = q[i - k - 1] /\ old[i - 1] = q[(i - 1) - k]
        BY <1>1, <1>2, <1>3, <2>3, <3>1
      <3> QED BY <1>2, <2>1, <3>1, <3>2
    <2> QED BY <1>1, <1>3, <2>1, <2>2, <2>3
  <1>6. \A i \in DOMAIN old : \E j \in DOMAIN new : new[j] = old[i]
    <2> SUFFICES ASSUME NEW i \in DOMAIN old PROVE \E j \in DOMAIN new : new[j] = old[i]
      OBVIOUS
    <2>1. CASE i <= k
      BY <1>1, <1>2, <1>3, <2>1
    <2>2. CASE i > k
      <3>1. i + 1 \in DOMAIN new /\ new[i + 1] = old[i]
        BY <1>1, <1>2, <1>3, <2>2, SMTT(30)
      <3> QED BY <3>1
    <2> QED BY <1>1, <1>2, <2>1, <2>2
  <1>7. ChunksInOrder(old, a, n)
    BY DEF old
  <1>8. \A i, j \in DOMAIN new : i < j /\ i # k + 1 /\ j # k + 1 => At(i) < At(j)
    BY <1>1, <1>3
  <1> HIDE DEF At
  <1>9. ChunksInOrder(new, a, n)
    <2>1. \A i \in DOMAIN new : ChunkOf(a, new[i]) => new[i].seq < n
      BY <1>5, <1>7 DEF ChunksInOrder
    <2>2. \A i, j \in DOMAIN new :
             i < j /\ ChunkOf(a, new[i]) /\ ChunkOf(a, new[j]) => new[i].seq < new[j].seq
      <3> SUFFICES ASSUME NEW i \in DOMAIN new, NEW j \in DOMAIN new, i < j,
                          ChunkOf(a, new[i]), ChunkOf(a, new[j])
                   PROVE  new[i].seq < new[j].seq
        OBVIOUS
      <3>1. At(i) < At(j)
        BY <1>5, <1>8
      <3>2. /\ At(i) \in DOMAIN old /\ new[i] = old[At(i)]
            /\ At(j) \in DOMAIN old /\ new[j] = old[At(j)]
        BY <1>5
      <3> QED BY <1>7, <3>1, <3>2 DEF ChunksInOrder
    <2>3. \A c \in 0..(n - 1) : \E i \in DOMAIN new : ChunkOf(a, new[i]) /\ new[i].seq = c
      <3> SUFFICES ASSUME NEW c \in 0..(n - 1)
                   PROVE  \E i \in DOMAIN new : ChunkOf(a, new[i]) /\ new[i].seq = c
        OBVIOUS
      <3>1. PICK i \in DOMAIN old : ChunkOf(a, old[i]) /\ old[i].seq = c
        BY <1>7 DEF ChunksInOrder
      <3> QED BY <1>6, <3>1
    <2> QED BY <2>1, <2>2, <2>3 DEF ChunksInOrder
  <1> QED BY <1>9 DEF new

\* The next chunk of a session comes last; it is nothing to the other sessions.
LEMMA AppendedInOrder ==
    ASSUME NEW q \in Seq(Msg), NEW m \in Msg, NEW a \in Launch, NEW n \in Nat,
           ChunksInOrder(q, a, n), ChunkOf(a, m) => m.seq = n
    PROVE  ChunksInOrder(Append(q, m), a, IF ChunkOf(a, m) THEN n + 1 ELSE n)
  <1> DEFINE k == Len(q)
             new == Append(q, m)
  <1>1. k \in Nat /\ DOMAIN q = 1..k /\ DOMAIN new = 1..(k + 1)
        /\ new[k + 1] = m /\ \A i \in 1..k : new[i] = q[i]
    OBVIOUS
  <1> HIDE DEF k, new
  <1>2. \A i \in 1..k : ChunkOf(a, q[i]) => q[i].seq < n
    BY <1>1 DEF ChunksInOrder
  <1>3. \A i \in 1..k : q[i].seq \in Nat
    <2>1. \A i \in 1..k : q[i] \in Msg
      BY DEF k
    <2> QED BY <2>1 DEF Msg
  <1>4. \A i, j \in 1..(k + 1) :
           i < j /\ ChunkOf(a, new[i]) /\ ChunkOf(a, new[j]) => new[i].seq < new[j].seq
    <2> SUFFICES ASSUME NEW i \in 1..(k + 1), NEW j \in 1..(k + 1), i < j,
                        ChunkOf(a, new[i]), ChunkOf(a, new[j])
                 PROVE  new[i].seq < new[j].seq
      OBVIOUS
    <2>1. i \in 1..k
      BY <1>1
    <2>2. CASE j \in 1..k
      BY <1>1, <2>1, <2>2 DEF ChunksInOrder
    <2>3. CASE j = k + 1
      BY <1>1, <1>2, <2>1, <2>3
    <2> QED BY <1>1, <2>2, <2>3
  <1>5. CASE ChunkOf(a, m)
    <2>1. \A i \in 1..(k + 1) : ChunkOf(a, new[i]) => new[i].seq < n + 1
      BY <1>1, <1>2, <1>3, <1>5
    <2>2. \A c \in 0..n : \E i \in 1..(k + 1) : ChunkOf(a, new[i]) /\ new[i].seq = c
      <3> SUFFICES ASSUME NEW c \in 0..n
                   PROVE  \E i \in 1..(k + 1) : ChunkOf(a, new[i]) /\ new[i].seq = c
        OBVIOUS
      <3>1. CASE c = n
        BY <1>1, <1>5, <3>1
      <3>2. CASE c # n
        <4>1. c \in 0..(n - 1)
          BY <3>2
        <4>2. PICK i \in 1..k : ChunkOf(a, q[i]) /\ q[i].seq = c
          BY <1>1, <4>1 DEF ChunksInOrder
        <4>3. i \in 1..(k + 1) /\ new[i] = q[i]
          BY <1>1
        <4> QED BY <4>2, <4>3
      <3> QED BY <3>1, <3>2
    <2>3. (n + 1) - 1 = n
      OBVIOUS
    <2>4. ChunksInOrder(new, a, n + 1)
      BY <1>1, <1>4, <2>1, <2>2, <2>3 DEF ChunksInOrder
    <2> QED BY <1>5, <2>4 DEF new
  <1>6. CASE ~ChunkOf(a, m)
    <2>1. \A i \in 1..(k + 1) : ChunkOf(a, new[i]) => i \in 1..k
      BY <1>1, <1>6
    <2>2. \A i \in 1..(k + 1) : ChunkOf(a, new[i]) => new[i].seq < n
      BY <1>1, <1>2, <2>1
    <2>3. \A c \in 0..(n - 1) : \E i \in 1..(k + 1) : ChunkOf(a, new[i]) /\ new[i].seq = c
      <3> SUFFICES ASSUME NEW c \in 0..(n - 1)
                   PROVE  \E i \in 1..(k + 1) : ChunkOf(a, new[i]) /\ new[i].seq = c
        OBVIOUS
      <3>1. PICK i \in 1..k : ChunkOf(a, q[i]) /\ q[i].seq = c
        BY <1>1 DEF ChunksInOrder
      <3>2. i \in 1..(k + 1) /\ new[i] = q[i]
        BY <1>1
      <3> QED BY <3>1, <3>2
    <2>4. ChunksInOrder(new, a, n)
      BY <1>1, <1>4, <2>2, <2>3 DEF ChunksInOrder
    <2> QED BY <1>6, <2>4 DEF new
  <1> QED BY <1>5, <1>6

LEMMA HeadToEnd ==
    ASSUME NEW p \in Seq(Msg), NEW q \in Seq(Msg), q # <<>>
    PROVE  Append(p, Head(q)) \o Tail(q) = p \o q
  <1>1. Tail(q) \in Seq(Msg) /\ Append(p, Head(q)) \in Seq(Msg)
        /\ Len(q) >= 1 /\ Len(p) \in Nat /\ Len(q) \in Nat
    OBVIOUS
  <1>2. Len(Append(p, Head(q)) \o Tail(q)) = Len(p) + Len(q) /\ Len(p \o q) = Len(p) + Len(q)
    BY <1>1
  <1>3. ASSUME NEW i \in 1..(Len(p) + Len(q))
        PROVE  (Append(p, Head(q)) \o Tail(q))[i] = (p \o q)[i]
    <2>1. CASE i <= Len(p)
      BY <1>1, <2>1
    <2>2. CASE i = Len(p) + 1
      BY <1>1, <2>2
    <2>3. CASE i > Len(p) + 1
      BY <1>1, <2>3
    <2> QED BY <1>1, <2>1, <2>2, <2>3
  <1>4. Append(p, Head(q)) \o Tail(q) \in Seq(Msg) /\ p \o q \in Seq(Msg)
    BY <1>1
  <1> QED BY <1>2, <1>3, <1>4, SeqEqual

\* A chunk that is read is numbered by how many came before it, and a launch
\* whose reader never started has none.
UnstartedSilent == \A a \in Launch : pty[a].reader = "off" => pty[a].seq = 0

OrderInv == OutputInOrder /\ UnstartedSilent

SameSeq == \A a \in Launch : pty'[a].seq = pty[a].seq

\* Only a reader that has read a chunk counts one.
LEMMA OthersCountNothing ==
    ASSUME RegistryInv, UnstartedSilent, [Next]_vars,
           \A a \in Launch : \A events, pauses \in BOOLEAN : ~ReadChunk(a, events, pauses)
    PROVE  SameSeq
  <1>0. pty \in [Launch -> Pty]
    BY DEF RegistryInv, TypeOK
  <1>1. CASE UNCHANGED pty
    BY <1>1 DEF SameSeq
  <1>2. ASSUME NEW a \in Launch, NEW q, q.seq = pty[a].seq, pty' = [pty EXCEPT ![a] = q]
        PROVE  SameSeq
    BY <1>0, <1>2 DEF SameSeq
  <1>3. ASSUME NEW s \in Session, NEW a \in Launch, NEW tap \in BOOLEAN,
               SpawnFails(s, a, tap) \/ SpawnRefused(s, a, tap) \/ SpawnSucceeds(s, a, tap)
        PROVE  SameSeq
    <2>1. a \notin Launched
          /\ pty' \in {[pty EXCEPT ![a] = FailedPty(s, tap)], [pty EXCEPT ![a] = RefusedPty(s, tap)],
                       [pty EXCEPT ![a] = StartedPty(s, tap)]}
      BY <1>3 DEF SpawnFails, SpawnRefused, SpawnSucceeds
    <2>2. pty[a].seq = 0
      BY <2>1, SessionAssumption DEF RegistryInv, ReadersHaveSession, Launched, UnstartedSilent
    <2>3. FailedPty(s, tap).seq = 0 /\ RefusedPty(s, tap).seq = 0 /\ StartedPty(s, tap).seq = 0
      BY DEF FailedPty, RefusedPty, StartedPty, Unlaunched
    <2> QED BY <1>2, <2>1, <2>2, <2>3
  <1>4. \A p \in Pty, op \in PtyOp, b \in Launch \cup {NoLaunch}, stop \in BOOLEAN,
             reason \in {"UserClosed", "ProcessExited"} :
           /\ AfterClose(p).seq = p.seq /\ AfterOp(p, op).seq = p.seq
           /\ AfterEof(p, b).seq = p.seq /\ AfterMark(p).seq = p.seq
           /\ AfterWrite(p, stop).seq = p.seq /\ Ended(p, reason).seq = p.seq
           /\ Exited(p).seq = p.seq
    BY DEF Pty, AfterClose, AfterOp, AfterEof, AfterMark, AfterWrite, Ended, Exited
  <1>5. ASSUME NEW s \in Session, CloseFound(s) PROVE SameSeq
    <2>1. registry[s] \in Launch /\ pty' = [pty EXCEPT ![registry[s]] = AfterClose(pty[registry[s]])]
      BY <1>5 DEF CloseFound, RegistryInv, TypeOK
    <2> QED BY <1>0, <1>2, <1>4, <2>1 DEF PtyOp
  <1>6. ASSUME NEW s \in Session, NEW op \in PtyOp, SendOp(s, op) PROVE SameSeq
    <2>1. CASE registry[s] = NoLaunch
      BY <1>1, <1>6, <2>1 DEF SendOp
    <2>2. CASE registry[s] # NoLaunch
      <3>1. registry[s] \in Launch /\ pty' = [pty EXCEPT ![registry[s]] = AfterOp(pty[registry[s]], op)]
        BY <1>6, <2>2 DEF SendOp, RegistryInv, TypeOK
      <3> QED BY <1>0, <1>2, <1>4, <3>1
    <2> QED BY <2>1, <2>2
  <1>7. ASSUME NEW s \in Session, HandleInput(s) \/ HandleResize(s) \/ ShutdownPanics(s)
        PROVE  SameSeq
    <2>1. SendOp(s, "Write") \/ SendOp(s, "Resize") \/ SendOp(s, "Shutdown")
      BY <1>7 DEF HandleInput, HandleResize, ShutdownPanics, SendOp
    <2> QED BY <1>6, <2>1 DEF PtyOp
  <1>8. ASSUME NEW a \in Launch, ReadEnds(a) PROVE SameSeq
    <2>1. Found(a) \in Launch \cup {NoLaunch}
      BY <1>8 DEF ReadEnds, Found, RegistryInv, TypeOK, ReadersHaveSession
    <2>2. pty' = [pty EXCEPT ![a] = AfterEof(pty[a], Found(a))]
      BY <1>8 DEF ReadEnds
    <2> QED BY <1>0, <1>2, <1>4, <2>1, <2>2 DEF PtyOp
  <1>9. ASSUME NEW a \in Launch, MarkEnded(a) PROVE SameSeq
    <2> DEFINE f == pty[a].found
               pty1 == [pty EXCEPT ![f] = Ended(pty[f], "ProcessExited")]
    <2>1. f \in Launch
      BY <1>9 DEF MarkEnded, RegistryInv, FoundStarted
    <2>2. \A b \in Launch : pty1[b].seq = pty[b].seq
      BY <1>0, <1>4, <2>1 DEF PtyOp
    <2>3. pty1[a] \in Pty /\ pty1 \in [Launch -> Pty]
      <3>1. pty[f].reader # "off"
        BY <1>9 DEF MarkEnded, RegistryInv, FoundStarted
      <3>2. Ended(pty[f], "ProcessExited") \in Pty
        BY <1>0, <2>1, <3>1, EndKeeps DEF Keeps
      <3> QED BY <1>0, <2>1, <3>2
    <2>4. pty' = [pty1 EXCEPT ![a] = AfterMark(pty1[a])]
      BY <1>9 DEF MarkEnded
    <2> HIDE DEF pty1
    <2>5. \A b \in Launch : pty'[b] = IF b = a THEN AfterMark(pty1[a]) ELSE pty1[b]
      BY <2>3, <2>4
    <2>6. AfterMark(pty1[a]).seq = pty1[a].seq
      BY <1>4, <2>3 DEF PtyOp
    <2> QED BY <2>2, <2>5, <2>6 DEF SameSeq
  <1>10. ASSUME NEW a \in Launch, WriterStep(a) \/ ChildExits(a) PROVE SameSeq
    <2>1. pty' = [pty EXCEPT ![a] = Exited(pty[a])]
          \/ \E stop \in BOOLEAN : pty' = [pty EXCEPT ![a] = AfterWrite(pty[a], stop)]
      BY <1>10 DEF WriterStep, ChildExits
    <2> QED BY <1>0, <1>2, <1>4, <2>1 DEF PtyOp
  <1> QED
    BY <1>1, <1>3, <1>5, <1>7, <1>8, <1>9, <1>10
    DEF Next, Dispatch, Shutdown, Reader, Receive, PeerLeaves, WriteReply, WriteQueued, WriteFails,
        CloseUnknown, HandleIgnored, HandleProbe, Goodbye, StdinEof, ShutdownEmpty,
        ProxyExchange, vars

\* What is written and queued loses nothing by a step that reads no chunk, and
\* gains at most a message that is none.
LEMMA OthersAddNoChunk ==
    ASSUME RegistryInv, AckInv, [Next]_vars,
           \A a \in Launch : \A events, pauses \in BOOLEAN : ~ReadChunk(a, events, pauses)
    PROVE  \/ wire' \o outq' = wire \o outq
           \/ \E p, q \in Seq(Msg), m \in Msg :
                /\ m.kind # "TerminalData"
                /\ wire \o outq = p \o q /\ wire' \o outq' = Append(p, m) \o q
  <1>0. wire \in Seq(Msg) /\ outq \in Seq(Msg) /\ wire \o outq \in Seq(Msg) /\ reply \in Msg
    BY DEF RegistryInv, TypeOK
  <1>1. CASE UNCHANGED <<wire, outq>>
    BY <1>1
  <1>2. CASE WriteReply
    <2>1. reply.kind # "TerminalData"
      BY DEF AckInv, OutputKinds
    <2>2. wire' \o outq' = Append(wire, reply) \o outq
      BY <1>2 DEF WriteReply
    <2> QED BY <1>0, <2>1, <2>2
  <1>3. CASE WriteQueued
    <2>1. wire' = Append(wire, Head(outq)) /\ outq' = Tail(outq) /\ outq # <<>>
      BY <1>3 DEF WriteQueued
    <2>2. wire' \o outq' = wire \o outq
      BY <1>0, <2>1, HeadToEnd
    <2> QED BY <2>2
  <1>4. ASSUME NEW m \in Msg, m.kind # "TerminalData", wire' = wire, outq' = Append(outq, m)
        PROVE  \E p, q \in Seq(Msg), n \in Msg :
                /\ n.kind # "TerminalData"
                /\ wire \o outq = p \o q /\ wire' \o outq' = Append(p, n) \o q
    <2>1. wire \o outq = (wire \o outq) \o <<>>
          /\ wire' \o outq' = Append(wire \o outq, m) \o <<>>
      BY <1>0, <1>4
    <2>2. <<>> \in Seq(Msg)
      OBVIOUS
    <2> QED BY <1>0, <1>4, <2>1, <2>2
  <1>5. ASSUME NEW s \in Session, NEW a \in Launch, NEW tap \in BOOLEAN, SpawnSucceeds(s, a, tap)
        PROVE  \E p, q \in Seq(Msg), n \in Msg :
                /\ n.kind # "TerminalData"
                /\ wire \o outq = p \o q /\ wire' \o outq' = Append(p, n) \o q
    <2> DEFINE m == Message("SessionEvent", s, a, 0)
    <2>1. m \in Msg /\ m.kind # "TerminalData"
      BY MessageType DEF MsgKinds, OutputKinds, Message
    <2>2. wire' = wire /\ outq' = Append(outq, m)
      BY <1>5 DEF SpawnSucceeds, Take
    <2> HIDE DEF m
    <2> QED BY <1>4, <2>1, <2>2
  <1>6. ASSUME NEW a \in Launch, ProxyExchange(a)
        PROVE  \E p, q \in Seq(Msg), n \in Msg :
                /\ n.kind # "TerminalData"
                /\ wire \o outq = p \o q /\ wire' \o outq' = Append(p, n) \o q
    <2> DEFINE m == Message("HttpTraffic", pty[a].session, a, 0)
    <2>1. pty[a].session \in Session \cup {NoSession}
      BY DEF RegistryInv, TypeOK, Pty
    <2>2. m \in Msg /\ m.kind # "TerminalData"
      BY <2>1, MessageType DEF MsgKinds, OutputKinds, Message
    <2>3. wire' = wire /\ outq' = Append(outq, m)
      BY <1>6 DEF ProxyExchange
    <2> HIDE DEF m
    <2> QED BY <1>4, <2>2, <2>3
  <1> QED
    BY <1>1, <1>2, <1>3, <1>5, <1>6
    DEF Next, Dispatch, Shutdown, Reader, Receive, PeerLeaves, WriteFails, Take, SpawnFails,
        SpawnRefused, CloseFound, CloseUnknown, HandleInput, HandleResize, HandleIgnored,
        HandleProbe, Goodbye, StdinEof, ShutdownEmpty, ShutdownPanics, ReadEnds, MarkEnded,
        WriterStep, ChildExits, vars

LEMMA OthersInOrder ==
    ASSUME RegistryInv, AckInv, OrderInv, [Next]_vars,
           \A a \in Launch : \A events, pauses \in BOOLEAN : ~ReadChunk(a, events, pauses)
    PROVE  OutputInOrder'
  <1> SUFFICES ASSUME NEW a \in Launch PROVE ChunksInOrder(wire' \o outq', a, pty'[a].seq)
    BY DEF OutputInOrder
  <1>1. pty'[a].seq = pty[a].seq /\ pty[a].seq \in Nat
    BY OthersCountNothing DEF OrderInv, SameSeq, RegistryInv, TypeOK, Pty
  <1>2. ChunksInOrder(wire \o outq, a, pty[a].seq)
    BY DEF OrderInv, OutputInOrder
  <1>3. CASE wire' \o outq' = wire \o outq
    BY <1>1, <1>2, <1>3
  <1>4. ASSUME NEW p \in Seq(Msg), NEW q \in Seq(Msg), NEW m \in Msg, m.kind # "TerminalData",
               wire \o outq = p \o q, wire' \o outq' = Append(p, m) \o q
        PROVE  ChunksInOrder(wire' \o outq', a, pty'[a].seq)
    BY <1>1, <1>2, <1>4, InsertedInOrder
  <1> QED BY <1>3, <1>4, OthersAddNoChunk

LEMMA ReadChunkInOrder ==
    ASSUME RegistryInv, OrderInv, NEW a \in Launch, NEW events \in BOOLEAN,
           NEW pauses \in BOOLEAN, ReadChunk(a, events, pauses)
    PROVE  OutputInOrder'
  <1> SUFFICES ASSUME NEW b \in Launch PROVE ChunksInOrder(wire' \o outq', b, pty'[b].seq)
    BY DEF OutputInOrder
  <1> DEFINE event == Message("AgentEvent", pty[a].session, a, pty[a].seq)
             data == Message("TerminalData", pty[a].session, a, pty[a].seq)
             sent == wire \o outq
             q == Parsed(a, events)
  <1>0. pty[a] \in Pty /\ pty \in [Launch -> Pty] /\ pty[b].seq \in Nat /\ pty[a].seq \in Nat
        /\ wire \in Seq(Msg) /\ outq \in Seq(Msg) /\ sent \in Seq(Msg)
    BY DEF RegistryInv, TypeOK, Pty
  <1>1. event \in Msg /\ data \in Msg
    BY <1>0, MessageType DEF Pty, MsgKinds, OutputKinds
  <1>2. event.kind # "TerminalData" /\ data.kind = "TerminalData" /\ data.launch = a
        /\ data.seq = pty[a].seq
    BY DEF Message
  <1>3. wire' \o outq' = wire \o (outq \o (q \o <<data>>))
    BY DEF ReadChunk, Chunk
  <1>4. q = <<event>> \/ q = <<>>
    BY DEF Parsed
  <1> HIDE DEF event, data, q
  <1>5. wire' \o outq' = Append(sent \o q, data) /\ sent \o q \in Seq(Msg)
    <2>1. CASE q = <<event>>
      BY <1>0, <1>1, <1>3, <2>1, SMTT(30)
    <2>2. CASE q = <<>>
      BY <1>0, <1>1, <1>3, <2>2
    <2> QED BY <1>4, <2>1, <2>2
  <1>6. ChunksInOrder(sent \o q, b, pty[b].seq)
    <2>0. ChunksInOrder(sent, b, pty[b].seq)
      BY DEF OrderInv, OutputInOrder
    <2>1. CASE q = <<event>>
      <3>1. sent \o q = Append(sent, event)
        BY <1>0, <1>1, <2>1
      <3>2. ~ChunkOf(b, event)
        BY <1>2 DEF ChunkOf
      <3> HIDE DEF sent
      <3> QED BY <1>0, <1>1, <2>0, <3>1, <3>2, AppendedInOrder
    <2>2. CASE q = <<>>
      BY <1>0, <2>0, <2>2
    <2> QED BY <1>4, <2>1, <2>2
  <1>7. pty'[b].seq = IF b = a THEN pty[b].seq + 1 ELSE pty[b].seq
    <2>1. pty' = [pty EXCEPT ![a] = AfterRead(pty[a], pty[a].seq + 1, pauses)]
      BY DEF ReadChunk
    <2>2. AfterRead(pty[a], pty[a].seq + 1, pauses).seq = pty[a].seq + 1
      BY <1>0 DEF AfterRead, Pty
    <2> QED BY <1>0, <2>1, <2>2
  <1>8. (ChunkOf(b, data) <=> b = a) /\ (ChunkOf(b, data) => data.seq = pty[b].seq)
    BY <1>2 DEF ChunkOf
  <1> HIDE DEF sent
  <1>9. ChunksInOrder(Append(sent \o q, data), b,
                      IF ChunkOf(b, data) THEN pty[b].seq + 1 ELSE pty[b].seq)
    BY <1>0, <1>1, <1>5, <1>6, <1>8, AppendedInOrder
  <1> QED BY <1>5, <1>7, <1>8, <1>9

LEMMA NextOrder ==
    ASSUME RegistryInv, AckInv, OrderInv, [Next]_vars
    PROVE  OrderInv'
  <1>1. OutputInOrder'
    BY OthersInOrder, ReadChunkInOrder
  <1>2. UnstartedSilent'
    <2>1. ASSUME NEW a \in Launch, NEW events \in BOOLEAN, NEW pauses \in BOOLEAN,
                 ReadChunk(a, events, pauses)
          PROVE  UnstartedSilent'
      <3>1. PtyKept
        BY <2>1, ReaderKeeps DEF Reader
      <3>2. pty[a].reader # "off" /\ \A b \in Launch \ {a} : pty'[b] = pty[b]
        BY <2>1 DEF ReadChunk, RegistryInv, TypeOK
      <3> QED BY <3>1, <3>2 DEF PtyKept, Keeps, OrderInv, UnstartedSilent
    <2>2. ASSUME SameSeq, NEW a \in Launch, pty'[a].reader = "off" PROVE pty[a].reader = "off"
      BY <2>2, StepKeepsOrLaunches DEF PtyKept, Keeps
    <2> QED BY <2>1, <2>2, OthersCountNothing DEF OrderInv, UnstartedSilent, SameSeq
  <1> QED BY <1>1, <1>2 DEF OrderInv

LEMMA InitOrder == Init => OrderInv
  <1> SUFFICES ASSUME Init PROVE OrderInv
    OBVIOUS
  <1>1. \A a \in Launch : pty[a].seq = 0
    BY DEF Init, Unlaunched
  <1>2. wire \o outq = <<>>
    BY DEF Init
  <1> QED BY <1>1, <1>2 DEF OrderInv, OutputInOrder, UnstartedSilent, ChunksInOrder

\* Every chunk a reader takes from a PTY is on its way to the wire or on it
\* exactly once, in the order it was read, however the reader threads, the
\* answers, the pauses and the closes interleave.
THEOREM ChunksOnceInOrder == Spec => []OutputInOrder
  <1>1. RegistryInv /\ AckInv /\ OrderInv /\ [Next]_vars => (RegistryInv /\ AckInv /\ OrderInv)'
    BY NextInv, NextAck, NextOrder
  <1>2. OrderInv => OutputInOrder
    BY DEF OrderInv
  <1> QED BY <1>1, <1>2, InitInv, InitAck, InitOrder, PTL DEF Spec
=============================================================================
