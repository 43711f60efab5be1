---------------------------- MODULE TapProxy_proof ----------------------------
(***************************************************************************)
(* What module TapProxy promises of the records of a session's exchanges   *)
(* and of their routing, proved for any number of connections, exchanges   *)
(* and providers.  The invariant is IInv: what each stage of an exchange   *)
(* knows of its body and of its record.                                    *)
(***************************************************************************)
EXTENDS TapProxy, FiniteSetTheorems, WellFoundedInduction, TLAPS

\* Some of the upstream's answer was made ready for the agent.
Answering(e) == e.mode \in {"tee", "stream"} \/ e.given > 0

\* The exchange of e has a record: it was answered, and its body is not going to
\* make one.
Recorded(e) == e.at \in {"ended", "replying", "over"} /\ Answering(e) /\ ~e.ctx

\* What was captured is a prefix of what was given.
Captures(e) == e.captured = Lesser(e.given, Cap) /\ (e.truncated <=> e.given > Cap)

\* What each stage knows of the body and of the context of the record.
InStage(e) ==
    /\ e.at \in {"none", "reading"} => e.route = NoRoute
    /\ e.at \in {"none", "reading", "connecting", "tunnelled", "sending"} =>
         e.mode = "none" /\ e.given = 0 /\ ~e.ctx
    /\ e.at = "collecting" => e.mode = "whole" /\ e.given = 0 /\ ~e.ctx
    /\ e.at = "body" => e.mode \in {"tee", "stream"} /\ e.ctx
    /\ e.at = "ended" => e.mode \in {"tee", "stream"}
    /\ e.at = "emitting" => Answering(e) /\ ~e.ctx /\ e.next # "none"
    /\ e.next = "ended" => e.mode \in {"tee", "stream"}
    /\ e.at \in {"replying", "over"} => ~e.ctx

\* An exchange that was routed keeps the connection it was routed for.
OnConn(e) == e.at # "none" => e.conn \in Conn /\ conn[e.conn].at # "none"

\* RoutedToOwner of one exchange, with the host that a provider without one of its
\* own gets: the strengthening that routing itself keeps.
Owned(e) ==
    e.route # NoRoute /\ env.providers # <<>> =>
        \E k \in DOMAIN env.providers :
            LET p == env.providers[k] IN
            /\ e.route.token = p.key /\ e.route.kind = p.kind
            /\ e.route.host = HostOf(p, conn[e.conn].target)
            /\ \/ e.model \in p.models
               \/ \A j \in DOMAIN env.providers : e.model \notin env.providers[j].models

Sound(e) == Captures(e) /\ InStage(e) /\ OnConn(e) /\ Owned(e)

HasRecord(x) == \E i \in DOMAIN traffic : traffic[i].exchange = x

\* The record of an exchange is of that exchange.
Matches(r, e) == r.body = e.captured /\ r.truncated = e.truncated /\ r.host = e.route.host

TargetsKnown == \A c \in Conn : conn[c].at # "none" => conn[c].target \in Target
AllSound == \A x \in Exchange : Sound(exchange[x])
RecordedOnes == \A x \in Exchange : HasRecord(x) <=> Recorded(exchange[x])
OneEach == \A i, j \in DOMAIN traffic : traffic[i].exchange = traffic[j].exchange => i = j
AllMatch == \A i \in DOMAIN traffic : Matches(traffic[i], exchange[traffic[i].exchange])

IInv ==
    /\ TypeOK
    /\ TargetsKnown
    /\ AllSound
    /\ RecordedOnes
    /\ OneEach
    /\ AllMatch
    /\ NumberedOnce

-----------------------------------------------------------------------------
\* A set of natural numbers that is not empty has a least one.
LEMMA LeastNatural ==
    ASSUME NEW S, S \subseteq Nat, S # {}
    PROVE  \E k \in S : \A j \in S : k <= j
<1>. DEFINE R == StrictSubsetOrdering(Nat)
            F == FiniteSubsetsOf(Nat)
            T == {1..k : k \in S}
<1>1. T \subseteq F
  <2>1. ASSUME NEW k \in Nat PROVE 1..k \in F
    <3>1. IsFiniteSet(1..k)
      BY FS_Interval
    <3>. QED BY <3>1 DEF FiniteSubsetsOf
  <2>. HIDE DEF F
  <2>. QED BY <2>1
<1>2. T # {}
  OBVIOUS
<1>3. IsWellFoundedOn(R, F)
  BY FS_StrictSubsetOrderingWellFounded
<1>4. PICK t \in T : \A u \in T : ~ (<<u, t>> \in R)
  <2>. HIDE DEF R, F, T
  <2>. QED BY <1>1, <1>2, <1>3, WFMin
<1>5. PICK k \in S : t = 1..k
  OBVIOUS
<1>6. ASSUME NEW j \in S, j < k PROVE FALSE
  <2>1. j \in Nat /\ k \in Nat
    OBVIOUS
  <2>2. 1..j \subseteq 1..k /\ k \in 1..k /\ k \notin 1..j
    BY <2>1, <1>6
  <2>3. <<1..j, t>> \in R
    BY <1>5, <2>1, <2>2 DEF StrictSubsetOrdering
  <2>4. 1..j \in T
    OBVIOUS
  <2>. HIDE DEF R, T
  <2>. QED BY <1>4, <2>3, <2>4
<1>7. \A j \in S : k <= j
  BY <1>6
<1>. QED BY <1>7

\* The first provider that serves a model exists where one serves it at all, and
\* the default is the first of the list.
LEMMA ChosenIsOwner ==
    ASSUME TypeOK, env.providers # <<>>, NEW model
    PROVE  \E k \in DOMAIN env.providers :
              /\ Chosen(model) = env.providers[k]
              /\ \/ model \in env.providers[k].models
                 \/ \A j \in DOMAIN env.providers : model \notin env.providers[j].models
<1>. DEFINE lists == {k \in DOMAIN env.providers : model \in env.providers[k].models}
<1>1. env.providers \in Seq(Provider)
  BY TapAssumption DEF TypeOK
<1>2. 1 \in DOMAIN env.providers /\ lists \subseteq Nat
  BY <1>1
<1>3. CASE lists = {}
  BY <1>2, <1>3 DEF Chosen
<1>4. CASE lists # {}
  <2>3. \E k \in lists : \A j \in lists : k <= j
    BY <1>2, <1>4, LeastNatural
  <2>4. Chosen(model) = env.providers[CHOOSE k \in lists : \A j \in lists : k <= j]
    BY <1>4 DEF Chosen
  <2>. QED BY <2>3, <2>4
<1>. QED BY <1>3, <1>4

-----------------------------------------------------------------------------
\* At the start there is no exchange and no record.
LEMMA InitIInv == Init => IInv
<1>. SUFFICES ASSUME Init PROVE IInv
  OBVIOUS
<1>. USE TapAssumption
<1>1. NoExchange \in ExchangeType
  BY DEF NoExchange, NoRoute, ExchangeType, RouteType, Places, Waiting, Modes
<1>2. TypeOK
  BY <1>1 DEF Init, TypeOK, ConnType
<1>3. Sound(NoExchange)
  BY DEF NoExchange, NoRoute, Sound, Captures, InStage, OnConn, Owned, Lesser
<1>4. TargetsKnown /\ AllSound /\ RecordedOnes /\ OneEach /\ AllMatch
  BY <1>3 DEF Init, TargetsKnown, AllSound, RecordedOnes, HasRecord, Recorded, NoExchange, OneEach, AllMatch
<1>5. Emitting = {} /\ Numbers = {}
  BY DEF Init, Emitting, Numbers, NoExchange
<1>6. NumberedOnce
  BY <1>5, FS_EmptySet DEF Init, NumberedOnce
<1>. QED BY <1>2, <1>4, <1>6 DEF IInv

-----------------------------------------------------------------------------
(* What a move of one exchange has to show *)

\* Exchanges that wait for their number to be sent are finitely many.
LEMMA EmittingFinite == IsFiniteSet(Emitting)
BY TapAssumption, FS_Subset DEF Emitting

\* What is sound of a record stays sound when another one of the same connections
\* is made: env and conn are all it depends on.
LEMMA OthersSound ==
    ASSUME AllSound, NEW x \in Exchange, NEW new, Move(x, new), exchange \in [Exchange -> ExchangeType],
           Sound(new)
    PROVE  AllSound'
BY DEF AllSound, Move, Sound, Captures, InStage, OnConn, Owned, Answering, HostOf

\* A move that takes no number keeps the invariant, if the new record is sound
\* and matches what has been reported.
LEMMA QuietMove ==
    ASSUME IInv, NEW x \in Exchange, NEW new \in ExchangeType, Move(x, new), Quiet,
           exchange[x].at # "emitting", new.at # "emitting",
           Sound(new), Recorded(exchange[x]) <=> Recorded(new),
           Recorded(new) => /\ new.captured = exchange[x].captured
                            /\ new.truncated = exchange[x].truncated
                            /\ new.route = exchange[x].route
    PROVE  IInv'
<1>1. TypeOK'
  BY DEF IInv, TypeOK, Move, Quiet
<1>2. TargetsKnown' /\ OneEach'
  BY DEF IInv, TargetsKnown, OneEach, Move, Quiet
<1>3. AllSound'
  BY OthersSound DEF IInv, TypeOK
<1>4. RecordedOnes'
  BY DEF IInv, TypeOK, RecordedOnes, HasRecord, Recorded, Answering, Move, Quiet
<1>5. AllMatch'
  <2>. SUFFICES ASSUME NEW i \in DOMAIN traffic
               PROVE  Matches(traffic[i], exchange'[traffic[i].exchange])
    BY DEF AllMatch, Quiet, Matches
  <2>1. traffic[i].exchange \in Exchange /\ HasRecord(traffic[i].exchange)
    <3>1. traffic \in Seq(RecordType)
      BY DEF IInv, TypeOK
    <3>2. traffic[i] \in RecordType
      BY <3>1
    <3>. QED BY <3>2 DEF RecordType, HasRecord
  <2>2. Matches(traffic[i], exchange[traffic[i].exchange])
    BY DEF IInv, AllMatch
  <2>3. CASE traffic[i].exchange = x
    BY <2>1, <2>2, <2>3 DEF IInv, TypeOK, RecordedOnes, Matches, Move
  <2>4. CASE traffic[i].exchange # x
    BY <2>1, <2>2, <2>4 DEF IInv, TypeOK, Move
  <2>. QED BY <2>3, <2>4
<1>6. NumberedOnce'
  <2>1. Emitting' = Emitting /\ \A y \in Emitting : exchange'[y].number = exchange[y].number
    BY DEF IInv, TypeOK, Emitting, Move
  <2>2. Numbers' = Numbers
    BY <2>1 DEF Numbers, Quiet
  <2>. QED BY <2>1, <2>2 DEF IInv, NumberedOnce, Quiet
<1>. QED BY <1>1, <1>2, <1>3, <1>4, <1>5, <1>6 DEF IInv

\* An answered exchange without a record that takes a number keeps the invariant:
\* the number is new, and the exchange one more that is emitting.
LEMMA NumberMove ==
    ASSUME IInv, NEW x \in Exchange, NEW e \in ExchangeType, NEW next \in {"ended", "replying", "over"},
           TakeNumber(x, e, next), exchange[x].at # "emitting", ~Recorded(exchange[x]),
           e.at # "none", Captures(e), Answering(e), OnConn(e), Owned(e),
           next = "ended" => e.mode \in {"tee", "stream"}
    PROVE  IInv'
<1>. DEFINE new == [e EXCEPT !.at = "emitting", !.ctx = FALSE, !.number = seq, !.next = next]
<1>1. Move(x, new) /\ seq' = seq + 1 /\ UNCHANGED traffic
  BY DEF TakeNumber
<1>2. new \in ExchangeType
  BY DEF IInv, TypeOK, ExchangeType, Places, Waiting
<1>3. new.at = "emitting" /\ new.number = seq /\ ~Recorded(new)
  BY DEF ExchangeType, Recorded
<1>4. Sound(new)
  BY DEF ExchangeType, Sound, Captures, InStage, OnConn, Owned, Answering
<1>. HIDE DEF new
<1>5. TypeOK'
  BY <1>1, <1>2 DEF IInv, TypeOK, Move
<1>6. TargetsKnown' /\ OneEach'
  BY <1>1 DEF IInv, TargetsKnown, OneEach, Move
<1>7. AllSound'
  BY <1>1, <1>4, OthersSound DEF IInv, TypeOK
<1>8. RecordedOnes'
  BY <1>1, <1>3 DEF IInv, TypeOK, RecordedOnes, HasRecord, Recorded, Answering, Move
<1>9. AllMatch'
  <2>. SUFFICES ASSUME NEW i \in DOMAIN traffic
               PROVE  Matches(traffic[i], exchange'[traffic[i].exchange])
    BY <1>1 DEF AllMatch, Matches
  <2>1. traffic[i].exchange \in Exchange /\ HasRecord(traffic[i].exchange)
    <3>1. traffic \in Seq(RecordType)
      BY DEF IInv, TypeOK
    <3>2. traffic[i] \in RecordType
      BY <3>1
    <3>. QED BY <3>2 DEF RecordType, HasRecord
  <2>2. Matches(traffic[i], exchange[traffic[i].exchange])
    BY DEF IInv, AllMatch
  <2>3. traffic[i].exchange # x
    BY <2>1 DEF IInv, RecordedOnes
  <2>. QED BY <1>1, <2>1, <2>2, <2>3 DEF IInv, TypeOK, Move
<1>10. NumberedOnce'
  <2>1. Emitting' = Emitting \cup {x} /\ x \notin Emitting
    BY <1>1, <1>3 DEF IInv, TypeOK, Emitting, Move
  <2>2. Cardinality(Emitting') = Cardinality(Emitting) + 1
    BY <2>1, EmittingFinite, FS_AddElement
  <2>3. exchange'[x].number = seq /\ \A y \in Emitting : exchange'[y].number = exchange[y].number
    BY <1>1, <1>3, <2>1 DEF IInv, TypeOK, Emitting, Move
  <2>4. Numbers' = Numbers \cup {seq}
    BY <1>1, <2>1, <2>3 DEF Numbers
  <2>5. seq \in Nat /\ Len(traffic) \in Nat /\ Cardinality(Emitting) \in Nat
    BY EmittingFinite, FS_CardinalityType DEF IInv, TypeOK
  <2>6. Numbers' = 0..seq
    BY <2>4, <2>5 DEF IInv, NumberedOnce
  <2>. QED BY <1>1, <2>2, <2>5, <2>6 DEF IInv, NumberedOnce
<1>. QED BY <1>5, <1>6, <1>7, <1>8, <1>9, <1>10 DEF IInv

\* What is reported is the one record of its exchange, and its number leaves the
\* exchange for the channel.
LEMMA ReportStep ==
    ASSUME IInv, NEW x \in Exchange, Report(x)
    PROVE  IInv'
<1>. DEFINE e == exchange[x]
            new == [e EXCEPT !.at = e.next, !.number = 0, !.next = "none"]
            r == Record(x)
<1>1. Move(x, new) /\ traffic' = Append(traffic, r) /\ UNCHANGED seq /\ e.at = "emitting"
  BY DEF Report
<1>2. e \in ExchangeType /\ Sound(e) /\ ~Recorded(e) /\ ~HasRecord(x)
  BY <1>1 DEF IInv, TypeOK, AllSound, RecordedOnes, Recorded
<1>3. e.next \in {"ended", "replying", "over"}
  BY <1>1, <1>2 DEF Sound, InStage, ExchangeType
<1>4. new \in ExchangeType
  BY <1>2, <1>3 DEF ExchangeType, Places, Waiting
<1>5. Sound(new) /\ Recorded(new) /\ new.at # "emitting"
  BY <1>1, <1>2, <1>3 DEF ExchangeType, Sound, Captures, InStage, OnConn, Owned, Answering, Recorded
<1>6. r \in RecordType /\ r.exchange = x /\ Matches(r, new) /\ r.seq = e.number
  <2>1. r = [exchange |-> x, seq |-> e.number, host |-> e.route.host,
             body |-> e.captured, truncated |-> e.truncated]
    BY DEF Record
  <2>2. e.route.host \in Host \cup {None}
    BY <1>2 DEF ExchangeType, RouteType
  <2>. QED BY <1>2, <2>1, <2>2 DEF ExchangeType, RecordType, Matches
<1>. HIDE DEF new, r, e
<1>7. traffic \in Seq(RecordType) /\ traffic' \in Seq(RecordType) /\ Len(traffic') = Len(traffic) + 1
      /\ traffic'[Len(traffic) + 1] = r
      /\ \A i \in DOMAIN traffic : traffic'[i] = traffic[i] /\ traffic[i] \in RecordType
  BY <1>1, <1>6 DEF IInv, TypeOK
<1>8. DOMAIN traffic' = DOMAIN traffic \cup {Len(traffic) + 1} /\ Len(traffic) + 1 \notin DOMAIN traffic
  BY <1>7
<1>9. \A i \in DOMAIN traffic : traffic[i].exchange # x /\ traffic[i].exchange \in Exchange
  BY <1>2, <1>7 DEF HasRecord, RecordType
<1>10. TypeOK'
  BY <1>1, <1>4, <1>7 DEF IInv, TypeOK, Move
<1>11. TargetsKnown' /\ AllSound'
  BY <1>1, <1>5, OthersSound DEF IInv, TypeOK, TargetsKnown, Move
<1>12. OneEach'
  BY <1>6, <1>7, <1>8, <1>9 DEF IInv, OneEach
<1>13. RecordedOnes'
  <2>1. HasRecord(x)'
    BY <1>6, <1>7, <1>8 DEF HasRecord
  <2>2. \A y \in Exchange : y # x => (HasRecord(y)' <=> HasRecord(y))
    BY <1>6, <1>7, <1>8 DEF HasRecord
  <2>3. exchange'[x] = new /\ \A y \in Exchange : y # x => exchange'[y] = exchange[y]
    BY <1>1 DEF IInv, TypeOK, Move
  <2>. QED BY <1>5, <2>1, <2>2, <2>3 DEF IInv, RecordedOnes, Recorded, Answering
<1>14. AllMatch'
  <2>1. exchange'[x] = new /\ \A y \in Exchange : y # x => exchange'[y] = exchange[y]
    BY <1>1 DEF IInv, TypeOK, Move
  <2>2. \A i \in DOMAIN traffic : Matches(traffic[i], exchange[traffic[i].exchange])
    BY DEF IInv, AllMatch
  <2>3. \A i \in DOMAIN traffic : Matches(traffic'[i], exchange'[traffic'[i].exchange])
    BY <1>7, <1>9, <2>1, <2>2 DEF Matches
  <2>. QED BY <1>6, <1>7, <1>8, <2>1, <2>3 DEF AllMatch, Matches
<1>15. NumberedOnce'
  <2>1. exchange'[x] = new /\ \A y \in Exchange : y # x => exchange'[y] = exchange[y]
    BY <1>1 DEF IInv, TypeOK, Move
  <2>2. x \in Emitting /\ Emitting' = Emitting \ {x}
    BY <1>1, <1>5, <2>1 DEF Emitting, e
  <2>3. Cardinality(Emitting') = Cardinality(Emitting) - 1 /\ Cardinality(Emitting) \in Nat
    BY <2>2, EmittingFinite, FS_RemoveElement, FS_CardinalityType
  <2>4. Numbers' = Numbers
    <3>1. {traffic'[i].seq : i \in DOMAIN traffic'} = {traffic[i].seq : i \in DOMAIN traffic} \cup {e.number}
      BY <1>6, <1>7, <1>8
    <3>2. {exchange'[y].number : y \in Emitting'} \cup {e.number} = {exchange[y].number : y \in Emitting}
      BY <2>1, <2>2 DEF e, Emitting
    <3>. QED BY <3>1, <3>2 DEF Numbers
  <2>. QED BY <1>1, <1>7, <2>3, <2>4 DEF IInv, TypeOK, NumberedOnce
<1>. QED BY <1>10, <1>11, <1>12, <1>13, <1>14, <1>15 DEF IInv

-----------------------------------------------------------------------------
(* The steps *)

\* What a connection does changes nothing of the exchanges on it: none is on a
\* connection that was not accepted, and the target of one that was stays.
LEMMA ConnStep ==
    ASSUME IInv, NEW c \in Conn, TlsAccept(c) \/ Close(c) \/ \E h \in Target : Accept(c, h)
    PROVE  IInv'
<1>1. UNCHANGED <<env, proxy, exchange, seq, traffic>>
  BY DEF TlsAccept, Close, Accept
<1>2. conn \in [Conn -> ConnType] /\ conn' \in [Conn -> ConnType]
  <2>1. conn \in [Conn -> ConnType]
    BY DEF IInv, TypeOK
  <2>2. CASE TlsAccept(c)
    BY <2>1, <2>2 DEF ConnType, TlsAccept
  <2>3. CASE Close(c)
    BY <2>1, <2>3 DEF ConnType, Close
  <2>4. ASSUME NEW h \in Target, Accept(c, h) PROVE conn' \in [Conn -> ConnType]
    BY <2>1, <2>4 DEF ConnType, Accept
  <2>. QED BY <2>1, <2>2, <2>3, <2>4
<1>3. \A d \in Conn : conn[d].at # "none" => conn'[d].at # "none" /\ conn'[d].target = conn[d].target
  BY <1>2 DEF ConnType, TlsAccept, Close, Accept
<1>4. TargetsKnown'
  BY <1>2 DEF IInv, TargetsKnown, ConnType, TlsAccept, Close, Accept
<1>5. AllSound'
  <2>. SUFFICES ASSUME NEW x \in Exchange PROVE Sound(exchange[x])'
    BY <1>1 DEF AllSound
  <2>1. Sound(exchange[x])
    BY DEF IInv, AllSound
  <2>2. Captures(exchange[x])' /\ InStage(exchange[x])'
    BY <1>1, <2>1 DEF Sound, Captures, InStage, Answering
  <2>3. OnConn(exchange[x])'
    BY <1>1, <1>3, <2>1 DEF Sound, OnConn
  <2>4. Owned(exchange[x])'
    <3>1. CASE exchange[x].at = "none"
      BY <1>1, <2>1, <3>1 DEF Sound, InStage, Owned
    <3>2. CASE exchange[x].at # "none"
      <4>1. conn'[exchange[x].conn].target = conn[exchange[x].conn].target
        BY <1>3, <2>1, <3>2 DEF Sound, OnConn
      <4>. QED BY <1>1, <2>1, <4>1 DEF Sound, Owned, HostOf
    <3>. QED BY <3>1, <3>2
  <2>. QED BY <2>2, <2>3, <2>4 DEF Sound
<1>6. TypeOK'
  BY <1>1, <1>2 DEF IInv, TypeOK
<1>7. RecordedOnes' /\ OneEach' /\ AllMatch'
  BY <1>1 DEF IInv, RecordedOnes, HasRecord, Recorded, Answering, OneEach, AllMatch, Matches
<1>8. NumberedOnce'
  BY <1>1 DEF IInv, NumberedOnce, Numbers, Emitting
<1>. QED BY <1>4, <1>5, <1>6, <1>7, <1>8 DEF IInv

\* The life of the proxy is not that of its exchanges.
LEMMA ProxyStep == ASSUME IInv, StartProxy \/ DropHandle \/ UNCHANGED vars PROVE IInv'
<1>1. UNCHANGED <<env, conn, exchange, seq, traffic>> /\ proxy' \in {"off", "on", "dropped"}
  BY DEF StartProxy, DropHandle, vars, IInv, TypeOK
<1>2. TypeOK' /\ TargetsKnown' /\ OneEach'
  BY <1>1 DEF IInv, TypeOK, TargetsKnown, OneEach
<1>3. AllSound'
  BY <1>1 DEF IInv, AllSound, Sound, Captures, InStage, OnConn, Owned, Answering, HostOf
<1>4. RecordedOnes' /\ AllMatch'
  BY <1>1 DEF IInv, RecordedOnes, HasRecord, Recorded, Answering, AllMatch, Matches
<1>5. NumberedOnce'
  BY <1>1 DEF IInv, NumberedOnce, Numbers, Emitting
<1>. QED BY <1>2, <1>3, <1>4, <1>5 DEF IInv

\* A request starts from nothing.
LEMMA RequestStep ==
    ASSUME IInv, NEW x \in Exchange, NEW c \in Conn, NEW body \in {"messages", "other"},
           NEW model \in Model \cup {None}, Request(x, c, body, model)
    PROVE  IInv'
<1>. DEFINE new == [NoExchange EXCEPT !.at = "reading", !.conn = c, !.body = body, !.model = model]
<1>1. Move(x, new) /\ Quiet /\ exchange[x].at = "none" /\ conn[c].at = "serving"
  BY DEF Request
<1>2. new \in ExchangeType
  <2>1. NoExchange \in ExchangeType
    BY TapAssumption DEF NoExchange, NoRoute, ExchangeType, RouteType, Places, Waiting, Modes
  <2>. QED BY <2>1 DEF ExchangeType, Places, Waiting
<1>3. Sound(new) /\ ~Recorded(new) /\ new.at # "emitting"
  BY <1>1, TapAssumption
     DEF NoExchange, NoRoute, Sound, Captures, InStage, OnConn, Owned, Lesser, Recorded
<1>4. ~Recorded(exchange[x])
  BY <1>1 DEF Recorded
<1>. HIDE DEF new
<1>. QED BY <1>1, <1>2, <1>3, <1>4, QuietMove

\* The upstream that a request is routed to is of the right type, and that of the
\* provider whose key it gets.
LEMMA RouteStep == ASSUME IInv, NEW x \in Exchange, RouteRequest(x) PROVE IInv'
<1>. DEFINE e == exchange[x]
            route == RouteOf(x)
            new == [e EXCEPT !.at = "connecting", !.route = route]
            target == conn[e.conn].target
<1>1. Move(x, new) /\ Quiet /\ e.at = "reading"
  BY DEF RouteRequest
<1>2. e \in ExchangeType /\ Sound(e)
  BY DEF IInv, TypeOK, AllSound
<1>3. target \in Host
  BY <1>1, <1>2, TapAssumption DEF IInv, TargetsKnown, Sound, OnConn
<1>4. env.gateway \in Host \cup {None} /\ env.token \in Token \cup {None}
      /\ env.corporate \in Host \cup {None} /\ env.providers \in Seq(Provider)
  <2>. DEFINE E == [tap : BOOLEAN, providers : Seq(Provider), gateway : Host \cup {None},
                    token : Token \cup {None}, corporate : Host \cup {None}]
  <2>1. env \in E
    BY TapAssumption DEF IInv, TypeOK
  <2>. QED BY <2>1
<1>5. \A h : Via(h) \in Host \cup {None}
  BY <1>4 DEF Via
<1>6. route \in RouteType /\ (env.providers # <<>> =>
        \E k \in DOMAIN env.providers :
            LET p == env.providers[k] IN
            /\ route.token = p.key /\ route.kind = p.kind /\ route.host = HostOf(p, target)
            /\ \/ e.model \in p.models
               \/ \A j \in DOMAIN env.providers : e.model \notin env.providers[j].models)
  <2>1. route = Route(e.model, target)
    BY DEF RouteOf
  <2>2. CASE env.providers # <<>>
    <3>1. PICK k \in DOMAIN env.providers :
            /\ Chosen(e.model) = env.providers[k]
            /\ \/ e.model \in env.providers[k].models
               \/ \A j \in DOMAIN env.providers : e.model \notin env.providers[j].models
      BY <2>2, ChosenIsOwner DEF IInv
    <3>2. env.providers[k] \in Provider
      BY <1>4
    <3>3. HostOf(env.providers[k], target) \in Host
      BY <1>3, <3>2, TapAssumption DEF Provider, HostOf
    <3>4. route = [host |-> HostOf(env.providers[k], target), token |-> env.providers[k].key,
                   kind |-> env.providers[k].kind, via |-> Via(HostOf(env.providers[k], target))]
      BY <2>1, <2>2, <3>1 DEF Route
    <3>5. route \in RouteType
      BY <1>5, <3>2, <3>3, <3>4 DEF RouteType, Provider
    <3>. QED BY <3>1, <3>4, <3>5
  <2>3. CASE env.providers = <<>>
    <3>1. route \in RouteType
      BY <1>3, <1>4, <1>5, <2>1, <2>3 DEF Route, RouteType
    <3>. QED BY <2>3, <3>1
  <2>. QED BY <2>2, <2>3
<1>. HIDE DEF route
<1>7. new \in ExchangeType
  BY <1>2, <1>6 DEF ExchangeType, Places, Waiting
<1>8. Sound(new) /\ ~Recorded(new) /\ new.at # "emitting"
  <2>1. Owned(new)
    BY <1>2, <1>6 DEF Owned, ExchangeType
  <2>2. Captures(new) /\ InStage(new) /\ OnConn(new)
    BY <1>1, <1>2 DEF ExchangeType, Sound, Captures, InStage, OnConn, Answering
  <2>. QED BY <1>2, <2>1, <2>2 DEF Sound, Recorded, ExchangeType
<1>9. ~Recorded(e)
  BY <1>1 DEF Recorded
<1>. HIDE DEF new
<1>. QED BY <1>1, <1>7, <1>8, <1>9, QuietMove

\* The moves that take no number: each shows its record sound, and the one the
\* exchange has, if it has one, still matching.
LEMMA QuietSteps ==
    ASSUME IInv, NEW x \in Exchange,
           \/ Tunnel(x) \/ Connect(x) \/ Refuse(x) \/ (\E streaming \in BOOLEAN : Answer(x, streaming))
           \/ PassFrame(x) \/ BreakBody(x) \/ Reply(x) \/ Abandon(x)
    PROVE  IInv'
<1>. DEFINE e == exchange[x]
<1>. USE TapAssumption
<1>0. e \in ExchangeType /\ Sound(e)
  BY DEF IInv, TypeOK, AllSound
<1>1. CASE Tunnel(x)
  <2>. DEFINE new == [e EXCEPT !.at = "tunnelled"]
  <2>1. Move(x, new) /\ Quiet
    BY <1>1 DEF Tunnel
  <2>2. new \in ExchangeType /\ e.at # "emitting" /\ new.at # "emitting"
    BY <1>0, <1>1 DEF Tunnel, ExchangeType, Places, Waiting, Modes
  <2>3. Sound(new)
    BY <1>0, <1>1 DEF Tunnel, ExchangeType, Sound, Captures, InStage, OnConn, Owned, Answering, Waiting
  <2>4. (Recorded(e) <=> Recorded(new))
        /\ (Recorded(new) => /\ new.captured = e.captured /\ new.truncated = e.truncated
                              /\ new.route = e.route)
    BY <1>0, <1>1 DEF Tunnel, ExchangeType, Recorded, Answering, Sound, InStage, Waiting
  <2>. HIDE DEF new
  <2>. QED BY <2>1, <2>2, <2>3, <2>4, QuietMove
<1>2. CASE Connect(x)
  <2>. DEFINE sent == Forwarded(e.route.kind, e.body)
              new == [e EXCEPT !.at = "sending", !.sent = sent]
  <2>1. Move(x, new) /\ Quiet /\ e.at \in {"connecting", "tunnelled"}
    BY <1>2 DEF Connect
  <2>2. sent \in {"openai", "original"}
    BY DEF Forwarded
  <2>. HIDE DEF sent
  <2>3. new \in ExchangeType /\ new.at # "emitting"
    BY <1>0, <2>2, ZenonT(30) DEF ExchangeType, Places, Waiting
  <2>4. Sound(new) /\ ~Recorded(e) /\ ~Recorded(new)
    BY <1>0, <2>1 DEF ExchangeType, Sound, Captures, InStage, OnConn, Owned, Answering, Recorded
  <2>. HIDE DEF new
  <2>. QED BY <2>1, <2>3, <2>4, QuietMove
<1>3. CASE Refuse(x)
  <2>. DEFINE new == [e EXCEPT !.at = "replying"]
  <2>1. Move(x, new) /\ Quiet
    BY <1>3 DEF Refuse
  <2>2. new \in ExchangeType /\ e.at # "emitting" /\ new.at # "emitting"
    BY <1>0, <1>3 DEF Refuse, ExchangeType, Places, Waiting, Modes
  <2>3. Sound(new)
    BY <1>0, <1>3 DEF Refuse, ExchangeType, Sound, Captures, InStage, OnConn, Owned, Answering, Waiting
  <2>4. (Recorded(e) <=> Recorded(new))
        /\ (Recorded(new) => /\ new.captured = e.captured /\ new.truncated = e.truncated
                              /\ new.route = e.route)
    BY <1>0, <1>3 DEF Refuse, ExchangeType, Recorded, Answering, Sound, InStage, Waiting
  <2>. HIDE DEF new
  <2>. QED BY <2>1, <2>2, <2>3, <2>4, QuietMove
<1>4. ASSUME NEW streaming \in BOOLEAN, Answer(x, streaming) PROVE IInv'
  <2>. DEFINE mode == ModeOf(x, streaming)
              at == IF mode = "whole" THEN "collecting" ELSE "body"
              ctx == mode # "whole"
              new == [e EXCEPT !.at = at, !.mode = mode, !.ctx = ctx]
  <2>0. mode \in {"tee", "stream", "whole"}
    BY DEF ModeOf
  <2>1. Move(x, new) /\ Quiet /\ e.at = "sending"
    BY <1>4 DEF Answer
  <2>. HIDE DEF mode
  <2>2. at \in {"collecting", "body"} /\ ctx \in BOOLEAN
        /\ (at = "body" <=> ctx) /\ (at = "body" <=> mode \in {"tee", "stream"})
    <3>1. CASE mode = "whole"
      BY <3>1
    <3>2. CASE mode # "whole"
      BY <2>0, <3>2
    <3>. QED BY <3>1, <3>2
  <2>. HIDE DEF at, ctx
  <2>3. new \in ExchangeType /\ new.at # "emitting"
    <3>1. at \in Places /\ mode \in Modes
      BY <2>0, <2>2 DEF Places, Waiting, Modes
    <3>. QED BY <1>0, <2>2, <3>1 DEF ExchangeType
  <2>4. Sound(new)
    <3>1. InStage(new)
      BY <1>0, <2>0, <2>1, <2>2 DEF ExchangeType, Sound, InStage
    <3>2. Captures(new) /\ OnConn(new) /\ Owned(new)
      BY <1>0, <2>0, <2>1, <2>2 DEF ExchangeType, Sound, Captures, OnConn, Owned
    <3>. QED BY <3>1, <3>2 DEF Sound
  <2>5. ~Recorded(e) /\ ~Recorded(new)
    BY <1>0, <2>1, <2>2 DEF ExchangeType, Recorded
  <2>. HIDE DEF new
  <2>. QED BY <2>1, <2>3, <2>4, <2>5, QuietMove
<1>5. CASE PassFrame(x)
  <2>. DEFINE given == e.given + 1
              captured == Lesser(given, Cap)
              truncated == given > Cap
              new == [e EXCEPT !.given = given, !.captured = captured, !.truncated = truncated]
  <2>1. Move(x, new) /\ Quiet /\ e.at = "body" /\ e.given < MaxFrames
    BY <1>5 DEF PassFrame
  <2>2. given \in 0..MaxFrames /\ captured \in 0..Cap /\ truncated \in BOOLEAN
        /\ captured = Lesser(given, Cap) /\ (truncated <=> given > Cap)
    BY <1>0, <2>1 DEF ExchangeType, Lesser
  <2>. HIDE DEF given, captured, truncated
  <2>3. new \in ExchangeType /\ new.at = "body"
    BY <1>0, <2>1, <2>2 DEF ExchangeType
  <2>4. Sound(new)
    <3>1. Captures(new)
      BY <1>0, <2>2 DEF ExchangeType, Captures
    <3>2. InStage(new)
      BY <1>0, <2>1 DEF ExchangeType, Sound, InStage
    <3>3. OnConn(new) /\ Owned(new)
      BY <1>0, <2>1 DEF ExchangeType, Sound, OnConn, Owned
    <3>. QED BY <3>1, <3>2, <3>3 DEF Sound
  <2>5. ~Recorded(e) /\ ~Recorded(new)
    BY <2>1, <2>3 DEF Recorded
  <2>. HIDE DEF new
  <2>. QED BY <2>1, <2>3, <2>4, <2>5, QuietMove
<1>6. CASE BreakBody(x)
  <2>. DEFINE new == [e EXCEPT !.at = "ended"]
  <2>1. Move(x, new) /\ Quiet
    BY <1>6 DEF BreakBody
  <2>2. new \in ExchangeType /\ e.at # "emitting" /\ new.at # "emitting"
    BY <1>0, <1>6 DEF BreakBody, ExchangeType, Places, Waiting, Modes
  <2>3. Sound(new)
    BY <1>0, <1>6 DEF BreakBody, ExchangeType, Sound, Captures, InStage, OnConn, Owned, Answering, Waiting
  <2>4. (Recorded(e) <=> Recorded(new))
        /\ (Recorded(new) => /\ new.captured = e.captured /\ new.truncated = e.truncated
                              /\ new.route = e.route)
    BY <1>0, <1>6 DEF BreakBody, ExchangeType, Recorded, Answering, Sound, InStage, Waiting
  <2>. HIDE DEF new
  <2>. QED BY <2>1, <2>2, <2>3, <2>4, QuietMove
<1>7. CASE Reply(x)
  <2>. DEFINE new == [e EXCEPT !.at = "over"]
  <2>1. Move(x, new) /\ Quiet
    BY <1>7 DEF Reply
  <2>2. new \in ExchangeType /\ e.at # "emitting" /\ new.at # "emitting"
    BY <1>0, <1>7 DEF Reply, ExchangeType, Places, Waiting, Modes
  <2>3. Sound(new)
    BY <1>0, <1>7 DEF Reply, ExchangeType, Sound, Captures, InStage, OnConn, Owned, Answering, Waiting
  <2>4. (Recorded(e) <=> Recorded(new))
        /\ (Recorded(new) => /\ new.captured = e.captured /\ new.truncated = e.truncated
                              /\ new.route = e.route)
    BY <1>0, <1>7 DEF Reply, ExchangeType, Recorded, Answering, Sound, InStage, Waiting
  <2>. HIDE DEF new
  <2>. QED BY <2>1, <2>2, <2>3, <2>4, QuietMove
<1>8. CASE Abandon(x)
  <2>. DEFINE new == [e EXCEPT !.at = "over"]
  <2>1. Move(x, new) /\ Quiet
    BY <1>8 DEF Abandon
  <2>2. new \in ExchangeType /\ e.at # "emitting" /\ new.at # "emitting"
    BY <1>0, <1>8 DEF Abandon, ExchangeType, Places, Waiting, Modes
  <2>3. Sound(new)
    BY <1>0, <1>8 DEF Abandon, ExchangeType, Sound, Captures, InStage, OnConn, Owned, Answering, Waiting
  <2>4. (Recorded(e) <=> Recorded(new))
        /\ (Recorded(new) => /\ new.captured = e.captured /\ new.truncated = e.truncated
                              /\ new.route = e.route)
    BY <1>0, <1>8 DEF Abandon, ExchangeType, Recorded, Answering, Sound, InStage, Waiting
  <2>. HIDE DEF new
  <2>. QED BY <2>1, <2>2, <2>3, <2>4, QuietMove
<1>. QED BY <1>1, <1>2, <1>3, <1>4, <1>5, <1>6, <1>7, <1>8

\* The ends of a body and of a collected reply: they take a number if the exchange
\* has no record and is to have one.
LEMMA NumberSteps ==
    ASSUME IInv, NEW x \in Exchange,
           EndBody(x) \/ DropBody(x) \/ \E frames \in 1..MaxFrames : Collect(x, frames)
    PROVE  IInv'
<1>. DEFINE e == exchange[x]
<1>. USE TapAssumption
<1>0. e \in ExchangeType /\ Sound(e)
  BY DEF IInv, TypeOK, AllSound
<1>1. CASE EndBody(x) /\ e.mode = "tee"
  <2>1. TakeNumber(x, e, "ended") /\ e.at = "body"
    BY <1>1 DEF EndBody
  <2>2. ~Recorded(e) /\ Captures(e) /\ Answering(e) /\ OnConn(e) /\ Owned(e)
    BY <1>0, <1>1, <2>1 DEF Sound, Recorded, Answering
  <2>. QED BY <1>0, <1>1, <2>1, <2>2, NumberMove
<1>2. CASE EndBody(x) /\ e.mode # "tee"
  <2>. DEFINE new == [e EXCEPT !.at = "ended"]
  <2>1. Move(x, new) /\ Quiet /\ e.at = "body"
    BY <1>2 DEF EndBody
  <2>2. new \in ExchangeType /\ new.at # "emitting"
    BY <1>0 DEF ExchangeType, Places
  <2>3. Sound(new) /\ ~Recorded(e) /\ ~Recorded(new)
    BY <1>0, <2>1 DEF ExchangeType, Sound, Captures, InStage, OnConn, Owned, Answering, Recorded
  <2>. HIDE DEF new
  <2>. QED BY <2>1, <2>2, <2>3, QuietMove
<1>3. CASE DropBody(x) /\ e.ctx
  <2>1. TakeNumber(x, e, "over") /\ e.at \in {"ended", "body"}
    BY <1>3 DEF DropBody
  <2>2. ~Recorded(e) /\ Captures(e) /\ Answering(e) /\ OnConn(e) /\ Owned(e)
    BY <1>0, <1>3, <2>1 DEF Sound, Recorded, Answering, InStage
  <2>. QED BY <1>0, <2>1, <2>2, NumberMove
<1>4. CASE DropBody(x) /\ ~e.ctx
  <2>. DEFINE new == [e EXCEPT !.at = "over"]
  <2>1. Move(x, new) /\ Quiet /\ e.at = "ended"
    BY <1>0, <1>4 DEF DropBody, Sound, InStage
  <2>2. new \in ExchangeType /\ new.at # "emitting"
    BY <1>0 DEF ExchangeType, Places
  <2>3. Sound(new)
    BY <1>0, <1>4, <2>1 DEF ExchangeType, Sound, Captures, InStage, OnConn, Owned, Answering
  <2>4. (Recorded(e) <=> Recorded(new))
        /\ new.captured = e.captured /\ new.truncated = e.truncated /\ new.route = e.route
    BY <1>0, <2>1 DEF ExchangeType, Recorded, Answering
  <2>. HIDE DEF new
  <2>. QED BY <2>1, <2>2, <2>3, <2>4, QuietMove
<1>5. ASSUME NEW frames \in 1..MaxFrames, Collect(x, frames) PROVE IInv'
  <2>. DEFINE captured == Lesser(frames, Cap)
              truncated == frames > Cap
              new == [e EXCEPT !.given = frames, !.captured = captured, !.truncated = truncated]
  <2>1. TakeNumber(x, new, "replying") /\ e.at = "collecting"
    BY <1>5 DEF Collect
  <2>2. captured \in 0..Cap /\ truncated \in BOOLEAN /\ frames \in 0..MaxFrames /\ frames > 0
        /\ captured = Lesser(frames, Cap) /\ (truncated <=> frames > Cap)
    BY DEF Lesser
  <2>. HIDE DEF captured, truncated
  <2>3. new \in ExchangeType /\ new.at = "collecting"
    BY <1>0, <2>1, <2>2 DEF ExchangeType
  <2>4. Captures(new) /\ Answering(new)
    BY <1>0, <2>2 DEF ExchangeType, Captures, Answering
  <2>5. ~Recorded(e) /\ OnConn(new) /\ Owned(new)
    BY <1>0, <2>1 DEF ExchangeType, Sound, OnConn, Owned, Recorded
  <2>. HIDE DEF new
  <2>. QED BY <2>1, <2>3, <2>4, <2>5, NumberMove
<1>. QED BY <1>1, <1>2, <1>3, <1>4, <1>5

\* Every step keeps the invariant.
LEMMA StepIInv == IInv /\ [Next]_vars => IInv'
<1>. SUFFICES ASSUME IInv, [Next]_vars PROVE IInv'
  OBVIOUS
<1>1. ASSUME NEW x \in Exchange, Forward(x) PROVE IInv'
  BY <1>1, RequestStep, RouteStep, QuietSteps, NumberSteps, ReportStep DEF Forward
<1>2. ASSUME NEW c \in Conn, TlsAccept(c) \/ Close(c) \/ \E h \in Target : Accept(c, h) PROVE IInv'
  BY <1>2, ConnStep
<1>3. CASE StartProxy \/ DropHandle \/ UNCHANGED vars
  BY <1>3, ProxyStep
<1>. QED BY <1>1, <1>2, <1>3 DEF Next

\* The invariant has what is promised.
LEMMA Promised == IInv => ReportedOnce /\ RecordIsAnswer /\ RoutedToOwner
<1>. SUFFICES ASSUME IInv PROVE ReportedOnce /\ RecordIsAnswer /\ RoutedToOwner
  OBVIOUS
<1>1. ASSUME NEW x \in Exchange
      PROVE  /\ Cardinality(RecordsOf(x)) + (IF exchange[x].at = "emitting" THEN 1 ELSE 0) <= 1
             /\ RecordsOf(x) # {} => Answered(x)
             /\ exchange[x].at = "over" /\ Answered(x) => RecordsOf(x) # {}
  <2>1. RecordsOf(x) # {} <=> HasRecord(x)
    BY DEF RecordsOf, HasRecord
  <2>2. HasRecord(x) <=> Recorded(exchange[x])
    BY DEF IInv, RecordedOnes
  <2>3. Sound(exchange[x]) /\ (Answered(x) <=> Answering(exchange[x]))
    BY DEF IInv, AllSound, Answered, Answering
  <2>4. CASE RecordsOf(x) = {}
    BY <2>1, <2>2, <2>3, <2>4, FS_EmptySet DEF Recorded, Sound, InStage
  <2>5. CASE RecordsOf(x) # {}
    <3>1. PICK i \in DOMAIN traffic : RecordsOf(x) = {i}
      BY <2>5 DEF RecordsOf, IInv, OneEach
    <3>2. Cardinality(RecordsOf(x)) = 1
      BY <3>1, FS_Singleton
    <3>. QED BY <2>1, <2>2, <2>3, <2>5, <3>2 DEF Recorded
  <2>. QED BY <2>4, <2>5
<1>2. ReportedOnce
  BY <1>1 DEF ReportedOnce, IInv
<1>3. RecordIsAnswer
  <2>. SUFFICES ASSUME NEW i \in DOMAIN traffic
               PROVE  LET r == traffic[i]
                          e == exchange[r.exchange]
                      IN  /\ r.body = Lesser(e.given, Cap)
                          /\ r.truncated <=> e.given > Cap
                          /\ r.host = e.route.host
    BY DEF RecordIsAnswer
  <2>1. traffic[i].exchange \in Exchange
    <3>1. traffic \in Seq(RecordType)
      BY DEF IInv, TypeOK
    <3>2. traffic[i] \in RecordType
      BY <3>1
    <3>. QED BY <3>2 DEF RecordType
  <2>. QED BY <2>1 DEF IInv, AllMatch, Matches, AllSound, Sound, Captures
<1>4. RoutedToOwner
  <2>1. \A x \in Exchange : Owned(exchange[x])
    BY DEF IInv, AllSound, Sound
  <2>2. ASSUME NEW p, NEW target PROVE Home(p) \in {HostOf(p, target), None}
    BY DEF Home, HostOf
  <2>. QED BY <2>1, <2>2 DEF RoutedToOwner, Routed, Owned
<1>. QED BY <1>2, <1>3, <1>4

-----------------------------------------------------------------------------
\* The invariant holds in every behaviour.
LEMMA Invariant == Spec => []IInv
BY InitIInv, StepIInv, PTL DEF Spec

\* The variables have their types: no capture passes the cap, whatever the
\* provider sends (record.rs, proxy.rs: BODY_CAP).
THEOREM TypeCorrect == Spec => []TypeOK
<1>1. IInv => TypeOK
  BY DEF IInv
<1>. QED BY <1>1, Invariant, PTL

\* Every answered exchange has one record and no other has one, and the numbers
\* of a session are given once each, for any number of connections and exchanges
\* (proxy.rs: emit, at the end of a body and at its drop).
THEOREM Reported == Spec => []ReportedOnce
BY Promised, Invariant, PTL

\* A record says what the agent was given and by whom.
THEOREM RecordTrue == Spec => []RecordIsAnswer
BY Promised, Invariant, PTL

\* RoutedToOwner: the key of a provider goes to the host its base URL names and to
\* no other, and a model to a provider that lists it, for any list of providers and
\* whatever hosts the agent calls (proxy.rs: determine the upstream).
THEOREM RoutedRight == Spec => []RoutedToOwner
BY Promised, Invariant, PTL
=============================================================================
