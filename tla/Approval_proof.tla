--------------------------- MODULE Approval_proof ---------------------------
(***************************************************************************)
(* What module Approval promises whatever the agents do: a decision comes  *)
(* to the session that asked. Nothing on the way checks this, neither the  *)
(* queue, which puts a request over another with the same id, nor the      *)
(* host, which drops the id; it holds because a prompt is at one place at  *)
(* a time until it is decided, which is what IInv says.                    *)
(***************************************************************************)
EXTENDS Approval, TLAPS

\* A prompt under way is open: it was asked by its session, and not decided.
EventsOpen ==
    \A k \in DOMAIN events :
        /\ asker[events[k].prompt] = events[k].session
        /\ decided[events[k].prompt] = None

\* It is under way once.
EventsOnce == \A j, k \in DOMAIN events : events[j].prompt = events[k].prompt => j = k

\* A request that is listed names the session that asked, and is open as long
\* as it is pending.
ListedAsked == \A i \in Listed : asker[requests[i].prompt] = requests[i].session
PendingOpen == \A i \in Pending : decided[requests[i].prompt] = None

\* A prompt is pending under one id, and is not under way as well.
PendingOnce == \A i, j \in Pending : requests[i].prompt = requests[j].prompt => i = j
PendingArrived == \A i \in Pending : \A k \in DOMAIN events : requests[i].prompt # events[k].prompt

\* Only a prompt that was asked is decided.
DecidedAsked == \A p \in Prompt : decided[p] # None => asker[p] # None

\* A response says what was decided, to the session that asked.
Holds(c) == asker[c.of] = c.session /\ decided[c.of] = c.decision
ResponsesHold ==
    /\ \A c \in calls : Holds(c)
    /\ \A k \in DOMAIN downlink : Holds(downlink[k])

IInv ==
    /\ TypeOK
    /\ EventsOpen
    /\ EventsOnce
    /\ ListedAsked
    /\ PendingOpen
    /\ PendingOnce
    /\ PendingArrived
    /\ DecidedAsked
    /\ ResponsesHold
    /\ AnswersTheAsker

-----------------------------------------------------------------------------
\* What an agent makes of a line of the host is a decision.
LEMMA LineIsDecision == \A text \in {Token(d) : d \in Decision} : DecisionOf(text) \in Decision
BY DEF DecisionOf

\* A tail has the elements of its sequence, one place on.
LEMMA TailElements ==
    ASSUME NEW S, NEW q \in Seq(S), q # <<>>
    PROVE /\ Head(q) = q[1] /\ 1 \in DOMAIN q /\ Head(q) \in S /\ Tail(q) \in Seq(S)
          /\ \A k \in DOMAIN Tail(q) : k + 1 \in DOMAIN q /\ Tail(q)[k] = q[k + 1] /\ k \in Nat \ {0}
OBVIOUS

\* An appended sequence has the elements it had, and the one that is appended.
LEMMA AppendElements ==
    ASSUME NEW S, NEW q \in Seq(S), NEW e \in S
    PROVE /\ Append(q, e) \in Seq(S)
          /\ \A k \in DOMAIN Append(q, e) :
                 \/ k \in DOMAIN q /\ Append(q, e)[k] = q[k]
                 \/ k = Len(q) + 1 /\ Append(q, e)[k] = e
          /\ Len(q) + 1 \notin DOMAIN q
OBVIOUS

\* At the start nothing is under way, listed or decided.
LEMMA InitIInv == Init => IInv
BY NoneAssumption
   DEF Init, IInv, TypeOK, EventsOpen, EventsOnce, Listed, Pending, ListedAsked, PendingOpen,
       PendingOnce, PendingArrived, DecidedAsked, ResponsesHold, AnswersTheAsker

\* An agent asks: its prompt was not asked before, so nothing else is about it.
LEMMA AskIInv ==
    ASSUME IInv, NEW s \in Session, NEW p \in Prompt, NEW i \in RequestId, Ask(s, p, i)
    PROVE IInv'
<1>. DEFINE e == [prompt |-> p, session |-> s, id |-> i]
<1>0. TypeOK /\ s \in Session /\ s # None
  BY NoneAssumption DEF IInv
<1>1. e \in Event
  BY DEF Event
<1>2. /\ events \in Seq(Event) /\ events' = Append(events, e)
      /\ UNCHANGED <<link, clock, running, requests, calls, downlink, stdin, decided, taken>>
      /\ asker[p] = None /\ asker' = [asker EXCEPT ![p] = s]
  BY DEF Ask, IInv, TypeOK
<1>3. /\ events' \in Seq(Event)
      /\ \A k \in DOMAIN events' :
             \/ k \in DOMAIN events /\ events'[k] = events[k]
             \/ k = Len(events) + 1 /\ events'[k] = e
  BY <1>1, <1>2, AppendElements
<1>4. \A q \in Prompt : asker[q] # None => asker'[q] = asker[q] /\ q # p
  BY <1>2, <1>0 DEF TypeOK
<1>5. asker'[p] = s /\ decided[p] = None
  BY <1>2, <1>0 DEF TypeOK, IInv, DecidedAsked
<1>6. \A k \in DOMAIN events : events[k] \in Event
  BY <1>2
<1>7. \A j \in Listed : requests[j] \in Request
  BY <1>0 DEF TypeOK, Listed
<1>8. Listed' = Listed /\ Pending' = Pending
  BY <1>2 DEF Listed, Pending
<1>. HIDE DEF e
<1>a. TypeOK'
  <2>1. waiting' \in [Session -> Seq(Prompt)]
    BY <1>0, AppendElements DEF Ask, TypeOK
  <2>. QED BY <2>1, <1>0, <1>2, <1>3 DEF TypeOK
<1>b. EventsOpen'
  <2>. SUFFICES ASSUME NEW k \in DOMAIN events'
       PROVE asker'[events'[k].prompt] = events'[k].session /\ decided'[events'[k].prompt] = None
    BY DEF EventsOpen
  <2>1. CASE k \in DOMAIN events /\ events'[k] = events[k]
    <3>1. events[k].prompt \in Prompt /\ events[k].session \in Session
      BY <2>1, <1>6 DEF Event
    <3>. QED BY <2>1, <3>1, <1>2, <1>4, NoneAssumption DEF IInv, EventsOpen
  <2>2. CASE events'[k] = e
    BY <2>2, <1>2, <1>5 DEF e
  <2>. QED BY <2>1, <2>2, <1>3
<1>c. EventsOnce'
  <2>1. \A k \in DOMAIN events : events[k].prompt # p
    <3>. SUFFICES ASSUME NEW k \in DOMAIN events PROVE events[k].prompt # p
      OBVIOUS
    <3>1. events[k].session \in Session
      BY <1>6 DEF Event
    <3>. QED BY <3>1, <1>2, NoneAssumption DEF IInv, EventsOpen
  <2>2. e.prompt = p
    BY DEF e
  <2>. QED BY <2>1, <2>2, <1>3 DEF IInv, EventsOnce
<1>d. ListedAsked'
  <2>. SUFFICES ASSUME NEW j \in Listed PROVE asker'[requests[j].prompt] = requests[j].session
    BY <1>2, <1>8 DEF ListedAsked
  <2>1. requests[j].prompt \in Prompt /\ requests[j].session \in Session
    BY <1>7 DEF Request
  <2>. QED BY <2>1, <1>4, NoneAssumption DEF IInv, ListedAsked
<1>e. (PendingOpen /\ PendingOnce)'
  BY <1>2, <1>8 DEF IInv, PendingOpen, PendingOnce
<1>f. PendingArrived'
  <2>. SUFFICES ASSUME NEW j \in Pending, NEW k \in DOMAIN events'
       PROVE requests[j].prompt # events'[k].prompt
    BY <1>2, <1>8 DEF PendingArrived
  <2>1. requests[j].prompt \in Prompt /\ requests[j].session \in Session /\ j \in Listed
    BY <1>7 DEF Request, Pending
  <2>2. requests[j].prompt # p
    BY <2>1, <1>2, NoneAssumption DEF IInv, ListedAsked
  <2>. QED BY <2>2, <1>3 DEF e, IInv, PendingArrived
<1>g. DecidedAsked'
  BY <1>2, <1>4 DEF IInv, DecidedAsked
<1>h. ResponsesHold'
  <2>1. \A c \in Response : Holds(c) => Holds(c)'
    <3>. SUFFICES ASSUME NEW c \in Response, Holds(c) PROVE Holds(c)'
      OBVIOUS
    <3>1. c.of \in Prompt /\ c.session \in Session
      BY DEF Response
    <3>. QED BY <3>1, <1>2, <1>4, NoneAssumption DEF Holds
  <2>2. \A k \in DOMAIN downlink : downlink[k] \in Response
    BY <1>0 DEF TypeOK
  <2>3. calls \subseteq Response
    BY <1>0 DEF TypeOK
  <2>4. \A c \in calls : Holds(c)'
    BY <2>1, <2>3 DEF IInv, ResponsesHold
  <2>5. \A k \in DOMAIN downlink : Holds(downlink[k])'
    BY <2>1, <2>2, <1>2 DEF IInv, ResponsesHold, Holds
  <2>. QED BY <2>4, <2>5, <1>2 DEF ResponsesHold, Holds
<1>i. AnswersTheAsker'
  <2>. SUFFICES ASSUME NEW t \in Session, NEW k \in DOMAIN stdin[t]
       PROVE asker'[stdin[t][k].of] = t /\ stdin[t][k].text = Token(decided[stdin[t][k].of])
    BY <1>2 DEF AnswersTheAsker
  <2>1. stdin[t][k] \in Line
    BY <1>0 DEF TypeOK
  <2>2. stdin[t][k].of \in Prompt
    BY <2>1 DEF Line
  <2>. QED BY <2>2, <1>4, NoneAssumption DEF IInv, AnswersTheAsker
<1>. QED BY <1>a, <1>b, <1>c, <1>d, <1>e, <1>f, <1>g, <1>h, <1>i DEF IInv

\* An agent is interrupted, ends or reads a line: what it waits for and what is
\* on its stdin gets less, and the rest stays.
LEMMA AgentIInv ==
    ASSUME IInv, NEW s \in Session, Interrupt(s) \/ Ends(s) \/ Reads(s)
    PROVE IInv'
<1>1. UNCHANGED <<link, clock, asker, events, requests, calls, downlink, decided>>
  BY DEF Interrupt, Ends, Reads
<1>2. (EventsOpen /\ EventsOnce /\ DecidedAsked)'
  BY <1>1 DEF IInv, EventsOpen, EventsOnce, DecidedAsked
<1>3. (ListedAsked /\ PendingOpen /\ PendingOnce /\ PendingArrived)'
  BY <1>1 DEF IInv, Listed, Pending, ListedAsked, PendingOpen, PendingOnce, PendingArrived
<1>4. ResponsesHold'
  BY <1>1 DEF IInv, ResponsesHold, Holds
<1>5. TypeOK /\ stdin \in [Session -> Seq(Line)] /\ waiting \in [Session -> Seq(Prompt)]
  BY DEF IInv, TypeOK
<1>6. CASE Interrupt(s)
  <2>1. UNCHANGED <<running, stdin, taken>> /\ waiting' \in [Session -> Seq(Prompt)]
    BY <1>6, <1>5 DEF Interrupt
  <2>2. TypeOK'
    BY <1>1, <1>5, <2>1 DEF TypeOK
  <2>3. AnswersTheAsker'
    BY <1>1, <2>1 DEF IInv, AnswersTheAsker
  <2>. QED BY <1>2, <1>3, <1>4, <2>2, <2>3 DEF IInv
<1>7. CASE Ends(s)
  <2>1. /\ taken' = taken /\ running' \in SUBSET running
        /\ waiting' \in [Session -> Seq(Prompt)] /\ stdin' \in [Session -> Seq(Line)]
    BY <1>7, <1>5 DEF Ends
  <2>2. TypeOK'
    BY <1>1, <1>5, <2>1 DEF TypeOK
  <2>3. \A t \in Session : stdin'[t] = stdin[t] \/ stdin'[t] = <<>>
    BY <1>7, <1>5 DEF Ends
  <2>4. AnswersTheAsker'
    BY <1>1, <2>3 DEF IInv, AnswersTheAsker
  <2>. QED BY <1>2, <1>3, <1>4, <2>2, <2>4 DEF IInv
<1>8. CASE Reads(s)
  <2>1. /\ stdin[s] \in Seq(Line) /\ stdin[s] # <<>> /\ running' = running
        /\ stdin' = [stdin EXCEPT ![s] = Tail(@)]
    BY <1>8, <1>5 DEF Reads
  <2>2. /\ Head(stdin[s]) \in Line /\ Tail(stdin[s]) \in Seq(Line)
        /\ \A k \in DOMAIN Tail(stdin[s]) :
               k + 1 \in DOMAIN stdin[s] /\ Tail(stdin[s])[k] = stdin[s][k + 1]
    BY <2>1, TailElements
  <2>3. DecisionOf(Head(stdin[s]).text) \in Decision
    BY <2>2, LineIsDecision DEF Line
  <2>4. taken' \in [Prompt -> Decision \cup {None}] /\ waiting' \in [Session -> Seq(Prompt)]
    <3>1. CASE waiting[s] = <<>>
      BY <1>8, <1>5, <3>1 DEF Reads, TypeOK
    <3>2. CASE waiting[s] # <<>>
      <4>1. waiting[s] \in Seq(Prompt)
        BY <1>5
      <4>2. Tail(waiting[s]) \in Seq(Prompt)
        BY <4>1, <3>2, TailElements
      <4>. QED BY <1>8, <1>5, <2>3, <3>2, <4>2 DEF Reads, TypeOK
    <3>. QED BY <3>1, <3>2
  <2>5. stdin' \in [Session -> Seq(Line)]
    BY <2>1, <2>2, <1>5
  <2>6. TypeOK'
    BY <1>1, <1>5, <2>1, <2>4, <2>5 DEF TypeOK
  <2>7. AnswersTheAsker'
    <3>. SUFFICES ASSUME NEW t \in Session, NEW k \in DOMAIN stdin'[t]
         PROVE asker[stdin'[t][k].of] = t /\ stdin'[t][k].text = Token(decided[stdin'[t][k].of])
      BY <1>1 DEF AnswersTheAsker
    <3>1. CASE t = s
      <4>1. stdin'[t] = Tail(stdin[s])
        BY <3>1, <2>1, <1>5
      <4>2. k + 1 \in DOMAIN stdin[s] /\ stdin'[t][k] = stdin[s][k + 1]
        BY <4>1, <2>2
      <4>. QED BY <4>2, <3>1 DEF IInv, AnswersTheAsker
    <3>2. CASE t # s
      BY <3>2, <2>1, <1>5 DEF IInv, AnswersTheAsker
    <3>. QED BY <3>1, <3>2
  <2>. QED BY <1>2, <1>3, <1>4, <2>6, <2>7 DEF IInv
<1>. QED BY <1>6, <1>7, <1>8

\* A request is listed: its prompt leaves the events and becomes pending.
LEMMA AddRequestIInv ==
    ASSUME IInv, AddRequest
    PROVE IInv'
<1>. DEFINE e == Head(events)
            r == [prompt |-> e.prompt, session |-> e.session, at |-> clock, status |-> "pending"]
<1>0. TypeOK /\ events \in Seq(Event) /\ events # <<>> /\ requests \in [RequestId -> Request \cup {None}]
  BY DEF IInv, TypeOK, AddRequest
<1>1. /\ e = events[1] /\ 1 \in DOMAIN events /\ e \in Event /\ Tail(events) \in Seq(Event)
      /\ \A k \in DOMAIN Tail(events) :
             k + 1 \in DOMAIN events /\ Tail(events)[k] = events[k + 1] /\ k \in Nat \ {0}
  BY <1>0, TailElements
<1>2. /\ requests' = [requests EXCEPT ![e.id] = r] /\ events' = Tail(events)
      /\ clock' = clock + 1
      /\ UNCHANGED <<link, running, waiting, asker, calls, downlink, stdin, decided, taken>>
  BY DEF AddRequest
<1>3. e.prompt \in Prompt /\ e.session \in Session /\ e.id \in RequestId
  BY <1>1 DEF Event
<1>4. /\ r \in Request /\ r.prompt = e.prompt /\ r.session = e.session
  BY <1>3, <1>0 DEF Request, TypeOK
<1>5. asker[e.prompt] = e.session /\ decided[e.prompt] = None
  BY <1>1 DEF IInv, EventsOpen
<1>6. \A i \in Pending : requests[i].prompt # e.prompt
  BY <1>1 DEF IInv, PendingArrived
<1>7. \A k \in DOMAIN events' : events'[k].prompt # e.prompt
  BY <1>1, <1>2 DEF IInv, EventsOnce
<1>. HIDE DEF e, r
<1>8. \A i \in RequestId : requests'[i] = IF i = e.id THEN r ELSE requests[i]
  BY <1>0, <1>2, <1>3
<1>9. \A i \in Pending' : (requests'[i] = r /\ i = e.id) \/ (requests'[i] = requests[i] /\ i \in Pending)
  <2>. SUFFICES ASSUME NEW i \in Pending'
       PROVE (requests'[i] = r /\ i = e.id) \/ (requests'[i] = requests[i] /\ i \in Pending)
    OBVIOUS
  <2>1. i \in RequestId /\ requests'[i] # None /\ requests'[i].status = "pending"
    BY DEF Pending, Listed
  <2>2. CASE i = e.id
    BY <2>1, <2>2, <1>8
  <2>3. CASE i # e.id
    BY <2>1, <2>3, <1>8 DEF Pending, Listed
  <2>. QED BY <2>2, <2>3
<1>a. TypeOK'
  <2>1. requests' \in [RequestId -> Request \cup {None}]
    BY <1>0, <1>2, <1>4
  <2>2. clock' \in Nat
    BY <1>0, <1>2 DEF TypeOK
  <2>. QED BY <2>1, <2>2, <1>0, <1>1, <1>2 DEF TypeOK
<1>b. (EventsOpen /\ EventsOnce)'
  <2>1. EventsOpen'
    BY <1>1, <1>2 DEF IInv, EventsOpen
  <2>2. ASSUME NEW j \in DOMAIN events', NEW k \in DOMAIN events', events'[j].prompt = events'[k].prompt
        PROVE j = k
    <3>1. j + 1 = k + 1
      BY <2>2, <1>1, <1>2 DEF IInv, EventsOnce
    <3>2. j \in Nat /\ k \in Nat
      BY <1>1, <1>2
    <3>. QED BY <3>1, <3>2
  <2>. QED BY <2>1, <2>2 DEF EventsOnce
<1>c. ListedAsked'
  BY <1>2, <1>4, <1>5, <1>8 DEF IInv, ListedAsked, Listed
<1>d. PendingOpen'
  BY <1>2, <1>4, <1>5, <1>9 DEF IInv, PendingOpen
<1>e. PendingOnce'
  BY <1>4, <1>6, <1>9 DEF IInv, PendingOnce
<1>f. PendingArrived'
  <2>. SUFFICES ASSUME NEW i \in Pending', NEW k \in DOMAIN events'
       PROVE requests'[i].prompt # events'[k].prompt
    BY DEF PendingArrived
  <2>1. CASE requests'[i] = r
    BY <2>1, <1>4, <1>7
  <2>2. CASE requests'[i] = requests[i] /\ i \in Pending
    BY <2>2, <1>1, <1>2 DEF IInv, PendingArrived
  <2>. QED BY <2>1, <2>2, <1>9
<1>g. (DecidedAsked /\ ResponsesHold /\ AnswersTheAsker)'
  BY <1>2 DEF IInv, DecidedAsked, ResponsesHold, Holds, AnswersTheAsker
<1>. QED BY <1>a, <1>b, <1>c, <1>d, <1>e, <1>f, <1>g DEF IInv

\* The user decides on a card: its prompt is pending nowhere else, and it was
\* not decided before, so what is under way says what was decided still.
LEMMA RespondIInv ==
    ASSUME IInv, NEW i \in RequestId, NEW d \in Decision, Respond(i, d)
    PROVE IInv'
<1>. DEFINE p == requests[i].prompt
            c == [session |-> requests[i].session, id |-> i, decision |-> d, of |-> p]
<1>0. /\ TypeOK /\ requests \in [RequestId -> Request \cup {None}]
      /\ decided \in [Prompt -> Decision \cup {None}]
  BY DEF IInv, TypeOK
<1>1. i \in Pending /\ i \in Listed /\ requests[i] \in Request
  BY <1>0 DEF Respond, First, Pending, Listed
<1>2. /\ requests' = [requests EXCEPT ![i].status = "resolved"]
      /\ calls' = calls \cup {c} /\ decided' = [decided EXCEPT ![p] = d]
      /\ UNCHANGED <<link, clock, running, waiting, asker, events, downlink, stdin, taken>>
  BY DEF Respond
<1>3. p \in Prompt /\ requests[i].session \in Session
  BY <1>1 DEF Request
<1>4. asker[p] = requests[i].session /\ decided[p] = None
  BY <1>1 DEF IInv, ListedAsked, PendingOpen
<1>5. c \in Response /\ c.of = p /\ c.session = requests[i].session /\ c.decision = d
  BY <1>3 DEF Response
<1>6. \A j \in Pending : j # i => requests[j].prompt # p
  BY <1>1 DEF IInv, PendingOnce
<1>7. \A k \in DOMAIN events : events[k].prompt # p
  BY <1>1 DEF IInv, PendingArrived
<1>8. [requests[i] EXCEPT !.status = "resolved"] \in Request
      /\ [requests[i] EXCEPT !.status = "resolved"].prompt = p
      /\ [requests[i] EXCEPT !.status = "resolved"].session = requests[i].session
      /\ [requests[i] EXCEPT !.status = "resolved"].status = "resolved"
  BY <1>1 DEF Request
<1>9. \A j \in RequestId :
          requests'[j] = IF j = i THEN [requests[i] EXCEPT !.status = "resolved"] ELSE requests[j]
  BY <1>0, <1>2
<1>10. \A j \in Pending' : j # i /\ j \in Pending /\ requests'[j] = requests[j]
  BY <1>8, <1>9 DEF Pending, Listed
<1>11. \A q \in Prompt : decided'[q] = IF q = p THEN d ELSE decided[q]
  BY <1>0, <1>2
<1>12. d # None
  BY NoneAssumption DEF Decision
<1>. HIDE DEF p, c
<1>a. TypeOK'
  <2>1. requests' \in [RequestId -> Request \cup {None}]
    BY <1>0, <1>2, <1>8
  <2>2. decided' \in [Prompt -> Decision \cup {None}]
    BY <1>0, <1>2
  <2>. QED BY <2>1, <2>2, <1>0, <1>2, <1>5 DEF TypeOK
<1>b. (EventsOpen /\ EventsOnce)'
  <2>1. \A k \in DOMAIN events : events[k] \in Event
    BY <1>0 DEF TypeOK
  <2>2. \A k \in DOMAIN events : events[k].prompt \in Prompt
    BY <2>1 DEF Event
  <2>. QED BY <2>2, <1>2, <1>7, <1>11 DEF IInv, EventsOpen, EventsOnce
<1>c. ListedAsked'
  <2>1. \A j \in Listed' : j \in Listed /\ requests'[j].prompt = requests[j].prompt
                           /\ requests'[j].session = requests[j].session
    BY <1>1, <1>8, <1>9 DEF Listed, p
  <2>. QED BY <2>1, <1>2 DEF IInv, ListedAsked
<1>d. PendingOpen'
  <2>1. \A j \in Pending : requests[j].prompt \in Prompt
    BY <1>0 DEF Pending, Listed, Request
  <2>. QED BY <2>1, <1>6, <1>10, <1>11 DEF IInv, PendingOpen
<1>e. (PendingOnce /\ PendingArrived)'
  BY <1>2, <1>10 DEF IInv, PendingOnce, PendingArrived
<1>f. DecidedAsked'
  BY <1>2, <1>3, <1>4, <1>11, NoneAssumption DEF IInv, DecidedAsked
<1>g. ResponsesHold'
  <2>1. \A b \in Response : Holds(b) => Holds(b)'
    <3>. SUFFICES ASSUME NEW b \in Response, Holds(b) PROVE Holds(b)'
      OBVIOUS
    <3>1. b.of \in Prompt /\ b.decision # None
      BY NoneAssumption DEF Response, Decision
    <3>2. b.of # p
      BY <3>1, <1>4 DEF Holds
    <3>. QED BY <3>1, <3>2, <1>2, <1>11 DEF Holds
  <2>2. calls \subseteq Response /\ \A k \in DOMAIN downlink : downlink[k] \in Response
    BY <1>0 DEF TypeOK
  <2>3. asker'[c.of] = c.session /\ decided'[c.of] = c.decision
    <3>1. asker'[p] = requests[i].session /\ decided'[p] = d
      BY <1>2, <1>3, <1>4, <1>11
    <3>. QED BY <3>1, <1>5
  <2>4. \A b \in calls' : asker'[b.of] = b.session /\ decided'[b.of] = b.decision
    BY <2>1, <2>2, <2>3, <1>2 DEF IInv, ResponsesHold, Holds
  <2>5. \A k \in DOMAIN downlink : Holds(downlink[k])'
    BY <2>1, <2>2, <1>2 DEF IInv, ResponsesHold, Holds
  <2>. QED BY <2>4, <2>5, <1>2 DEF ResponsesHold, Holds
<1>h. AnswersTheAsker'
  <2>. SUFFICES ASSUME NEW s \in Session, NEW k \in DOMAIN stdin[s]
       PROVE asker[stdin[s][k].of] = s /\ stdin[s][k].text = Token(decided'[stdin[s][k].of])
    BY <1>2 DEF AnswersTheAsker
  <2>1. stdin[s][k] \in Line
    BY <1>0 DEF TypeOK
  <2>2. stdin[s][k].of \in Prompt /\ stdin[s][k].text # None
    <3>1. \A b \in Decision : Token(b) # None
      BY NoneAssumption
    <3>. QED BY <2>1, <3>1 DEF Line
  <2>3. stdin[s][k].text = Token(decided[stdin[s][k].of])
    BY DEF IInv, AnswersTheAsker
  <2>4. stdin[s][k].of # p
    <3>1. Token(None) = None
      BY NoneAssumption DEF Token, Decision
    <3>. QED BY <3>1, <2>2, <2>3, <1>4
  <2>. QED BY <2>2, <2>3, <2>4, <1>11 DEF IInv, AnswersTheAsker
<1>. QED BY <1>a, <1>b, <1>c, <1>d, <1>e, <1>f, <1>g, <1>h DEF IInv

\* A response goes from the call to the host and from the host to the stdin of
\* its session.
LEMMA BackIInv ==
    ASSUME IInv, (\E c \in calls : Send(c)) \/ HandleApprovalResponse
    PROVE IInv'
<1>1. UNCHANGED <<link, clock, running, waiting, asker, events, requests, decided, taken>>
  BY DEF Send, HandleApprovalResponse
<1>2. (EventsOpen /\ EventsOnce /\ DecidedAsked)'
  BY <1>1 DEF IInv, EventsOpen, EventsOnce, DecidedAsked
<1>3. (ListedAsked /\ PendingOpen /\ PendingOnce /\ PendingArrived)'
  BY <1>1 DEF IInv, Listed, Pending, ListedAsked, PendingOpen, PendingOnce, PendingArrived
<1>4. TypeOK /\ calls \subseteq Response /\ downlink \in Seq(Response) /\ stdin \in [Session -> Seq(Line)]
  BY DEF IInv, TypeOK
<1>5. CASE \E c \in calls : Send(c)
  <2>1. PICK c \in calls : Send(c)
    BY <1>5
  <2>2. /\ stdin' = stdin /\ calls' \subseteq calls /\ c \in Response
        /\ downlink' = downlink \/ downlink' = Append(downlink, c)
    BY <2>1, <1>4 DEF Send
  <2>3. /\ downlink' \in Seq(Response)
        /\ \A k \in DOMAIN downlink' : (k \in DOMAIN downlink /\ downlink'[k] = downlink[k]) \/ downlink'[k] = c
    <3>1. CASE downlink' = downlink
      BY <3>1, <1>4
    <3>2. CASE downlink' = Append(downlink, c)
      BY <3>2, <2>2, <1>4, AppendElements
    <3>. QED BY <3>1, <3>2, <2>2
  <2>4. TypeOK'
    BY <1>1, <1>4, <2>2, <2>3 DEF TypeOK
  <2>5. ResponsesHold'
    <3>1. \A k \in DOMAIN downlink' : Holds(downlink'[k])
      BY <2>1, <2>3 DEF IInv, ResponsesHold
    <3>2. \A b \in calls' : Holds(b)
      BY <2>2 DEF IInv, ResponsesHold
    <3>. QED BY <3>1, <3>2, <1>1 DEF ResponsesHold, Holds
  <2>6. AnswersTheAsker'
    BY <1>1, <2>2 DEF IInv, AnswersTheAsker
  <2>. QED BY <1>2, <1>3, <2>4, <2>5, <2>6 DEF IInv
<1>6. CASE HandleApprovalResponse
  <2>. DEFINE m == Head(downlink)
              l == [text |-> Token(m.decision), of |-> m.of]
  <2>1. /\ calls' = calls /\ downlink # <<>> /\ downlink' = Tail(downlink)
        /\ stdin' = stdin \/ stdin' = [stdin EXCEPT ![m.session] = Append(@, l)]
    BY <1>6 DEF HandleApprovalResponse
  <2>2. /\ m = downlink[1] /\ 1 \in DOMAIN downlink /\ m \in Response /\ Tail(downlink) \in Seq(Response)
        /\ \A k \in DOMAIN Tail(downlink) : k + 1 \in DOMAIN downlink /\ Tail(downlink)[k] = downlink[k + 1]
    BY <2>1, <1>4, TailElements
  <2>3. l \in Line /\ m.session \in Session
    BY <2>2 DEF Response, Line
  <2>4. asker[l.of] = m.session /\ l.text = Token(decided[l.of])
    BY <2>2 DEF IInv, ResponsesHold, Holds
  <2>. HIDE DEF m, l
  <2>5. Append(stdin[m.session], l) \in Seq(Line)
    BY <2>3, <1>4, AppendElements
  <2>6. TypeOK'
    <3>1. stdin' \in [Session -> Seq(Line)]
      <4>1. CASE stdin' = stdin
        BY <4>1, <1>4
      <4>2. CASE stdin' = [stdin EXCEPT ![m.session] = Append(@, l)]
        BY <4>2, <2>5, <1>4
      <4>. QED BY <4>1, <4>2, <2>1
    <3>. QED BY <3>1, <1>1, <1>4, <2>1, <2>2 DEF TypeOK
  <2>7. ResponsesHold'
    BY <1>1, <2>1, <2>2 DEF IInv, ResponsesHold, Holds
  <2>8. AnswersTheAsker'
    <3>. SUFFICES ASSUME NEW s \in Session, NEW k \in DOMAIN stdin'[s]
         PROVE asker[stdin'[s][k].of] = s /\ stdin'[s][k].text = Token(decided[stdin'[s][k].of])
      BY <1>1 DEF AnswersTheAsker
    <3>1. CASE k \in DOMAIN stdin[s] /\ stdin'[s][k] = stdin[s][k]
      BY <3>1 DEF IInv, AnswersTheAsker
    <3>2. CASE s = m.session /\ stdin'[s][k] = l
      BY <3>2, <2>4
    <3>3. stdin'[s] = stdin[s] \/ (s = m.session /\ stdin'[s] = Append(stdin[s], l))
      <4>1. CASE stdin' = [stdin EXCEPT ![m.session] = Append(@, l)]
        BY <4>1, <2>3, <1>4
      <4>. QED BY <4>1, <2>1
    <3>4. stdin[s] \in Seq(Line)
      BY <1>4
    <3>. QED BY <3>1, <3>2, <3>3, <3>4, <2>3, AppendElements
  <2>. QED BY <1>2, <1>3, <2>6, <2>7, <2>8 DEF IInv
<1>. QED BY <1>5, <1>6

\* The connection is given up or lost, and messages with it: what stays is as it was.
LEMMA LinkIInv ==
    ASSUME IInv, Link
    PROVE IInv'
<1>1. /\ UNCHANGED <<running, waiting, asker, clock, requests, calls, stdin, decided, taken>>
      /\ link' \in {"up", "removed", "broken"}
      /\ events' = events \/ (events # <<>> /\ events' = Tail(events))
      /\ downlink' = downlink \/ (downlink # <<>> /\ downlink' = Tail(downlink))
  BY DEF Link, Disconnect, Breaks, LoseRequest, LoseResponse, IInv, TypeOK
<1>2. TypeOK /\ events \in Seq(Event) /\ downlink \in Seq(Response)
  BY DEF IInv, TypeOK
<1>3. /\ events' \in Seq(Event)
      /\ \/ events' = events
         \/ \A k \in DOMAIN events' :
                k + 1 \in DOMAIN events /\ events'[k] = events[k + 1] /\ k \in Nat \ {0}
  <2>1. CASE events' = events
    BY <2>1, <1>2
  <2>2. CASE events # <<>> /\ events' = Tail(events)
    BY <2>2, <1>2, TailElements
  <2>. QED BY <2>1, <2>2, <1>1
<1>4. /\ downlink' \in Seq(Response)
      /\ \/ downlink' = downlink
         \/ \A k \in DOMAIN downlink' : k + 1 \in DOMAIN downlink /\ downlink'[k] = downlink[k + 1]
  <2>1. CASE downlink' = downlink
    BY <2>1, <1>2
  <2>2. CASE downlink # <<>> /\ downlink' = Tail(downlink)
    BY <2>2, <1>2, TailElements
  <2>. QED BY <2>1, <2>2, <1>1
<1>a. TypeOK'
  BY <1>1, <1>2, <1>3, <1>4 DEF TypeOK
<1>b. (EventsOpen /\ PendingArrived)'
  BY <1>1, <1>3 DEF IInv, EventsOpen, PendingArrived, Pending, Listed
<1>c. EventsOnce'
  <2>. SUFFICES ASSUME NEW j \in DOMAIN events', NEW k \in DOMAIN events',
                       events'[j].prompt = events'[k].prompt
       PROVE j = k
    BY DEF EventsOnce
  <2>1. CASE events' = events
    BY <2>1 DEF IInv, EventsOnce
  <2>2. CASE events' # events
    <3>1. j + 1 = k + 1 /\ j \in Nat /\ k \in Nat
      BY <2>2, <1>3 DEF IInv, EventsOnce
    <3>. QED BY <3>1
  <2>. QED BY <2>1, <2>2
<1>d. (ListedAsked /\ PendingOpen /\ PendingOnce)'
  BY <1>1 DEF IInv, Listed, Pending, ListedAsked, PendingOpen, PendingOnce
<1>e. ResponsesHold'
  BY <1>1, <1>4 DEF IInv, ResponsesHold, Holds
<1>f. (DecidedAsked /\ AnswersTheAsker)'
  BY <1>1 DEF IInv, DecidedAsked, AnswersTheAsker
<1>. QED BY <1>a, <1>b, <1>c, <1>d, <1>e, <1>f DEF IInv

\* Every step keeps the invariant.
LEMMA StepIInv == IInv /\ [Next]_vars => IInv'
<1>. SUFFICES ASSUME IInv, [Next]_vars PROVE IInv'
  OBVIOUS
<1>1. CASE UNCHANGED vars
  BY <1>1
     DEF vars, IInv, TypeOK, EventsOpen, EventsOnce, Listed, Pending, ListedAsked, PendingOpen,
         PendingOnce, PendingArrived, DecidedAsked, ResponsesHold, Holds, AnswersTheAsker
<1>2. ASSUME NEW s \in Session, Agent(s) PROVE IInv'
  BY <1>2, AskIInv, AgentIInv DEF Agent
<1>3. CASE Desktop
  BY <1>3, AddRequestIInv, RespondIInv, BackIInv DEF Desktop
<1>4. CASE HandleApprovalResponse
  BY <1>4, BackIInv
<1>5. CASE Link
  BY <1>5, LinkIInv
<1>. QED BY <1>1, <1>2, <1>3, <1>4, <1>5 DEF Next

\* The invariant holds of every behaviour of an agent, the queue and the host.
THEOREM Invariant == Spec => []IInv
<1>. QED BY InitIInv, StepIInv, PTL DEF Spec

\* The state of agents, queue and host has its types, however many prompts there are.
THEOREM TypeCorrect == Spec => []TypeOK
<1>1. IInv => TypeOK
  BY DEF IInv
<1>. QED BY <1>1, Invariant, PTL

\* A line that the host writes comes to the session on whose card the user
\* decided, and says what the user decided there: for any number of sessions and
\* prompts, and also for agents that ask in parallel, are interrupted, end, or
\* leave the request id out.
THEOREM Answered == Spec => []AnswersTheAsker
<1>1. IInv => AnswersTheAsker
  BY DEF IInv
<1>. QED BY <1>1, Invariant, PTL

-----------------------------------------------------------------------------
(***************************************************************************)
(* Approval implements Consent: an agent that asks one thing at a time     *)
(* goes on with what the user decided on that prompt, once, although a     *)
(* line on its stdin does not say which prompt it answers. It holds        *)
(* because a decision is at one place on its way, and because what is on   *)
(* its way to a plain agent is what the agent waits for.                   *)
(***************************************************************************)

\* What is on its way about a prompt is at one place: in a call, in the channel
\* to the host, or on a stdin.
CallOnce == \A c, e \in calls : c.of = e.of => c = e
DownOnce == \A j, k \in DOMAIN downlink : downlink[j].of = downlink[k].of => j = k
LineOnce == \A s \in Session : \A j, k \in DOMAIN stdin[s] : stdin[s][j].of = stdin[s][k].of => j = k
CallNotDown == \A c \in calls : \A k \in DOMAIN downlink : c.of # downlink[k].of
CallNotLine == \A c \in calls : \A s \in Session : \A k \in DOMAIN stdin[s] : c.of # stdin[s][k].of
DownNotLine ==
    \A j \in DOMAIN downlink : \A s \in Session : \A k \in DOMAIN stdin[s] :
        downlink[j].of # stdin[s][k].of

OnePlace == CallOnce /\ DownOnce /\ LineOnce /\ CallNotDown /\ CallNotLine /\ DownNotLine

\* A plain agent that lives waits for a prompt, and for no other.
Awaited(s, p) == s \in Plain \cap running => waiting[s] = <<p>>

\* It waits for what is on its way to it, and for what is not decided.
FlightAwaited ==
    /\ \A c \in calls : Awaited(c.session, c.of)
    /\ \A k \in DOMAIN downlink : Awaited(downlink[k].session, downlink[k].of)
    /\ \A s \in Session : \A k \in DOMAIN stdin[s] : Awaited(s, stdin[s][k].of)
OpenAwaited == \A p \in Prompt : asker[p] \in Session /\ decided[p] = None => Awaited(asker[p], p)

\* Agents wait for prompts of their own, and a plain one did not go on with what
\* it waits for.
WaitsAsked == \A s \in Session : \A k \in DOMAIN waiting[s] : asker[waiting[s][k]] = s
WaitsUntaken == \A s \in Plain : \A k \in DOMAIN waiting[s] : taken[waiting[s][k]] = None

\* Only a prompt that was asked is taken, and an agent that ended reads nothing.
TakenAsked == \A p \in Prompt : taken[p] # None => asker[p] # None
EndedSilent == \A s \in Session \ running : stdin[s] = <<>>

FlightInv ==
    /\ OnePlace
    /\ FlightAwaited
    /\ OpenAwaited
    /\ WaitsAsked
    /\ WaitsUntaken
    /\ TakenAsked
    /\ EndedSilent

-----------------------------------------------------------------------------
\* The sets that the variables are in, for the lemmas below.
LEMMA Ranges ==
    ASSUME TypeOK
    PROVE /\ \A c \in calls : c \in Response /\ c.session \in Session /\ c.of \in Prompt
          /\ \A k \in DOMAIN downlink :
                 downlink[k].session \in Session /\ downlink[k].of \in Prompt
          /\ \A s \in Session : \A k \in DOMAIN stdin[s] : stdin[s][k] \in Line /\ stdin[s][k].of \in Prompt
          /\ \A s \in Session : \A k \in DOMAIN waiting[s] : waiting[s][k] \in Prompt
<1>1. calls \subseteq Response /\ \A k \in DOMAIN downlink : downlink[k] \in Response
  BY DEF TypeOK
<1>2. \A s \in Session : \A k \in DOMAIN stdin[s] : stdin[s][k] \in Line
  BY DEF TypeOK
<1>3. \A s \in Session : \A k \in DOMAIN waiting[s] : waiting[s][k] \in Prompt
  BY DEF TypeOK
<1>4. \A r \in Response : r.session \in Session /\ r.of \in Prompt
  BY DEF Response
<1>5. \A l \in Line : l.of \in Prompt
  BY DEF Line
<1>. QED BY <1>1, <1>2, <1>3, <1>4, <1>5

\* A prompt that is not decided is nowhere on its way.
LEMMA UndecidedAbsent ==
    ASSUME IInv, NEW p \in Prompt, decided[p] = None
    PROVE /\ \A c \in calls : c.of # p
          /\ \A k \in DOMAIN downlink : downlink[k].of # p
          /\ \A s \in Session : \A k \in DOMAIN stdin[s] : stdin[s][k].of # p
<1>1. calls \subseteq Response /\ \A k \in DOMAIN downlink : downlink[k] \in Response
  BY DEF IInv, TypeOK
<1>2. \A r \in Response : r.decision # None
  BY NoneAssumption DEF Response, Decision
<1>3. \A r \in Response : Holds(r) => r.of # p
  BY <1>2 DEF Holds
<1>4. ASSUME NEW s \in Session, NEW k \in DOMAIN stdin[s] PROVE stdin[s][k].of # p
  <2>1. stdin[s][k] \in Line
    BY DEF IInv, TypeOK
  <2>2. \A b \in Decision : Token(b) # None
    BY NoneAssumption
  <2>3. stdin[s][k].text # None
    BY <2>1, <2>2 DEF Line
  <2>4. stdin[s][k].text = Token(decided[stdin[s][k].of])
    BY DEF IInv, AnswersTheAsker
  <2>5. Token(None) = None
    BY NoneAssumption DEF Token, Decision
  <2>. QED BY <2>3, <2>4, <2>5
<1>5. \A c \in calls : c.of # p
  BY <1>1, <1>3 DEF IInv, ResponsesHold
<1>6. \A k \in DOMAIN downlink : downlink[k].of # p
  BY <1>1, <1>3 DEF IInv, ResponsesHold
<1>. QED BY <1>4, <1>5, <1>6

\* At the start nothing is on its way.
LEMMA InitFlight == Init => FlightInv
<1>. SUFFICES ASSUME Init PROVE FlightInv
  OBVIOUS
<1>1. \A s \in Session : stdin[s] = <<>> /\ waiting[s] = <<>>
  BY DEF Init
<1>2. calls = {} /\ downlink = <<>> /\ DOMAIN <<>> = {}
  BY DEF Init
<1>3. OnePlace /\ FlightAwaited /\ EndedSilent
  BY <1>1, <1>2
     DEF OnePlace, CallOnce, DownOnce, LineOnce, CallNotDown, CallNotLine, DownNotLine, FlightAwaited,
         EndedSilent
<1>4. OpenAwaited /\ TakenAsked
  BY NoneAssumption DEF Init, OpenAwaited, TakenAsked
<1>5. WaitsAsked /\ WaitsUntaken
  BY <1>1, <1>2 DEF WaitsAsked, WaitsUntaken, Plain
<1>. QED BY <1>3, <1>4, <1>5 DEF FlightInv

\* What a step of the frontend that lists a request leaves alone.
LEMMA SameFlight ==
    ASSUME FlightInv, UNCHANGED <<running, waiting, asker, calls, downlink, stdin, decided, taken>>
    PROVE FlightInv'
BY DEF FlightInv, OnePlace, CallOnce, DownOnce, LineOnce, CallNotDown, CallNotLine, DownNotLine,
       FlightAwaited, OpenAwaited, WaitsAsked, WaitsUntaken, TakenAsked, EndedSilent, Awaited

\* An agent asks: a plain one waited for nothing, so nothing is on its way to it.
LEMMA AskFlight ==
    ASSUME IInv, FlightInv, NEW s \in Session, NEW p \in Prompt, NEW i \in RequestId, Ask(s, p, i)
    PROVE FlightInv'
<1>1. /\ UNCHANGED <<running, calls, downlink, stdin, decided, taken>>
      /\ asker[p] = None /\ asker' = [asker EXCEPT ![p] = s]
      /\ waiting' = [waiting EXCEPT ![s] = Append(@, p)]
  BY DEF Ask
<1>2. TypeOK /\ asker \in [Prompt -> Session \cup {None}] /\ waiting \in [Session -> Seq(Prompt)]
  BY DEF IInv, TypeOK
<1>3. s \in Plain => waiting[s] = <<>> /\ waiting'[s] = <<p>>
  <2>1. s \in Plain => waiting[s] = <<>>
    BY DEF Ask, Plain
  <2>. QED BY <2>1, <1>1, <1>2
<1>4. \A t \in Session : t # s => waiting'[t] = waiting[t]
  BY <1>1, <1>2
<1>5. \A t \in Session, q \in Prompt : Awaited(t, q) /\ t \in Plain \cap running => waiting'[t] = <<q>>
  <2>. SUFFICES ASSUME NEW t \in Session, NEW q \in Prompt, Awaited(t, q), t \in Plain \cap running
       PROVE waiting'[t] = <<q>>
    OBVIOUS
  <2>1. waiting[t] = <<q>> /\ <<q>> # <<>>
    BY DEF Awaited
  <2>. QED BY <2>1, <1>3, <1>4
<1>6. decided[p] = None /\ taken[p] = None
  BY <1>1 DEF IInv, DecidedAsked, FlightInv, TakenAsked
<1>7. asker'[p] = s /\ s # None /\ \A q \in Prompt : q # p => asker'[q] = asker[q]
  BY <1>1, <1>2, NoneAssumption
<1>a. (OnePlace /\ EndedSilent)'
  BY <1>1
     DEF FlightInv, OnePlace, CallOnce, DownOnce, LineOnce, CallNotDown, CallNotLine, DownNotLine, EndedSilent
<1>b. FlightAwaited'
  <2>1. \A c \in calls : c.session \in Plain \cap running => waiting'[c.session] = <<c.of>>
    <3>1. \A c \in calls : c.session \in Session /\ c.of \in Prompt
      BY <1>2, Ranges
    <3>. QED BY <3>1, <1>5 DEF FlightInv, FlightAwaited
  <2>2. \A k \in DOMAIN downlink :
            downlink[k].session \in Plain \cap running => waiting'[downlink[k].session] = <<downlink[k].of>>
    <3>1. \A k \in DOMAIN downlink : downlink[k].session \in Session /\ downlink[k].of \in Prompt
      BY <1>2, Ranges
    <3>. QED BY <3>1, <1>5 DEF FlightInv, FlightAwaited
  <2>3. \A t \in Session : \A k \in DOMAIN stdin[t] :
            t \in Plain \cap running => waiting'[t] = <<stdin[t][k].of>>
    <3>1. \A t \in Session : \A k \in DOMAIN stdin[t] : stdin[t][k].of \in Prompt
      BY <1>2, Ranges
    <3>. QED BY <3>1, <1>5 DEF FlightInv, FlightAwaited
  <2>4. (\A c \in calls : Awaited(c.session, c.of))'
    BY <2>1, <1>1 DEF Awaited
  <2>5. (\A k \in DOMAIN downlink : Awaited(downlink[k].session, downlink[k].of))'
    BY <2>2, <1>1 DEF Awaited
  <2>6. (\A t \in Session : \A k \in DOMAIN stdin[t] : Awaited(t, stdin[t][k].of))'
    BY <2>3, <1>1 DEF Awaited
  <2>. QED BY <2>4, <2>5, <2>6 DEF FlightAwaited
<1>c. OpenAwaited'
  <2>. SUFFICES ASSUME NEW q \in Prompt, asker'[q] \in Session, decided[q] = None,
              asker'[q] \in Plain \cap running
       PROVE waiting'[asker'[q]] = <<q>>
    BY <1>1 DEF OpenAwaited, Awaited
  <2>1. CASE q = p
    BY <2>1, <1>3, <1>7
  <2>2. CASE q # p
    <3>1. asker'[q] = asker[q] /\ Awaited(asker[q], q)
      BY <2>2, <1>7 DEF FlightInv, OpenAwaited
    <3>. QED BY <3>1, <1>5, <1>7, <2>2
  <2>. QED BY <2>1, <2>2
<1>d. (WaitsAsked /\ WaitsUntaken)'
  <2>1. \A t \in Session : \A k \in DOMAIN waiting'[t] :
            \/ k \in DOMAIN waiting[t] /\ waiting'[t][k] = waiting[t][k]
            \/ t = s /\ waiting'[t][k] = p
    <3>1. waiting[s] \in Seq(Prompt) /\ waiting'[s] = Append(waiting[s], p)
      BY <1>1, <1>2
    <3>2. \A k \in DOMAIN waiting'[s] :
              \/ k \in DOMAIN waiting[s] /\ waiting'[s][k] = waiting[s][k]
              \/ waiting'[s][k] = p
      BY <3>1, AppendElements
    <3>. QED BY <3>2, <1>4
  <2>2. \A t \in Session : \A k \in DOMAIN waiting[t] : waiting[t][k] \in Prompt /\ waiting[t][k] # p
    <3>1. \A t \in Session : \A k \in DOMAIN waiting[t] : waiting[t][k] \in Prompt
      BY <1>2, Ranges
    <3>2. \A t \in Session : t # None
      BY NoneAssumption
    <3>. QED BY <3>1, <3>2, <1>1 DEF FlightInv, WaitsAsked
  <2>3. WaitsAsked'
    BY <2>1, <2>2, <1>7 DEF FlightInv, WaitsAsked
  <2>4. WaitsUntaken'
    BY <2>1, <1>1, <1>6 DEF FlightInv, WaitsUntaken, Plain
  <2>. QED BY <2>3, <2>4
<1>e. TakenAsked'
  BY <1>1, <1>7 DEF FlightInv, TakenAsked
<1>. QED BY <1>a, <1>b, <1>c, <1>d, <1>e DEF FlightInv

\* An agent that is interrupted or ends is not a plain one that lives.
LEMMA StopFlight ==
    ASSUME IInv, FlightInv, NEW s \in Session, Interrupt(s) \/ Ends(s)
    PROVE FlightInv'
<1>1. /\ UNCHANGED <<asker, calls, downlink, decided, taken>>
      /\ running' \in {running, running \ {s}}
      /\ waiting' = [waiting EXCEPT ![s] = <<>>]
      /\ stdin' = stdin \/ (stdin' = [stdin EXCEPT ![s] = <<>>])
  BY DEF Interrupt, Ends
<1>2. TypeOK /\ waiting \in [Session -> Seq(Prompt)] /\ stdin \in [Session -> Seq(Line)]
  BY DEF IInv, TypeOK
<1>3. s \notin Plain \cap running' /\ (running' = running \/ stdin'[s] = <<>>)
  BY <1>2 DEF Interrupt, Ends, Plain
<1>4. \A t \in Session :
          /\ waiting'[t] = IF t = s THEN <<>> ELSE waiting[t]
          /\ stdin'[t] = stdin[t] \/ stdin'[t] = <<>>
          /\ t \in Plain \cap running' => t \in Plain \cap running /\ waiting'[t] = waiting[t]
  BY <1>1, <1>2, <1>3
<1>5. DOMAIN <<>> = {}
  OBVIOUS
<1>a. OnePlace'
  <2>1. (CallOnce /\ DownOnce /\ CallNotDown)'
    BY <1>1 DEF FlightInv, OnePlace, CallOnce, DownOnce, CallNotDown
  <2>2. (LineOnce /\ CallNotLine /\ DownNotLine)'
    BY <1>1, <1>4, <1>5 DEF FlightInv, OnePlace, LineOnce, CallNotLine, DownNotLine
  <2>. QED BY <2>1, <2>2 DEF OnePlace
<1>b. FlightAwaited'
  <2>1. (\A c \in calls : Awaited(c.session, c.of))'
    <3>1. \A c \in calls : c.session \in Session
      BY <1>2, Ranges
    <3>. QED BY <3>1, <1>1, <1>4 DEF FlightInv, FlightAwaited, Awaited
  <2>2. (\A k \in DOMAIN downlink : Awaited(downlink[k].session, downlink[k].of))'
    <3>1. \A k \in DOMAIN downlink : downlink[k].session \in Session
      BY <1>2, Ranges
    <3>. QED BY <3>1, <1>1, <1>4 DEF FlightInv, FlightAwaited, Awaited
  <2>3. (\A t \in Session : \A k \in DOMAIN stdin[t] : Awaited(t, stdin[t][k].of))'
    BY <1>4, <1>5 DEF FlightInv, FlightAwaited, Awaited
  <2>. QED BY <2>1, <2>2, <2>3 DEF FlightAwaited
<1>c. OpenAwaited'
  BY <1>1, <1>4 DEF FlightInv, OpenAwaited, Awaited
<1>d. (WaitsAsked /\ WaitsUntaken)'
  BY <1>1, <1>4, <1>5 DEF FlightInv, WaitsAsked, WaitsUntaken, Plain
<1>e. (TakenAsked /\ EndedSilent)'
  BY <1>1, <1>3, <1>4 DEF FlightInv, TakenAsked, EndedSilent
<1>. QED BY <1>a, <1>b, <1>c, <1>d, <1>e DEF FlightInv

\* What the first line on the stdin of an agent says of the prompt it waits for:
\* to a plain one, what was decided on that prompt, and nothing else is on its
\* way to it.
LEMMA ReadsAwaited ==
    ASSUME IInv, FlightInv, NEW s \in Plain, stdin[s] # <<>>
    PROVE LET line == Head(stdin[s])
          IN  /\ line.of \in Prompt /\ asker[line.of] = s
              /\ waiting[s] = <<line.of>>
              /\ taken[line.of] = None
              /\ decided[line.of] \in Decision
              /\ DecisionOf(line.text) = decided[line.of]
<1>. DEFINE line == Head(stdin[s])
<1>0. TypeOK /\ s \in Session /\ stdin[s] \in Seq(Line)
  BY DEF IInv, TypeOK, Plain
<1>1. line = stdin[s][1] /\ 1 \in DOMAIN stdin[s] /\ line \in Line
  BY <1>0, TailElements
<1>2. line.of \in Prompt /\ line.text \in {Token(d) : d \in Decision}
  BY <1>1 DEF Line
<1>3. asker[line.of] = s /\ line.text = Token(decided[line.of])
  BY <1>0, <1>1 DEF IInv, AnswersTheAsker
<1>4. s \in running
  BY <1>0 DEF FlightInv, EndedSilent
<1>5. waiting[s] = <<line.of>>
  BY <1>0, <1>1, <1>4 DEF FlightInv, FlightAwaited, Awaited
<1>6. taken[line.of] = None
  <2>1. 1 \in DOMAIN waiting[s] /\ waiting[s][1] = line.of
    BY <1>5
  <2>. QED BY <2>1 DEF FlightInv, WaitsUntaken
<1>7. decided[line.of] \in Decision
  <2>1. decided[line.of] # None
    BY <1>0, <1>1, <1>2, UndecidedAbsent
  <2>. QED BY <2>1, <1>0, <1>2 DEF TypeOK
<1>8. DecisionOf(Token(decided[line.of])) = decided[line.of]
  <2>1. \A d, e \in Decision : Token(d) = Token(e) => d = e
    BY DEF Token, Decision
  <2>. QED BY <2>1, <1>7 DEF DecisionOf
<1>. QED BY <1>2, <1>3, <1>5, <1>6, <1>7, <1>8

\* An agent reads a line: a plain one waits for nothing more then, and nothing
\* else is on its way to it.
LEMMA ReadsFlight ==
    ASSUME IInv, FlightInv, NEW s \in Session, Reads(s)
    PROVE FlightInv'
<1>1. /\ UNCHANGED <<running, asker, calls, downlink, decided>>
      /\ stdin[s] # <<>> /\ stdin' = [stdin EXCEPT ![s] = Tail(@)]
  BY DEF Reads
<1>2. TypeOK /\ waiting \in [Session -> Seq(Prompt)] /\ stdin \in [Session -> Seq(Line)]
      /\ taken \in [Prompt -> Decision \cup {None}]
  BY DEF IInv, TypeOK
<1>3. /\ \A t \in Session : t # s => stdin'[t] = stdin[t] /\ waiting'[t] = waiting[t]
      /\ \A k \in DOMAIN stdin'[s] :
             k + 1 \in DOMAIN stdin[s] /\ stdin'[s][k] = stdin[s][k + 1] /\ k \in Nat \ {0}
  <2>1. /\ stdin[s] \in Seq(Line) /\ stdin'[s] = Tail(stdin[s])
        /\ \A t \in Session : t # s => stdin'[t] = stdin[t]
    BY <1>1, <1>2
  <2>2. \A t \in Session : t # s => waiting'[t] = waiting[t]
    BY <1>2 DEF Reads
  <2>. QED BY <2>1, <2>2, <1>1, TailElements
<1>4. waiting'[s] = waiting[s] \/ (waiting[s] # <<>> /\ waiting'[s] = Tail(waiting[s]))
  BY <1>2 DEF Reads
<1>5. \A k \in DOMAIN waiting'[s] : \E j \in DOMAIN waiting[s] : waiting'[s][k] = waiting[s][j]
  <2>1. waiting[s] \in Seq(Prompt)
    BY <1>2
  <2>2. waiting[s] # <<>> => \A k \in DOMAIN Tail(waiting[s]) :
            k + 1 \in DOMAIN waiting[s] /\ Tail(waiting[s])[k] = waiting[s][k + 1]
    BY <2>1, TailElements
  <2>. QED BY <2>2, <1>4
<1>6. \A q \in Prompt : asker[q] # s => taken'[q] = taken[q]
  <2>1. CASE waiting[s] = <<>>
    BY <2>1 DEF Reads
  <2>2. CASE waiting[s] # <<>>
    <3>1. waiting[s] \in Seq(Prompt)
      BY <1>2
    <3>2. Head(waiting[s]) = waiting[s][1] /\ 1 \in DOMAIN waiting[s]
      BY <3>1, <2>2, TailElements
    <3>3. asker[Head(waiting[s])] = s
      BY <3>2 DEF FlightInv, WaitsAsked
    <3>. QED BY <3>3, <2>2, <1>2 DEF Reads
  <2>. QED BY <2>1, <2>2
<1>7. ASSUME s \in Plain
      PROVE /\ waiting'[s] = <<>>
            /\ waiting[s] = <<stdin[s][1].of>> /\ decided[stdin[s][1].of] # None /\ 1 \in DOMAIN stdin[s]
  <2>1. stdin[s] \in Seq(Line)
    BY <1>2
  <2>2. Head(stdin[s]) = stdin[s][1] /\ 1 \in DOMAIN stdin[s]
    BY <2>1, <1>1, TailElements
  <2>3. waiting[s] = <<stdin[s][1].of>> /\ decided[stdin[s][1].of] \in Decision
    BY <2>2, <1>1, <1>7, ReadsAwaited
  <2>4. waiting'[s] = Tail(waiting[s])
    BY <2>3, <1>2 DEF Reads
  <2>. QED BY <2>2, <2>3, <2>4, NoneAssumption
<1>8. s \in running
  BY <1>1 DEF FlightInv, EndedSilent
<1>a. OnePlace'
  <2>1. (CallOnce /\ DownOnce /\ CallNotDown)'
    BY <1>1 DEF FlightInv, OnePlace, CallOnce, DownOnce, CallNotDown
  <2>2. \A t \in Session : \A k \in DOMAIN stdin'[t] :
            \E j \in DOMAIN stdin[t] : stdin'[t][k] = stdin[t][j]
    BY <1>3
  <2>3. (CallNotLine /\ DownNotLine)'
    BY <2>2, <1>1 DEF FlightInv, OnePlace, CallNotLine, DownNotLine
  <2>4. ASSUME NEW t \in Session, NEW j \in DOMAIN stdin'[t], NEW k \in DOMAIN stdin'[t],
               stdin'[t][j].of = stdin'[t][k].of
        PROVE j = k
    <3>1. CASE t = s
      <4>1. j + 1 = k + 1 /\ j \in Nat /\ k \in Nat
        BY <2>4, <3>1, <1>3 DEF FlightInv, OnePlace, LineOnce
      <4>. QED BY <4>1
    <3>2. CASE t # s
      BY <2>4, <3>2, <1>3 DEF FlightInv, OnePlace, LineOnce
    <3>. QED BY <3>1, <3>2
  <2>5. LineOnce'
    BY <2>4 DEF LineOnce
  <2>. QED BY <2>1, <2>3, <2>5 DEF OnePlace
<1>b. FlightAwaited'
  <2>1. (\A c \in calls : Awaited(c.session, c.of))'
    <3>. SUFFICES ASSUME NEW c \in calls, c.session \in Plain \cap running
         PROVE waiting'[c.session] = <<c.of>>
      BY <1>1 DEF Awaited
    <3>1. waiting[c.session] = <<c.of>> /\ c.session \in Session
      BY <1>2, Ranges DEF FlightInv, FlightAwaited, Awaited
    <3>2. c.session # s
      BY <3>1, <1>7 DEF FlightInv, OnePlace, CallNotLine
    <3>. QED BY <3>1, <3>2, <1>3
  <2>2. (\A k \in DOMAIN downlink : Awaited(downlink[k].session, downlink[k].of))'
    <3>. SUFFICES ASSUME NEW k \in DOMAIN downlink, downlink[k].session \in Plain \cap running
         PROVE waiting'[downlink[k].session] = <<downlink[k].of>>
      BY <1>1 DEF Awaited
    <3>1. waiting[downlink[k].session] = <<downlink[k].of>> /\ downlink[k].session \in Session
      BY <1>2, Ranges DEF FlightInv, FlightAwaited, Awaited
    <3>2. downlink[k].session # s
      BY <3>1, <1>7 DEF FlightInv, OnePlace, DownNotLine
    <3>. QED BY <3>1, <3>2, <1>3
  <2>3. (\A t \in Session : \A k \in DOMAIN stdin[t] : Awaited(t, stdin[t][k].of))'
    <3>. SUFFICES ASSUME NEW t \in Session, NEW k \in DOMAIN stdin'[t], t \in Plain \cap running
         PROVE waiting'[t] = <<stdin'[t][k].of>>
      BY <1>1 DEF Awaited
    <3>1. CASE t = s
      <4>1. k + 1 \in DOMAIN stdin[s] /\ k + 1 # 1
        BY <3>1, <1>3
      <4>2. waiting[s] = <<stdin[s][k + 1].of>>
        BY <4>1, <3>1 DEF FlightInv, FlightAwaited, Awaited
      <4>3. stdin[s][k + 1].of = stdin[s][1].of
        BY <4>2, <3>1, <1>7
      <4>. QED BY <4>1, <4>3, <3>1, <1>7 DEF FlightInv, OnePlace, LineOnce
    <3>2. CASE t # s
      BY <3>2, <1>3 DEF FlightInv, FlightAwaited, Awaited
    <3>. QED BY <3>1, <3>2
  <2>. QED BY <2>1, <2>2, <2>3 DEF FlightAwaited
<1>c. OpenAwaited'
  <2>. SUFFICES ASSUME NEW q \in Prompt, asker[q] \in Session, decided[q] = None,
              asker[q] \in Plain \cap running
       PROVE waiting'[asker[q]] = <<q>>
    BY <1>1 DEF OpenAwaited, Awaited
  <2>1. waiting[asker[q]] = <<q>>
    BY DEF FlightInv, OpenAwaited, Awaited
  <2>2. asker[q] # s
    BY <2>1, <1>7
  <2>. QED BY <2>1, <2>2, <1>3
<1>d. WaitsAsked'
  BY <1>1, <1>3, <1>5 DEF FlightInv, WaitsAsked
<1>e. WaitsUntaken'
  <2>. SUFFICES ASSUME NEW t \in Plain, NEW k \in DOMAIN waiting'[t] PROVE taken'[waiting'[t][k]] = None
    BY DEF WaitsUntaken
  <2>1. t # s
    BY <1>7
  <2>2. t \in Session /\ waiting'[t] = waiting[t]
    BY <2>1, <1>3 DEF Plain
  <2>3. waiting[t][k] \in Prompt /\ asker[waiting[t][k]] = t /\ taken[waiting[t][k]] = None
    BY <2>2, <1>2, Ranges DEF FlightInv, WaitsAsked, WaitsUntaken
  <2>. QED BY <2>1, <2>2, <2>3, <1>6
<1>f. TakenAsked'
  BY <1>1, <1>6, NoneAssumption DEF FlightInv, TakenAsked
<1>g. EndedSilent'
  BY <1>1, <1>3, <1>8 DEF FlightInv, EndedSilent
<1>. QED BY <1>a, <1>b, <1>c, <1>d, <1>e, <1>f, <1>g DEF FlightInv

\* The user decides on a card: the prompt was nowhere on its way, and a plain
\* agent waits for it.
LEMMA RespondFlight ==
    ASSUME IInv, FlightInv, NEW i \in RequestId, NEW d \in Decision, Respond(i, d)
    PROVE FlightInv'
<1>. DEFINE p == requests[i].prompt
            c == [session |-> requests[i].session, id |-> i, decision |-> d, of |-> p]
<1>0. TypeOK /\ decided \in [Prompt -> Decision \cup {None}] /\ requests[i] \in Request /\ i \in Pending /\ i \in Listed
  BY DEF IInv, TypeOK, Respond, First, Pending, Listed
<1>1. /\ calls' = calls \cup {c} /\ decided' = [decided EXCEPT ![p] = d]
      /\ UNCHANGED <<running, waiting, asker, downlink, stdin, taken>>
  BY DEF Respond
<1>2. p \in Prompt /\ requests[i].session \in Session
  BY <1>0 DEF Request
<1>3. asker[p] = requests[i].session /\ decided[p] = None
  BY <1>0 DEF IInv, ListedAsked, PendingOpen
<1>4. c.of = p /\ c.session = asker[p]
  BY <1>3
<1>5. d # None
  BY NoneAssumption
<1>. HIDE DEF p, c
<1>6. Awaited(c.session, c.of)
  BY <1>2, <1>3, <1>4 DEF FlightInv, OpenAwaited
<1>a. OnePlace'
  BY <1>1, <1>2, <1>3, <1>4, UndecidedAbsent
     DEF FlightInv, OnePlace, CallOnce, DownOnce, LineOnce, CallNotDown, CallNotLine, DownNotLine
<1>b. FlightAwaited'
  BY <1>1, <1>6 DEF FlightInv, FlightAwaited, Awaited
<1>c. OpenAwaited'
  <2>1. \A q \in Prompt : decided'[q] = None => decided[q] = None
    BY <1>0, <1>1, <1>5
  <2>. QED BY <2>1, <1>1 DEF FlightInv, OpenAwaited, Awaited
<1>d. (WaitsAsked /\ WaitsUntaken /\ TakenAsked /\ EndedSilent)'
  BY <1>1 DEF FlightInv, WaitsAsked, WaitsUntaken, TakenAsked, EndedSilent
<1>. QED BY <1>a, <1>b, <1>c, <1>d DEF FlightInv

\* A response goes from its call to the channel, or is dropped.
LEMMA SendFlight ==
    ASSUME IInv, FlightInv, NEW c \in calls, Send(c)
    PROVE FlightInv'
<1>1. /\ UNCHANGED <<running, waiting, asker, stdin, decided, taken>>
      /\ calls' = calls \ {c} /\ downlink' \in {downlink, Append(downlink, c)}
  BY DEF Send
<1>2. TypeOK /\ calls \subseteq Response /\ downlink \in Seq(Response)
  BY DEF IInv, TypeOK
<1>3. \A k \in DOMAIN downlink' :
          \/ k \in DOMAIN downlink /\ downlink'[k] = downlink[k]
          \/ k = Len(downlink) + 1 /\ downlink'[k] = c
  BY <1>1, <1>2, AppendElements
<1>a. OnePlace'
  <2>1. (CallOnce /\ LineOnce /\ CallNotLine)'
    BY <1>1 DEF FlightInv, OnePlace, CallOnce, LineOnce, CallNotLine
  <2>2. (CallNotDown /\ DownNotLine)'
    BY <1>1, <1>3 DEF FlightInv, OnePlace, CallOnce, CallNotDown, CallNotLine, DownNotLine
  <2>3. DownOnce'
    BY <1>3 DEF FlightInv, OnePlace, DownOnce, CallNotDown
  <2>. QED BY <2>1, <2>2, <2>3 DEF OnePlace
<1>b. FlightAwaited'
  <2>1. (\A b \in calls : Awaited(b.session, b.of))'
    BY <1>1 DEF FlightInv, FlightAwaited, Awaited
  <2>2. (\A k \in DOMAIN downlink : Awaited(downlink[k].session, downlink[k].of))'
    BY <1>1, <1>3 DEF FlightInv, FlightAwaited, Awaited
  <2>3. (\A t \in Session : \A k \in DOMAIN stdin[t] : Awaited(t, stdin[t][k].of))'
    BY <1>1 DEF FlightInv, FlightAwaited, Awaited
  <2>. QED BY <2>1, <2>2, <2>3 DEF FlightAwaited
<1>c. (OpenAwaited /\ WaitsAsked /\ WaitsUntaken /\ TakenAsked /\ EndedSilent)'
  BY <1>1 DEF FlightInv, OpenAwaited, Awaited, WaitsAsked, WaitsUntaken, TakenAsked, EndedSilent
<1>. QED BY <1>a, <1>b, <1>c DEF FlightInv

\* The host writes the line of a response, if its session lives.
LEMMA HandleFlight ==
    ASSUME IInv, FlightInv, HandleApprovalResponse
    PROVE FlightInv'
<1>. DEFINE m == Head(downlink)
            l == [text |-> Token(m.decision), of |-> m.of]
<1>1. /\ UNCHANGED <<running, waiting, asker, calls, decided, taken>>
      /\ downlink # <<>> /\ downlink' = Tail(downlink)
      /\ \/ stdin' = stdin
         \/ m.session \in running /\ stdin' = [stdin EXCEPT ![m.session] = Append(@, l)]
  BY DEF HandleApprovalResponse
<1>2. TypeOK /\ downlink \in Seq(Response) /\ stdin \in [Session -> Seq(Line)]
  BY DEF IInv, TypeOK
<1>3. /\ m = downlink[1] /\ 1 \in DOMAIN downlink /\ m \in Response
      /\ \A k \in DOMAIN downlink' :
             k + 1 \in DOMAIN downlink /\ downlink'[k] = downlink[k + 1] /\ k \in Nat \ {0}
  BY <1>1, <1>2, TailElements
<1>4. l \in Line /\ m.session \in Session /\ l.of = m.of
  BY <1>3 DEF Response, Line
<1>. HIDE DEF m, l
<1>5. \A s \in Session : \A k \in DOMAIN stdin'[s] :
          \/ k \in DOMAIN stdin[s] /\ stdin'[s][k] = stdin[s][k]
          \/ s = m.session /\ m.session \in running /\ k = Len(stdin[s]) + 1 /\ stdin'[s][k] = l
  <2>1. CASE stdin' = stdin
    BY <2>1
  <2>2. CASE m.session \in running /\ stdin' = [stdin EXCEPT ![m.session] = Append(@, l)]
    <3>1. stdin[m.session] \in Seq(Line)
      BY <1>2, <1>4
    <3>2. \A s \in Session :
              stdin'[s] = IF s = m.session THEN Append(stdin[s], l) ELSE stdin[s]
      BY <2>2, <1>2
    <3>. QED BY <3>1, <3>2, <2>2, <1>4, AppendElements
  <2>. QED BY <2>1, <2>2, <1>1
<1>6. /\ \A k \in DOMAIN downlink' : downlink'[k].of # l.of
      /\ \A s \in Session : \A k \in DOMAIN stdin[s] : stdin[s][k].of # l.of
      /\ \A c \in calls : c.of # l.of
  <2>1. \A k \in DOMAIN downlink' : downlink'[k].of # l.of
    <3>1. \A k \in DOMAIN downlink' : k + 1 # 1
      BY <1>3
    <3>. QED BY <3>1, <1>3, <1>4 DEF FlightInv, OnePlace, DownOnce
  <2>. QED BY <2>1, <1>3, <1>4 DEF FlightInv, OnePlace, CallNotDown, DownNotLine
<1>a. OnePlace'
  <2>1. (CallOnce /\ CallNotDown)'
    BY <1>1, <1>3 DEF FlightInv, OnePlace, CallOnce, CallNotDown
  <2>2. DownOnce'
    <3>. SUFFICES ASSUME NEW j \in DOMAIN downlink', NEW k \in DOMAIN downlink',
                         downlink'[j].of = downlink'[k].of
         PROVE j = k
      BY DEF DownOnce
    <3>1. j + 1 = k + 1 /\ j \in Nat /\ k \in Nat
      BY <1>3 DEF FlightInv, OnePlace, DownOnce
    <3>. QED BY <3>1
  <2>3. CallNotLine'
    BY <1>1, <1>5, <1>6 DEF FlightInv, OnePlace, CallNotLine
  <2>4. DownNotLine'
    BY <1>3, <1>5, <1>6 DEF FlightInv, OnePlace, DownNotLine
  <2>5. LineOnce'
    BY <1>5, <1>6 DEF FlightInv, OnePlace, LineOnce
  <2>. QED BY <2>1, <2>2, <2>3, <2>4, <2>5 DEF OnePlace
<1>b. FlightAwaited'
  <2>1. (\A b \in calls : Awaited(b.session, b.of))'
    BY <1>1 DEF FlightInv, FlightAwaited, Awaited
  <2>2. (\A k \in DOMAIN downlink : Awaited(downlink[k].session, downlink[k].of))'
    <3>1. \A k \in DOMAIN downlink' : Awaited(downlink'[k].session, downlink'[k].of)
      BY <1>3 DEF FlightInv, FlightAwaited
    <3>. QED BY <3>1, <1>1 DEF Awaited
  <2>3. (\A t \in Session : \A k \in DOMAIN stdin[t] : Awaited(t, stdin[t][k].of))'
    <3>1. Awaited(m.session, l.of)
      BY <1>3, <1>4 DEF FlightInv, FlightAwaited
    <3>. QED BY <3>1, <1>1, <1>5 DEF FlightInv, FlightAwaited, Awaited
  <2>. QED BY <2>1, <2>2, <2>3 DEF FlightAwaited
<1>c. (OpenAwaited /\ WaitsAsked /\ WaitsUntaken /\ TakenAsked)'
  BY <1>1 DEF FlightInv, OpenAwaited, Awaited, WaitsAsked, WaitsUntaken, TakenAsked
<1>d. EndedSilent'
  <2>1. \A s \in Session \ running : stdin'[s] = stdin[s]
    BY <1>1, <1>2
  <2>. QED BY <2>1, <1>1 DEF FlightInv, EndedSilent
<1>. QED BY <1>a, <1>b, <1>c, <1>d DEF FlightInv

\* A response that is lost is not on its way any more.
LEMMA LinkFlight ==
    ASSUME IInv, FlightInv, Link
    PROVE FlightInv'
<1>1. /\ UNCHANGED <<running, waiting, asker, calls, stdin, decided, taken>>
      /\ downlink' = downlink \/ (downlink # <<>> /\ downlink' = Tail(downlink))
  BY DEF Link, Disconnect, Breaks, LoseRequest, LoseResponse
<1>2. CASE downlink' = downlink
  BY <1>1, <1>2, SameFlight
<1>3. CASE downlink # <<>> /\ downlink' = Tail(downlink)
  <2>1. \A k \in DOMAIN downlink' :
            k + 1 \in DOMAIN downlink /\ downlink'[k] = downlink[k + 1] /\ k \in Nat \ {0}
    BY <1>3, TailElements DEF IInv, TypeOK
  <2>2. DownOnce'
    <3>. SUFFICES ASSUME NEW j \in DOMAIN downlink', NEW k \in DOMAIN downlink',
                         downlink'[j].of = downlink'[k].of
         PROVE j = k
      BY DEF DownOnce
    <3>1. j + 1 = k + 1 /\ j \in Nat /\ k \in Nat
      BY <2>1 DEF FlightInv, OnePlace, DownOnce
    <3>. QED BY <3>1
  <2>3. OnePlace'
    <3>1. (CallOnce /\ LineOnce /\ CallNotLine)'
      BY <1>1 DEF FlightInv, OnePlace, CallOnce, LineOnce, CallNotLine
    <3>2. CallNotDown'
      BY <1>1, <2>1 DEF FlightInv, OnePlace, CallNotDown
    <3>3. DownNotLine'
      BY <1>1, <2>1 DEF FlightInv, OnePlace, DownNotLine
    <3>. QED BY <2>2, <3>1, <3>2, <3>3 DEF OnePlace
  <2>4. FlightAwaited'
    <3>1. (\A b \in calls : Awaited(b.session, b.of))'
      BY <1>1 DEF FlightInv, FlightAwaited, Awaited
    <3>2. (\A k \in DOMAIN downlink : Awaited(downlink[k].session, downlink[k].of))'
      <4>1. \A k \in DOMAIN downlink' : Awaited(downlink'[k].session, downlink'[k].of)
        BY <2>1 DEF FlightInv, FlightAwaited
      <4>. QED BY <4>1, <1>1 DEF Awaited
    <3>3. (\A t \in Session : \A k \in DOMAIN stdin[t] : Awaited(t, stdin[t][k].of))'
      BY <1>1 DEF FlightInv, FlightAwaited, Awaited
    <3>. QED BY <3>1, <3>2, <3>3 DEF FlightAwaited
  <2>5. (OpenAwaited /\ WaitsAsked /\ WaitsUntaken /\ TakenAsked /\ EndedSilent)'
    BY <1>1 DEF FlightInv, OpenAwaited, Awaited, WaitsAsked, WaitsUntaken, TakenAsked, EndedSilent
  <2>. QED BY <2>3, <2>4, <2>5 DEF FlightInv
<1>. QED BY <1>1, <1>2, <1>3

\* Every step keeps what is said of decisions on their way.
LEMMA StepFlight == IInv /\ FlightInv /\ [Next]_vars => FlightInv'
<1>. SUFFICES ASSUME IInv, FlightInv, [Next]_vars PROVE FlightInv'
  OBVIOUS
<1>1. CASE UNCHANGED vars
  BY <1>1, SameFlight DEF vars
<1>2. ASSUME NEW s \in Session, Agent(s) PROVE FlightInv'
  BY <1>2, AskFlight, StopFlight, ReadsFlight DEF Agent
<1>3. CASE Desktop
  <2>1. CASE AddRequest
    BY <2>1, SameFlight DEF AddRequest
  <2>. QED BY <2>1, <1>3, RespondFlight, SendFlight DEF Desktop
<1>4. CASE HandleApprovalResponse
  BY <1>4, HandleFlight
<1>5. CASE Link
  BY <1>5, LinkFlight
<1>. QED BY <1>1, <1>2, <1>3, <1>4, <1>5 DEF Next

-----------------------------------------------------------------------------
\* The start of Approval is one of Consent.
LEMMA InitImplements == Init => Consents!Init
<1>. SUFFICES ASSUME Init PROVE Consents!Init
  OBVIOUS
<1>1. \A p \in Prompt : asker[p] \notin Plain
  BY NoneAssumption DEF Init, Plain
<1>2. OfPlain(decided) = [p \in Prompt |-> None] /\ OfPlain(taken) = [p \in Prompt |-> None]
  BY <1>1 DEF OfPlain
<1>3. {p \in Prompt : asker[p] \in Plain} = {}
  BY <1>1
<1>. QED BY <1>2, <1>3 DEF Consents!Init

\* A step that changes no history is no step of Consent.
LEMMA Stutters ==
    ASSUME UNCHANGED <<asker, decided, taken>>
    PROVE UNCHANGED Consents!vars
BY DEF Consents!vars, OfPlain

\* Each step maps to one of Consent or to a stutter: a plain agent that asks to
\* Ask, a decision on its card to Decide, a line that it reads to Take.
LEMMA StepImplements ==
    ASSUME IInv, FlightInv, [Next]_vars
    PROVE [Consents!Next]_Consents!vars
<1>0. /\ TypeOK /\ asker \in [Prompt -> Session \cup {None}] /\ None \notin Plain
      /\ decided \in [Prompt -> Decision \cup {None}] /\ taken \in [Prompt -> Decision \cup {None}]
  BY NoneAssumption DEF IInv, TypeOK, Plain
<1>1. ASSUME NEW s \in Session, NEW p \in Prompt, NEW i \in RequestId, Ask(s, p, i)
      PROVE [Consents!Next]_Consents!vars
  <2>1. /\ UNCHANGED <<decided, taken>> /\ asker[p] = None /\ asker' = [asker EXCEPT ![p] = s]
    BY <1>1 DEF Ask
  <2>2. decided[p] = None /\ taken[p] = None
    BY <2>1 DEF IInv, DecidedAsked, FlightInv, TakenAsked
  <2>3. OfPlain(decided)' = OfPlain(decided) /\ OfPlain(taken)' = OfPlain(taken)
    <3>1. \A q \in Prompt : q = p \/ asker'[q] = asker[q]
      BY <1>0, <2>1
    <3>2. \A q \in Prompt :
              /\ (IF asker'[q] \in Plain THEN decided[q] ELSE None)
                 = (IF asker[q] \in Plain THEN decided[q] ELSE None)
              /\ (IF asker'[q] \in Plain THEN taken[q] ELSE None)
                 = (IF asker[q] \in Plain THEN taken[q] ELSE None)
      BY <3>1, <2>1, <2>2, <1>0
    <3>. QED BY <3>2, <2>1 DEF OfPlain
  <2>4. CASE s \in Plain
    <3>1. {q \in Prompt : asker'[q] \in Plain} = {q \in Prompt : asker[q] \in Plain} \cup {p}
      BY <2>1, <2>4, <1>0
    <3>2. p \notin {q \in Prompt : asker[q] \in Plain}
      BY <2>1, <1>0
    <3>3. Consents!Ask(p)
      BY <3>1, <3>2, <2>3 DEF Consents!Ask
    <3>. QED BY <3>3 DEF Consents!Next
  <2>5. CASE s \notin Plain
    <3>1. {q \in Prompt : asker'[q] \in Plain} = {q \in Prompt : asker[q] \in Plain}
      BY <2>1, <2>5, <1>0
    <3>. QED BY <3>1, <2>3 DEF Consents!vars
  <2>. QED BY <2>4, <2>5
<1>2. ASSUME NEW s \in Session, Reads(s) PROVE [Consents!Next]_Consents!vars
  <2>1. UNCHANGED <<asker, decided>> /\ stdin[s] # <<>>
    BY <1>2 DEF Reads
  <2>2. CASE s \in Plain
    <3>. DEFINE p == Head(stdin[s]).of
    <3>1. /\ p \in Prompt /\ asker[p] = s /\ waiting[s] = <<p>> /\ taken[p] = None
          /\ decided[p] \in Decision /\ DecisionOf(Head(stdin[s]).text) = decided[p]
      BY <2>1, <2>2, ReadsAwaited
    <3>2. taken' = [taken EXCEPT ![p] = decided[p]]
      <4>1. waiting[s] # <<>> /\ Head(waiting[s]) = p
        BY <3>1
      <4>2. taken' = [taken EXCEPT ![p] = DecisionOf(Head(stdin[s]).text)]
        BY <4>1, <1>2 DEF Reads
      <4>. QED BY <4>2, <3>1
    <3>. HIDE DEF p
    <3>3. OfPlain(taken)' = [OfPlain(taken) EXCEPT ![p] = OfPlain(decided)[p]]
      BY <3>1, <3>2, <2>1, <2>2, <1>0 DEF OfPlain
    <3>4. OfPlain(decided)[p] # None /\ OfPlain(taken)[p] = None
      BY <3>1, <2>2, NoneAssumption DEF OfPlain
    <3>5. OfPlain(decided)' = OfPlain(decided)
      BY <2>1 DEF OfPlain
    <3>6. Consents!Take(p)
      BY <3>3, <3>4, <3>5, <2>1 DEF Consents!Take
    <3>. QED BY <3>1, <3>6 DEF Consents!Next
  <2>3. CASE s \notin Plain
    <3>1. \A q \in Prompt : asker[q] \in Plain => taken'[q] = taken[q]
      <4>1. CASE waiting[s] = <<>>
        BY <4>1, <1>2 DEF Reads
      <4>2. CASE waiting[s] # <<>>
        <5>1. waiting[s] \in Seq(Prompt)
          BY <1>0 DEF TypeOK
        <5>2. Head(waiting[s]) = waiting[s][1] /\ 1 \in DOMAIN waiting[s]
          BY <5>1, <4>2, TailElements
        <5>3. asker[Head(waiting[s])] = s
          BY <5>2 DEF FlightInv, WaitsAsked
        <5>. QED BY <5>3, <4>2, <1>2, <1>0, <2>3 DEF Reads
      <4>. QED BY <4>1, <4>2
    <3>2. OfPlain(taken)' = OfPlain(taken) /\ OfPlain(decided)' = OfPlain(decided)
      BY <3>1, <2>1 DEF OfPlain
    <3>. QED BY <3>2, <2>1 DEF Consents!vars
  <2>. QED BY <2>2, <2>3
<1>3. ASSUME NEW i \in RequestId, NEW d \in Decision, Respond(i, d)
      PROVE [Consents!Next]_Consents!vars
  <2>. DEFINE p == requests[i].prompt
  <2>1. UNCHANGED <<asker, taken>> /\ decided' = [decided EXCEPT ![p] = d]
    BY <1>3 DEF Respond
  <2>2. requests[i] \in Request /\ i \in Pending
    BY <1>0, <1>3 DEF TypeOK, Respond, First, Pending, Listed
  <2>3. p \in Prompt /\ decided[p] = None
    BY <2>2 DEF Request, IInv, PendingOpen
  <2>. HIDE DEF p
  <2>4. OfPlain(taken)' = OfPlain(taken)
    BY <2>1 DEF OfPlain
  <2>5. CASE asker[p] \in Plain
    <3>1. OfPlain(decided)' = [OfPlain(decided) EXCEPT ![p] = d]
      BY <2>1, <2>3, <2>5, <1>0 DEF OfPlain
    <3>2. OfPlain(decided)[p] = None
      BY <2>3 DEF OfPlain
    <3>3. Consents!Decide(p, d)
      BY <3>1, <3>2, <2>1, <2>3, <2>4, <2>5 DEF Consents!Decide
    <3>. QED BY <3>3, <2>3 DEF Consents!Next
  <2>6. CASE asker[p] \notin Plain
    <3>1. \A q \in Prompt : asker[q] \in Plain => decided'[q] = decided[q]
      BY <2>1, <2>6, <1>0
    <3>2. OfPlain(decided)' = OfPlain(decided)
      BY <3>1, <2>1 DEF OfPlain
    <3>. QED BY <3>2, <2>1, <2>4 DEF Consents!vars
  <2>. QED BY <2>5, <2>6
<1>4. ASSUME UNCHANGED <<asker, decided, taken>> PROVE [Consents!Next]_Consents!vars
  BY <1>4, Stutters
<1>5. ASSUME NEW s \in Session, Agent(s) PROVE [Consents!Next]_Consents!vars
  <2>1. CASE Interrupt(s) \/ Ends(s)
    BY <2>1, <1>4 DEF Interrupt, Ends
  <2>. QED BY <2>1, <1>1, <1>2, <1>5 DEF Agent
<1>6. CASE Desktop
  <2>1. CASE AddRequest \/ \E c \in calls : Send(c)
    BY <2>1, <1>4 DEF AddRequest, Send
  <2>. QED BY <2>1, <1>3, <1>6 DEF Desktop
<1>7. CASE HandleApprovalResponse
  BY <1>7, <1>4 DEF HandleApprovalResponse
<1>8. CASE Link
  BY <1>8, <1>4 DEF Link, Disconnect, Breaks, LoseRequest, LoseResponse
<1>9. CASE UNCHANGED vars
  BY <1>9, <1>4 DEF vars
<1>. QED BY <1>5, <1>6, <1>7, <1>8, <1>9 DEF Next

\* For any number of sessions and prompts, the queue of the frontend, the calls
\* that may overtake each other, the channel and the stdin together keep the
\* promise of Consent to plain agents: a prompt goes on with what the user
\* decided on it, once, whatever the agents beside them do.
THEOREM Implements == Spec => ConsentSpec
<1>1. Spec => [](IInv /\ FlightInv)
  BY InitIInv, StepIInv, InitFlight, StepFlight, PTL DEF Spec
<1>. QED BY <1>1, InitImplements, StepImplements, PTL DEF Spec, ConsentSpec, Consents!Spec
=============================================================================
