----------------------------- MODULE Approval -----------------------------
(***************************************************************************)
(* The way of a permission prompt from an agent to the user and of the     *)
(* decision back to the agent's stdin: the stream parser of the host, the  *)
(* relay of the connection, the queue of the frontend, respond_approval    *)
(* and handle_approval_response.                                           *)
(*                                                                         *)
(* An agent is external: it asks, waits for a line on stdin, and goes on   *)
(* with what the line says. What it may do besides is given by the         *)
(* constant Habits: ask again before the first prompt is answered, have a  *)
(* prompt interrupted by the user at the terminal, or leave request_id     *)
(* out; a plain agent does none of it. Texts, commands and times are       *)
(* abstracted; a prompt arrives at the frontend at a time of its own,      *)
(* which is its place in the queue.                                        *)
(*                                                                         *)
(* The remote sessions are those of one connection. It may be disconnected *)
(* by the user or lose its transport while their agents run on; that a     *)
(* decision cannot be sent then is one of the things modelled. A request   *)
(* id is taken to name one prompt: the agent chooses it, and nothing in    *)
(* the code makes it unique across sessions.                               *)
(***************************************************************************)
EXTENDS Naturals, Sequences

CONSTANTS
    Session,       \* sessions that run an agent whose stream is parsed
    LocalSession,  \* those of the local agent, under a connection without a transport
    Prompt,        \* identities for prompts; a prompt's request_id, when it has one
    NoId,          \* the request_id of a prompt that has none
    None,
    Habits         \* by session: a subset of {"parallel", "interrupts", "noId"}

ASSUME SessionAssumption ==
    /\ LocalSession \subseteq Session
    /\ Habits \in [Session -> SUBSET {"parallel", "interrupts", "noId"}]
ASSUME PromptAssumption == NoId \notin Prompt

Decision == {"allow", "allowAll", "reject"}
Token(d) == IF d = "allowAll" THEN "allow-all" ELSE d
DecisionOf(line) == CHOOSE d \in Decision : Token(d) = line
ASSUME NoneAssumption == None \notin Session \cup Decision \cup {Token(d) : d \in Decision}

RequestId == Prompt \cup {NoId}

VARIABLES
    link,      \* the connection of the remote sessions: see Disconnect and Breaks
    running,   \* sessions whose agent lives
    waiting,   \* by session: prompts the agent waits for, oldest first
    asker,     \* by prompt: the session that asked, or None
    events,    \* ApprovalRequest messages and approval:request events under way
    clock,     \* the time of the frontend, in arrivals
    requests,  \* approvalStore.requests: by request id, None when there is none
    calls,     \* respond_approval calls that have not sent yet
    downlink,  \* ApprovalResponse messages from the transport to the host
    stdin,     \* by session: lines written to the agent and not read
    decided,   \* history, by prompt: what the user decided on its card, or None
    taken      \* history, by prompt: what the agent went on with, or None

vars == <<link, running, waiting, asker, events, clock, requests, calls, downlink, stdin, decided, taken>>

Request == [prompt : Prompt, session : Session, at : Nat,
            status : {"pending", "resolved"}]
\* `of` is history: the prompt on whose card the decision was made.
Response == [session : Session, id : RequestId, decision : Decision, of : Prompt]
Line == [text : {Token(d) : d \in Decision}, of : Prompt]
Event == [prompt : Prompt, session : Session, id : RequestId]

\* What agents, the queue, the calls and the host hold of prompts and decisions.
TypeOK ==
    /\ link \in {"up", "removed", "broken"}
    /\ running \subseteq Session
    /\ waiting \in [Session -> Seq(Prompt)]
    /\ asker \in [Prompt -> Session \cup {None}]
    /\ events \in Seq(Event)
    /\ clock \in Nat
    /\ requests \in [RequestId -> Request \cup {None}]
    /\ calls \subseteq Response
    /\ downlink \in Seq(Response)
    /\ stdin \in [Session -> Seq(Line)]
    /\ decided \in [Prompt -> Decision \cup {None}]
    /\ taken \in [Prompt -> Decision \cup {None}]

Init ==
    /\ link = "up"
    /\ running = Session
    /\ waiting = [s \in Session |-> <<>>]
    /\ asker = [p \in Prompt |-> None]
    /\ events = <<>>
    /\ clock = 0
    /\ requests = [i \in RequestId |-> None]
    /\ calls = {}
    /\ downlink = <<>>
    /\ stdin = [s \in Session |-> <<>>]
    /\ decided = [p \in Prompt |-> None]
    /\ taken = [p \in Prompt |-> None]

-----------------------------------------------------------------------------
(* The agent and its reader *)

\* A line with a prompt: parse_permission makes an ApprovalRequest of it, with
\* an empty request_id when the line has none.
Ask(s, p, i) ==
    /\ s \in running
    /\ asker[p] = None
    /\ waiting[s] = <<>> \/ "parallel" \in Habits[s]
    /\ i = p \/ ("noId" \in Habits[s] /\ i = NoId)
    /\ asker' = [asker EXCEPT ![p] = s]
    /\ waiting' = [waiting EXCEPT ![s] = Append(@, p)]
    /\ events' = Append(events, [prompt |-> p, session |-> s, id |-> i])
    /\ UNCHANGED <<link, clock, running, requests, calls, downlink, stdin, decided, taken>>

\* The user interrupts the agent at the terminal: it waits no more.
Interrupt(s) ==
    /\ "interrupts" \in Habits[s]
    /\ waiting[s] # <<>>
    /\ waiting' = [waiting EXCEPT ![s] = <<>>]
    /\ UNCHANGED <<link, clock, running, asker, events, requests, calls, downlink, stdin, decided, taken>>

\* The agent ends, or its session is closed. No one tells the queue.
Ends(s) ==
    /\ s \in running
    /\ running' = running \ {s}
    /\ waiting' = [waiting EXCEPT ![s] = <<>>]
    /\ stdin' = [stdin EXCEPT ![s] = <<>>]
    /\ UNCHANGED <<link, clock, asker, events, requests, calls, downlink, decided, taken>>

\* The agent reads a line: its oldest prompt goes on with it, and without a
\* prompt the line is input like any other.
Reads(s) ==
    /\ stdin[s] # <<>>
    /\ stdin' = [stdin EXCEPT ![s] = Tail(@)]
    /\ IF waiting[s] = <<>> THEN UNCHANGED <<waiting, taken>>
       ELSE /\ taken' = [taken EXCEPT ![Head(waiting[s])] = DecisionOf(Head(stdin[s]).text)]
            /\ waiting' = [waiting EXCEPT ![s] = Tail(@)]
    /\ UNCHANGED <<link, clock, running, asker, events, requests, calls, downlink, decided>>

-----------------------------------------------------------------------------
(* The connection of the remote sessions *)

\* The user disconnects: the transport is no longer found, but its relay holds on
\* to it, and what was sent still arrives.
Disconnect ==
    /\ link = "up"
    /\ link' = "removed"
    /\ UNCHANGED <<running, waiting, asker, events, clock, requests, calls, downlink, stdin, decided, taken>>

\* The transport dies. The monitor may put another in its place, at whose host the
\* sessions are unknown.
Breaks ==
    /\ link # "broken"
    /\ link' = "broken"
    /\ UNCHANGED <<running, waiting, asker, events, clock, requests, calls, downlink, stdin, decided, taken>>

\* What was under way when it died may be lost, prompts and decisions alike.
LoseRequest ==
    /\ link = "broken"
    /\ events # <<>> /\ Head(events).session \notin LocalSession
    /\ events' = Tail(events)
    /\ UNCHANGED <<link, running, waiting, asker, clock, requests, calls, downlink, stdin, decided, taken>>

LoseResponse ==
    /\ link = "broken"
    /\ downlink # <<>>
    /\ downlink' = Tail(downlink)
    /\ UNCHANGED <<link, running, waiting, asker, events, clock, requests, calls, stdin, decided, taken>>

-----------------------------------------------------------------------------
(* The desktop *)

Listed == {i \in RequestId : requests[i] # None}
Pending == {i \in Listed : requests[i].status = "pending"}

\* Mutant: a request that is listed is updated in place.
AddRequestInPlace ==
    /\ events # <<>>
    /\ LET e == Head(events)
       IN  requests' = [requests EXCEPT ![e.id] =
               IF @ = None
               THEN [prompt |-> e.prompt, session |-> e.session, at |-> clock, status |-> "pending"]
               ELSE [@ EXCEPT !.prompt = e.prompt, !.status = "pending"]]
    /\ events' = Tail(events)
    /\ clock' = clock + 1
    /\ UNCHANGED <<link, running, waiting, asker, calls, downlink, stdin, decided, taken>>

\* The relay emits approval:request, and its listener puts the request into the
\* queue under its id, whatever is there.
AddRequest ==
    /\ events # <<>>
    /\ LET e == Head(events)
       IN  requests' = [requests EXCEPT ![e.id] =
               [prompt |-> e.prompt, session |-> e.session, at |-> clock, status |-> "pending"]]
    /\ events' = Tail(events)
    /\ clock' = clock + 1
    /\ UNCHANGED <<link, running, waiting, asker, calls, downlink, stdin, decided, taken>>

\* The card on screen is that of the oldest pending request.
First(i) == i \in Pending /\ \A j \in Pending : requests[i].at <= requests[j].at

\* Mutant: the decision is kept as the status.
RespondWithStatus(i, d) ==
    /\ First(i)
    /\ requests' = [requests EXCEPT ![i].status = d]
    /\ calls' = calls \cup
           {[session |-> requests[i].session, id |-> i, decision |-> d, of |-> requests[i].prompt]}
    /\ decided' = [decided EXCEPT ![requests[i].prompt] = d]
    /\ UNCHANGED <<link, clock, running, waiting, asker, events, downlink, stdin, taken>>

\* respond resolves the request at once and then calls respond_approval.
Respond(i, d) ==
    /\ First(i)
    /\ requests' = [requests EXCEPT ![i].status = "resolved"]
    /\ calls' = calls \cup
           {[session |-> requests[i].session, id |-> i, decision |-> d, of |-> requests[i].prompt]}
    /\ decided' = [decided EXCEPT ![requests[i].prompt] = d]
    /\ UNCHANGED <<link, clock, running, waiting, asker, events, downlink, stdin, taken>>

\* A transport is found for the session, it is connected, and leads to the host of
\* the session; a local session has none.
Reaches(c) == c.session \notin LocalSession /\ link = "up"

\* Mutant: the call is made again after it was sent.
SendAgain(c) ==
    /\ c \in calls
    /\ Len(downlink) < 2
    /\ calls' \in {calls, calls \ {c}}
    /\ downlink' = IF Reaches(c) THEN Append(downlink, c) ELSE downlink
    /\ UNCHANGED <<link, clock, running, waiting, asker, events, requests, stdin, decided, taken>>

\* Mutant: a response is dropped while another one is on its way.
SendIfFree(c) ==
    /\ c \in calls
    /\ calls' = calls \ {c}
    /\ downlink' = IF Reaches(c) /\ downlink = <<>> THEN Append(downlink, c) ELSE downlink
    /\ UNCHANGED <<link, clock, running, waiting, asker, events, requests, stdin, decided, taken>>

\* Calls run side by side. One that finds no transport, or a dead one, fails, and
\* respond drops the error; another host drops what it is sent for a session it
\* does not know.
Send(c) ==
    /\ c \in calls
    /\ calls' = calls \ {c}
    /\ downlink' = IF Reaches(c) THEN Append(downlink, c) ELSE downlink
    /\ UNCHANGED <<link, clock, running, waiting, asker, events, requests, stdin, decided, taken>>

-----------------------------------------------------------------------------
(* The host *)

\* The decision becomes a line on the stdin of the session, if there is one; the
\* request id is logged and no more.
HandleApprovalResponse ==
    /\ downlink # <<>>
    /\ LET m == Head(downlink)
       IN  stdin' = IF m.session \notin running THEN stdin
                    ELSE [stdin EXCEPT ![m.session] =
                             Append(@, [text |-> Token(m.decision), of |-> m.of])]
    /\ downlink' = Tail(downlink)
    /\ UNCHANGED <<link, clock, running, waiting, asker, events, requests, calls, decided, taken>>

Agent(s) ==
    \/ \E p \in Prompt, i \in RequestId : Ask(s, p, i)
    \/ Interrupt(s)
    \/ Ends(s)
    \/ Reads(s)

Desktop ==
    \/ AddRequest
    \/ \E i \in RequestId, d \in Decision : Respond(i, d)
    \/ \E c \in calls : Send(c)

Link == Disconnect \/ Breaks \/ LoseRequest \/ LoseResponse

Next == (\E s \in Session : Agent(s)) \/ Link \/ Desktop \/ HandleApprovalResponse

Spec == Init /\ [][Next]_vars

\* The relay, the calls, the loop of the host and a waiting agent get their turn;
\* nothing makes the user decide.
Fairness ==
    /\ WF_vars(AddRequest) /\ WF_vars(HandleApprovalResponse)
    /\ \A c \in Response : WF_vars(Send(c))
    /\ \A s \in Session : WF_vars(Reads(s))

FairSpec == Spec /\ Fairness

-----------------------------------------------------------------------------
(* Properties *)

\* Remote agents that ask one thing at a time and are not interrupted, and what
\* Consent sees of them.
Plain == {s \in Session \ LocalSession : Habits[s] = {}}
OfPlain(history) == [p \in Prompt |-> IF asker[p] \in Plain THEN history[p] ELSE None]

Consents ==
    INSTANCE Consent WITH
        asked <- {p \in Prompt : asker[p] \in Plain},
        decided <- OfPlain(decided),
        taken <- OfPlain(taken)

\* For plain agents the queue, the unordered calls and the two channels implement
\* the promise of module Consent, whatever the other agents do that share them.
ConsentSpec == Consents!Spec

\* A line reaches the session on whose card it was decided, whatever is listed
\* under the same id, and comes to no session that did not ask.
AnswersTheAsker ==
    \A s \in Session : \A k \in DOMAIN stdin[s] :
        LET line == stdin[s][k]
        IN  asker[line.of] = s /\ line.text = Token(decided[line.of])

Patient == {s \in Session \ LocalSession : Habits[s] \subseteq {"parallel"}}

\* A decision is taken by an agent that may ask in parallel but is not interrupted
\* and names its prompts, unless the agent ends first or the connection is given up
\* or lost.
DecisionsArrive ==
    \A p \in Prompt :
        (decided[p] # None /\ asker[p] \in Patient) ~>
            (taken[p] # None \/ asker[p] \notin running \/ link # "up")

-----------------------------------------------------------------------------
(* Said of the program and not kept by it: see README, Disagreements *)

\* What an agent goes on with is what the user decided on the card of that very
\* prompt, although the line on its stdin does not say which prompt it answers.
TakenIsDecided == \A p \in Prompt : taken[p] # None => taken[p] = decided[p]

\* "Forwards the user's decision to the Remote Agent Host": also when the connection
\* is disconnected or broken between prompt and click, no agent is left waiting for
\* a prompt that has left the queue.
NoneStranded ==
    \A p \in Prompt :
        (decided[p] # None /\ asker[p] \in Patient) ~> (taken[p] # None \/ asker[p] \notin running)
=============================================================================
