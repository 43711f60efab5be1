---------------------------- MODULE SseTranslate ----------------------------
(***************************************************************************)
(* The streaming translation of tap/translate/stream.rs: the body that     *)
(* turns an OpenAI chat completion stream into Anthropic message events    *)
(* for the agent, and reports the exchange to the desktop when dropped.    *)
(*                                                                         *)
(* A payload of the upstream stream is a Chunk: what its first choice      *)
(* carries.  Text and argument fragments are named by the number of the    *)
(* chunk that brought them; the stop_reason of the message_delta is kept   *)
(* apart from the event; ids, model names and token counts are left out,   *)
(* and so is the truncated flag of an exchange whose request was oversized *)
(* (record.rs:73).  The upstream provider is external: Habits says what it *)
(* may do beyond a reply that is either all text or all tool calls         *)
(* announced in its first chunk, once each, with the finish reason in a    *)
(* later chunk.                                                            *)
(***************************************************************************)
EXTENDS Integers, Sequences, SequencesExt, FiniteSets

CONSTANTS
    Index,          \* indices of tool calls
    CallLists,      \* the tool_calls arrays the provider sends
    Habits,         \* what the provider does beyond a plain reply
    Cap,            \* BODY_CAP, in events
    MaxChunks       \* bound: chunks of one reply

AllHabits ==
    {"noChoices", "finishFirst", "parallel", "repeats", "toolsAfterText", "textAfterTools"}

ASSUME SseAssumption ==
    /\ 0 \in Index /\ Index \subseteq Nat
    /\ CallLists \subseteq Seq([index : Index, named : BOOLEAN, args : BOOLEAN]) /\ <<>> \in CallLists
    /\ Habits \subseteq AllHabits
    /\ Cap \in Nat /\ MaxChunks \in Nat

VARIABLES
    state,          \* SseTranslator.state
    tool_indices,   \* the indices of StreamState::ToolCalls
    stop_reason,    \* the stop_reason the agent was told, or "none"
    sent,           \* the events yielded downstream
    captured,       \* StreamingTranslateBody.captured
    truncated,      \* StreamingTranslateBody.truncated
    finished,       \* StreamingTranslateBody.finished
    report,         \* the HttpTraffic the drop sends
    number,         \* chunks the provider has sent
    said,           \* what the provider has sent so far
    announced,      \* tool indices it has opened
    given,          \* the fragments it has sent before it finished
    reason,         \* the finish_reason it has given, or "none"
    odd             \* history: the habits it has shown

translator == <<state, tool_indices, stop_reason>>
provider == <<number, said, announced, given, reason, odd>>
vars == <<translator, sent, captured, truncated, finished, report, provider>>

Chunk ==
    [delta : {"none", "text", "tools"},  \* no choice or delta, a delta, a delta with tool_calls
     text  : BOOLEAN,                    \* is `content` a non-empty string
     calls : CallLists,
     finish : BOOLEAN]                   \* is there a finish_reason

Fragment(kind, i, n) == [kind |-> kind, index |-> i, chunk |-> n]

MessageStart == [ev |-> "message_start"]
BlockStart(kind, i) == [ev |-> "content_block_start", kind |-> kind, index |-> i]
BlockDelta(f) == [ev |-> "content_block_delta", of |-> f, index |-> f.index]
BlockStop(i) == [ev |-> "content_block_stop", index |-> i]
Ending == <<[ev |-> "message_delta"], [ev |-> "message_stop"]>>

Names == {"message_start", "content_block_start", "content_block_delta",
          "content_block_stop", "message_delta", "message_stop"}

Reasons == {"stop", "length", "content_filter", "tool_calls"}
StopReasons == {"end_turn", "max_tokens", "content_filtered", "tool_use"}

NoReport == [body |-> <<>>, truncated |-> FALSE, made |-> FALSE]

\* The state of the translator, and of the body that polls it.
TypeOK ==
    /\ state \in {"Initial", "TextContent", "ToolCalls", "Finished"}
    /\ tool_indices \in Seq(Index) /\ stop_reason \in StopReasons \cup {"none"}
    /\ \A p \in 1..Len(sent) : sent[p].ev \in Names
    /\ Len(captured) <= Len(sent) /\ {truncated, finished} \subseteq BOOLEAN
    /\ report.made \in BOOLEAN /\ Len(report.body) <= Cap
    /\ number \in 0..MaxChunks /\ announced \subseteq Index
    /\ said \subseteq {"text", "tools", "finish"} /\ odd \subseteq Habits
    /\ \A p \in 1..Len(given) : given[p].chunk \in 1..number
    /\ reason \in Reasons \cup {"none"}

Init ==
    /\ state = "Initial" /\ tool_indices = <<>> /\ stop_reason = "none" /\ reason = "none"
    /\ sent = <<>> /\ captured = <<>>
    /\ truncated = FALSE /\ finished = FALSE /\ report = NoReport
    /\ number = 0 /\ said = {} /\ announced = {} /\ given = <<>> /\ odd = {}

-----------------------------------------------------------------------------
\* The translator: the events of one chunk and the state it leaves behind.

TextEvents(c) == IF c.text THEN <<BlockDelta(Fragment("text", 0, number + 1))>> ELSE <<>>

ArgsEvents(call) ==
    IF call.args THEN <<BlockDelta(Fragment("tool", call.index, number + 1))>> ELSE <<>>

\* handle_initial and handle_text open a block for every call of the chunk.
OpenAll(calls) ==
    FlattenSeq([k \in 1..Len(calls) |->
                    <<BlockStart("tool", calls[k].index)>> \o ArgsEvents(calls[k])])

\* handle_tool_calls opens one for a named call that is not in tool_indices.
OpenUnknown(calls) ==
    FlattenSeq([k \in 1..Len(calls) |->
                    IF calls[k].named /\ ~Contains(tool_indices, calls[k].index)
                    THEN <<BlockStart("tool", calls[k].index)>> \o ArgsEvents(calls[k])
                    ELSE ArgsEvents(calls[k])])

Indices(calls) == [k \in 1..Len(calls) |-> calls[k].index]
StopAll(indices) == [k \in 1..Len(indices) |-> BlockStop(indices[k])]

Outcome(events, to, tools) == [events |-> events, state |-> to, tools |-> tools]

\* Variant: emit_finish does not set the state.
FinishingOpen(o, closing) == Outcome(o.events \o closing \o Ending, o.state, o.tools)

\* emit_finish: the closing events, and Finished in place of any other state.
Finishing(o, closing) == Outcome(o.events \o closing \o Ending, "Finished", <<>>)

HandleInitial(c) ==
    LET shown ==
          CASE c.delta = "none" -> Outcome(<<MessageStart>>, "Initial", <<>>)
            [] c.delta = "tools" -> Outcome(<<MessageStart>> \o OpenAll(c.calls),
                                            "ToolCalls", Indices(c.calls))
            [] c.delta = "text" -> Outcome(<<MessageStart, BlockStart("text", 0)>> \o TextEvents(c),
                                           "TextContent", <<>>)
    IN IF c.finish THEN Finishing(shown, <<>>) ELSE shown

\* The text block is always block 0; with a finish_reason block 0 is stopped,
\* also when this chunk has already stopped it and opened tool blocks.
HandleText(c) ==
    LET shown ==
          CASE c.delta = "none" -> Outcome(<<>>, "TextContent", <<>>)
            [] c.delta = "tools" -> Outcome(<<BlockStop(0)>> \o OpenAll(c.calls),
                                            "ToolCalls", Indices(c.calls))
            [] c.delta = "text" -> Outcome(TextEvents(c), "TextContent", <<>>)
    IN IF c.finish THEN Finishing(shown, <<BlockStop(0)>>) ELSE shown

HandleToolCalls(c) ==
    LET shown == Outcome(IF c.delta = "tools" THEN OpenUnknown(c.calls) ELSE <<>>,
                         "ToolCalls", tool_indices)
    IN IF c.finish THEN Finishing(shown, StopAll(tool_indices)) ELSE shown

PushChunk(c) ==
    CASE state = "Initial" -> HandleInitial(c)
      [] state = "TextContent" -> HandleText(c)
      [] state = "ToolCalls" -> HandleToolCalls(c)
      [] state = "Finished" -> Outcome(<<>>, "Finished", <<>>)

\* finish_inner: at `data: [DONE]` and at the end of the stream.
FinishInner ==
    LET closing ==
          CASE state = "Initial" -> <<MessageStart>> \o Ending
            [] state = "TextContent" -> <<BlockStop(0)>> \o Ending
            [] state = "ToolCalls" -> StopAll(tool_indices) \o Ending
            [] state = "Finished" -> <<>>
    IN Outcome(closing, "Finished", <<>>)

\* map_finish_reason.
StopReason(r) ==
    CASE r = "stop" -> "end_turn"
      [] r = "length" -> "max_tokens"
      [] r = "content_filter" -> "content_filtered"
      [] r = "tool_calls" -> "tool_use"

\* The message_delta of emit_finish and of finish_inner, if there is one.
Stopping(r) == stop_reason' = IF state = "Finished" THEN stop_reason ELSE r

StoppingInner == Stopping(IF state = "ToolCalls" THEN "tool_use" ELSE "end_turn")

-----------------------------------------------------------------------------
\* The provider, as far as its habits allow.

FragmentsOf(c) ==
    (IF c.text THEN <<Fragment("text", 0, number + 1)>> ELSE <<>>)
    \o FlattenSeq([k \in 1..Len(c.calls) |->
                       IF c.calls[k].args
                       THEN <<Fragment("tool", c.calls[k].index, number + 1)>> ELSE <<>>])

\* A call is named in its first fragment and in no other.
NamedOnce(calls) ==
    \A k \in 1..Len(calls) :
        calls[k].named <=>
            calls[k].index \notin announced \cup {calls[j].index : j \in 1..(k - 1)}

\* What is odd about a chunk.
Shows(c, habit) ==
    CASE habit = "noChoices" -> c.delta = "none" /\ "finish" \notin said
      [] habit = "finishFirst" -> c.finish /\ said = {}
      [] habit = "toolsAfterText" -> c.delta = "tools" /\ "text" \in said
      [] habit = "textAfterTools" -> c.text /\ (c.delta = "tools" \/ "tools" \in said)
      [] habit = "parallel" -> "tools" \in said /\ \E k \in 1..Len(c.calls) : c.calls[k].named
      [] habit = "repeats" -> \E j, k \in 1..Len(c.calls) : j < k /\ c.calls[j].index = c.calls[k].index

Oddities(c) == {habit \in AllHabits : Shows(c, habit)}

Provides(c) ==
    /\ c.delta # "tools" => c.calls = <<>>
    /\ c.delta = "none" => ~c.text
    /\ NamedOnce(c.calls)
    /\ "finish" \in said => (c.delta = "none" /\ ~c.finish)
    /\ Oddities(c) \subseteq Habits

Provide(c) ==
    /\ number' = number + 1
    /\ said' = said \cup (IF c.delta = "none" THEN {} ELSE {c.delta})
                    \cup (IF c.finish THEN {"finish"} ELSE {})
    /\ announced' = announced \cup {c.calls[k].index : k \in 1..Len(c.calls)}
    /\ given' = given \o FragmentsOf(c)
    /\ reason' \in IF c.finish THEN Reasons ELSE {reason}
    /\ odd' = odd \cup Oddities(c)

-----------------------------------------------------------------------------
\* The body.

Translated(o) ==
    /\ state' = o.state
    /\ tool_indices' = o.tools
    /\ sent' = sent \o o.events

Upto(s, n) == SubSeq(s, 1, IF n < Len(s) THEN n ELSE Len(s))

\* Events of chunks are captured up to BODY_CAP.
Capture(events) ==
    LET room == Cap - Len(captured) IN
    /\ captured' = captured \o Upto(events, room)
    /\ truncated' = (truncated \/ Len(events) > room)

\* poll_frame with a frame of the upstream body: a chunk.
PollChunk ==
    /\ ~finished /\ ~report.made /\ number < MaxChunks
    /\ \E c \in Chunk :
        /\ Provides(c)
        /\ Provide(c)
        /\ Translated(PushChunk(c))
        /\ Stopping(IF c.finish THEN StopReason(reason') ELSE stop_reason)
        /\ Capture(PushChunk(c).events)
    /\ UNCHANGED <<finished, report>>

\* poll_frame with a frame of the upstream body: `data: [DONE]`.
PollDone ==
    /\ ~finished /\ ~report.made
    /\ Translated(FinishInner) /\ StoppingInner
    /\ Capture(FinishInner.events)
    /\ said' = said \cup {"finish"}
    /\ UNCHANGED <<finished, report, number, announced, given, reason, odd>>

\* Variant: The end of the body cuts the capture without saying so.
PollEndSilent ==
    /\ ~finished /\ ~report.made
    /\ Translated(FinishInner) /\ StoppingInner
    /\ captured' = Upto(captured \o FinishInner.events, Cap)
    /\ finished' = TRUE
    /\ UNCHANGED <<truncated, report, provider>>

\* poll_frame at the end of the upstream body; the final events are captured
\* without a look at BODY_CAP.
PollEnd ==
    /\ ~finished /\ ~report.made
    /\ Translated(FinishInner) /\ StoppingInner
    /\ captured' = captured \o FinishInner.events
    /\ finished' = TRUE
    /\ UNCHANGED <<truncated, report, provider>>

\* Variant: the report is made without cap_body.
DropUncut ==
    /\ ~report.made
    /\ report' = [body |-> captured, truncated |-> truncated, made |-> TRUE]
    /\ captured' = <<>>
    /\ UNCHANGED <<translator, sent, truncated, finished, provider>>

\* The body is dropped: after its end, at an upstream error, or because the
\* agent hung up.  cap_body cuts what the end added.
Drop ==
    /\ ~report.made
    /\ report' = [body |-> Upto(captured, Cap),
                  truncated |-> truncated \/ Len(captured) > Cap,
                  made |-> TRUE]
    /\ captured' = <<>>
    /\ UNCHANGED <<translator, sent, truncated, finished, provider>>

Next == PollChunk \/ PollDone \/ PollEnd \/ Drop

Spec == Init /\ [][Next]_vars

-----------------------------------------------------------------------------
\* What the agent may rely on.

At(p, ev) == sent[p].ev = ev
Starts(i) == {p \in 1..Len(sent) : At(p, "content_block_start") /\ sent[p].index = i}
Stops(i) == {p \in 1..Len(sent) : At(p, "content_block_stop") /\ sent[p].index = i}
Ended == sent # <<>> /\ Last(sent).ev = "message_stop"

\* An event stream begins with its only message_start, whatever chunk comes
\* first.
StartsOnce ==
    \A p \in 1..Len(sent) : At(p, "message_start") <=> p = 1

\* A block that was started has been stopped when the message stops.
BlocksStopped ==
    Ended => \A i \in Index : Cardinality(Starts(i)) = Cardinality(Stops(i))

\* No two blocks of a message share an index: the agent assembles a block's
\* deltas by it.
IndexUnique == \A i \in Index : Cardinality(Starts(i)) <= 1

\* Every delta falls between the start and the stop of a block of its kind.
DeltasInBlocks ==
    \A p \in 1..Len(sent) : At(p, "content_block_delta") =>
        \E s \in Starts(sent[p].index) :
            /\ s < p /\ sent[s].kind = sent[p].of.kind
            /\ \A q \in Stops(sent[p].index) : q < s \/ p < q

Fragments(kind) ==
    FlattenSeq([p \in 1..Len(sent) |->
                    IF At(p, "content_block_delta") /\ sent[p].of.kind = kind
                    THEN <<sent[p].of>> ELSE <<>>])
Given(kind) ==
    FlattenSeq([n \in 1..Len(given) |-> IF given[n].kind = kind THEN <<given[n]>> ELSE <<>>])

\* The argument fragments of tool calls reach the agent complete and in order,
\* each under the index it came with, whatever the provider does; so does the text
\* of a reply that says nothing after its tool calls began.
FragmentsKept ==
    /\ Fragments("tool") = Given("tool")
    /\ "textAfterTools" \notin odd => Fragments("text") = Given("text")

\* The message stops once, nothing follows, and a stream that ended cleanly has
\* stopped.
StoppedOnce ==
    /\ \A p \in 1..Len(sent) : At(p, "message_stop") => p = Len(sent)
    /\ finished => Ended

\* The message stops exactly once, with finish_reason, [DONE] and the end of the
\* body in any order and any number, and its arguments and its text are complete;
\* as long as the reply is plain, its blocks are started once, filled and stopped.
WellFormed ==
    /\ StoppedOnce /\ FragmentsKept
    /\ odd = {} => StartsOnce /\ BlocksStopped /\ IndexUnique /\ DeltasInBlocks

\* The exchange reported to the desktop is what the agent was sent, cut at
\* BODY_CAP, and says so when it was cut, also by the final events.
ReportedIsSent ==
    report.made =>
        /\ report.body = Upto(sent, Cap)
        /\ report.truncated <=> Len(sent) > Cap
=============================================================================
