------------------------------ MODULE ToolLoop ------------------------------
(***************************************************************************)
(* One turn of an agent whose provider speaks OpenAI: the reply reaches    *)
(* the agent streamed (SseTranslate) or whole (TranslateResponse), the     *)
(* agent runs the tools it was asked to run, and its next request carries  *)
(* the reply and the results back (TranslateRequest).  The agent is        *)
(* external: it assembles blocks by index, reads the pieces of a call's    *)
(* arguments as one text, and sends the results of a reply in one user     *)
(* message.                                                                *)
(***************************************************************************)
EXTENDS SseTranslate, TranslateRequest, TranslateResponse

\* The calls of the reply, sorted by their indices.
CallsInOrder ==
    CHOOSE q \in [1..Cardinality(announced) -> announced] : \A j, k \in DOMAIN q : j < k => q[j] < q[k]

\* The arguments the provider sent under an index.
ArgumentsOf(i) == Filtered(given, LAMBDA f : f.kind = "tool" /\ f.index = i)

\* The provider's reply as it stands in its own conversation.
Reply ==
    [content |-> Given("text"),
     tool_calls |-> [k \in 1..Len(CallsInOrder) |->
                       [id |-> CallsInOrder[k], name |-> CallsInOrder[k],
                        arguments |-> ArgumentsOf(CallsInOrder[k])]]]

\* The reply as it comes when it is not streamed.
Whole == TranslateResponse([choices |-> <<[message |-> Reply, finish_reason |-> reason]>>])

-----------------------------------------------------------------------------
(* The agent *)

DeltasOf(i) ==
    Mapped(LAMBDA e : e.of,
           Filtered(sent, LAMBDA e : e.ev = "content_block_delta" /\ e.index = i))

Block(start) ==
    IF start.kind = "text" THEN [type |-> "text", text |-> DeltasOf(start.index)]
    ELSE [type |-> "tool_use", id |-> start.index, name |-> start.index,
          input |-> DeltasOf(start.index)]

\* The content the agent assembles, the arguments of a call named by their text from the events it was sent.
Assembled == Mapped(Block, Filtered(sent, LAMBDA e : e.ev = "content_block_start"))

Result(use) ==
    [type |-> "tool_result", tool_use_id |-> use.id,
     content |-> <<[type |-> "text", text |-> <<"result of", use.id>>]>>]

Conversation(content) ==
    LET results == Mapped(Result, OfType(content, "tool_use")) IN
    <<[role |-> "user", content |-> <<[type |-> "text", text |-> <<"prompt">>]>>],
      [role |-> "assistant", content |-> content]>>
    \o (IF results = <<>> THEN <<>> ELSE <<[role |-> "user", content |-> results]>>)

Request(content) ==
    [system |-> <<[type |-> "text", text |-> <<"system">>]>>,
     messages |-> Conversation(content),
     tools |-> <<[name |-> "Bash", input_schema |-> "schema"]>>,
     tool_choice |-> [type |-> "auto"],
     metadata |-> "user", stop_sequences |-> <<"stop">>]

-----------------------------------------------------------------------------
(* What the provider sees *)

Sent(content) == TranslateRequest(Request(content), "/v1/messages").body.messages

\* A message of the assistant, whichever of its forms it has.
Heard(m) ==
    [content |-> IF m.content = Null THEN <<>> ELSE m.content.text,
     tool_calls |-> IF "tool_calls" \in DOMAIN m THEN m.tool_calls ELSE <<>>]

ResultMessage(call) ==
    [role |-> "tool", tool_call_id |-> call.id, content |-> Text(<<"result of", call.id>>)]

Spoken(content) == Filtered(content, LAMBDA b : b.type = "text" => b.text # <<>>)

\* A reply of text or of calls that are opened in the order of their indices,
\* at once or one after the other, each of them once.
Unmixed ==
    /\ {"toolsAfterText", "textAfterTools", "repeats"} \cap odd = {}
    /\ \A i, j \in announced : \A p \in Starts(i), q \in Starts(j) : i < j => p < q

\* No call was cut before its arguments were JSON, by its length for instance.
Uncut ==
    \A k \in 1..Len(Reply.tool_calls) :
        Reply.tool_calls[k].arguments = <<>> \/ Parses(Reply.tool_calls[k].arguments)

\* Such a reply gives the agent the same message streamed and whole: the two
\* translations, written apart, agree on its text, its calls and their arguments,
\* and on why it stopped, if the provider has said why.
StreamedAsWhole ==
    Ended /\ Unmixed /\ Uncut =>
        /\ Spoken(Assembled) = Whole.content
        /\ reason # "none" => stop_reason = Whole.stop_reason

\* The next request shows the provider its own conversation: the system prompt
\* first, the prompt, the reply with every call as it made it, and the result of
\* the tool it asked for, if it asked for one.
HistoryReturns ==
    Ended /\ Unmixed /\ Uncut =>
        LET messages == Sent(Assembled)
            calls == Reply.tool_calls
        IN  /\ messages[1].role = "system"
            /\ messages[2] = [role |-> "user", content |-> Text(<<"prompt">>)]
            /\ messages[3].role = "assistant" /\ Heard(messages[3]) = Reply
            /\ Len(calls) = 0 => Len(messages) = 3
            /\ Len(calls) = 1 => SubSeq(messages, 4, Len(messages)) = <<ResultMessage(calls[1])>>

-----------------------------------------------------------------------------
(* Said of the program and not kept by it: see README, Disagreements *)

\* "tool_result content blocks -> converted to separate role: tool messages": every
\* call of the reply is answered with its result.
EveryResultSent ==
    Ended /\ Unmixed =>
        LET messages == Sent(Assembled)
        IN  SubSeq(messages, 4, Len(messages)) = Mapped(ResultMessage, Reply.tool_calls)

\* "OpenAI SSE chunks -> Anthropic SSE event stream" beside "OpenAI chat completion
\* -> Anthropic message response" (translate/mod.rs:8-9): the same message also when
\* the reply was cut within a call.
CutAlike == Ended /\ Unmixed => Spoken(Assembled) = Whole.content
=============================================================================
