-------------------------- MODULE TranslateRequest --------------------------
(***************************************************************************)
(* tap/translate/request.rs: an Anthropic Messages request becomes an      *)
(* OpenAI Chat Completions request.                                        *)
(*                                                                         *)
(* JSON is a record with the fields that are present.  A string that is    *)
(* the content of a message is the list of one text block; a text is the   *)
(* sequence of its pieces, so that to join texts is to join sequences; a   *)
(* JSON value is the pieces of a text it is parsed from.                   *)
(* Fields that pass through as they are (model, max_tokens, stream) are    *)
(* left out.                                                               *)
(***************************************************************************)
EXTENDS Naturals, Sequences, SequencesExt

Null == [kind |-> "null"]
Text(pieces) == [kind |-> "text", text |-> pieces]
Parts(parts) == [kind |-> "parts", parts |-> parts]

Mapped(Op(_), s) == [k \in 1..Len(s) |-> Op(s[k])]
Filtered(s, Test(_)) == FlattenSeq([k \in 1..Len(s) |-> IF Test(s[k]) THEN <<s[k]>> ELSE <<>>])

OfType(blocks, type) == Filtered(blocks, LAMBDA b : b.type = type)

\* The text blocks among `blocks`, joined.
Joined(blocks) == FlattenSeq(Mapped(LAMBDA b : b.text, OfType(blocks, "text")))

\* Tool uses, tool results, blocks of an unknown type, and images without data
\* are not content.
IsContent(b) == b.type = "text" \/ (b.type = "image" /\ "data" \in DOMAIN b)

ConvertBlock(b) ==
    IF b.type = "image" THEN [type |-> "image_url", data |-> b.data] ELSE b

ConvertContent(blocks) ==
    LET parts == Mapped(ConvertBlock, Filtered(blocks, IsContent))
    IN  CASE parts = <<>> -> Null
          [] parts # <<>> /\ Len(OfType(blocks, "text")) = Len(blocks) -> Text(Joined(blocks))
          [] OTHER -> IF Len(parts) = 1 /\ parts[1].type = "text"
                      THEN Text(parts[1].text) ELSE Parts(parts)

\* Variant: every result is sent the way several are.
ToolMessageEmpty(result, content) ==
    [role |-> "tool", tool_call_id |-> result.tool_use_id, content |-> Text(<<>>)]

ToolMessage(result, content) ==
    [role |-> "tool", tool_call_id |-> result.tool_use_id, content |-> content]

\* A message with a tool result becomes one tool message: the result when it is
\* the only block, and else the id of the first result with an empty content.
ConvertUser(blocks) ==
    LET results == OfType(blocks, "tool_result") IN
    CASE results = <<>> -> [role |-> "user", content |-> ConvertContent(blocks)]
      [] results # <<>> /\ Len(blocks) = 1 ->
            ToolMessage(results[1], ConvertContent(results[1].content))
      [] OTHER -> ToolMessage(results[1], Text(<<>>))

\* The input is written out as a text again.
ConvertToolUse(b) == [id |-> b.id, name |-> b.name, arguments |-> b.input]

\* Text and tool calls go side by side into one message, whatever their order.
ConvertAssistant(blocks) ==
    LET calls == Mapped(ConvertToolUse, OfType(blocks, "tool_use"))
        silent == IF calls = <<>> THEN blocks = <<>> ELSE OfType(blocks, "text") = <<>>
        content == IF silent THEN Null ELSE Text(Joined(blocks))
    IN  IF calls = <<>> THEN [role |-> "assistant", content |-> content]
        ELSE [role |-> "assistant", content |-> content, tool_calls |-> calls]

ConvertMessage(msg) ==
    CASE msg.role = "user" -> ConvertUser(msg.content)
      [] msg.role = "assistant" -> ConvertAssistant(msg.content)
      [] OTHER -> msg

\* A message of a known role without content is dropped.
Convertible(msg) == msg.role \in {"user", "assistant"} => "content" \in DOMAIN msg

SystemMessage(val) ==
    IF "system" \notin DOMAIN val \/ ConvertContent(val.system) = Null THEN <<>>
    ELSE <<[role |-> "system", content |-> ConvertContent(val.system)]>>

ConvertTool(tool) ==
    [type |-> "function",
     function |-> [name |-> tool.name, parameters |-> tool.input_schema]]

\* Anthropic's choices; anything else is auto.
ConvertToolChoice(choice) ==
    CASE choice.type = "any" -> [type |-> "required"]
      [] choice.type = "tool" -> [type |-> "function", name |-> choice.name]
      [] OTHER -> [type |-> "auto"]

Renamed == [stop_sequences |-> "stop"]
Dropped == {"system", "metadata", "top_k"}
FieldsOf(val) ==
    LET kept == (DOMAIN val) \ Dropped
    IN  (kept \ DOMAIN Renamed) \cup {Renamed[f] : f \in kept \cap DOMAIN Renamed}

ConvertField(val, f) ==
    CASE f = "messages" ->
            SystemMessage(val) \o Mapped(ConvertMessage, Filtered(val.messages, Convertible))
      [] f = "tools" -> Mapped(ConvertTool, val.tools)
      [] f = "tool_choice" -> ConvertToolChoice(val.tool_choice)
      [] f = "stop" -> IF "stop_sequences" \in DOMAIN val THEN val.stop_sequences ELSE val.stop
      [] OTHER -> val[f]

TranslatePath(path) ==
    CASE path = "/v1/messages" -> "/v1/chat/completions"
      [] path = "/v1/messages/count_tokens" -> "/v1/chat/completions/count_tokens"
      [] path = "/messages" -> "/chat/completions"
      [] OTHER -> "/v1/chat/completions"

\* What has no list of messages goes as it is; everything that has one, the
\* counting of its tokens included, goes to the other provider's endpoint.
TranslateRequest(val, path) ==
    IF "messages" \notin DOMAIN val THEN [body |-> val, path |-> path]
    ELSE [body |-> [f \in FieldsOf(val) |-> ConvertField(val, f)], path |-> TranslatePath(path)]
=============================================================================
