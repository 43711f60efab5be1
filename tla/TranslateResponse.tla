------------------------- MODULE TranslateResponse -------------------------
(***************************************************************************)
(* tap/translate/response.rs: a whole OpenAI chat completion becomes an    *)
(* Anthropic message, an OpenAI error an Anthropic error.  A body is a     *)
(* record with the fields that are present; the pieces of a text are a     *)
(* sequence, as in TranslateRequest.  A JSON value is named by the pieces  *)
(* of a text it is parsed from, the empty object by none: how a value is   *)
(* laid out in a text is left out, as are ids, models and token counts.    *)
(***************************************************************************)
EXTENDS Naturals, Sequences

CONSTANT
    Parses(_)       \* is a text of a call's arguments JSON

Same == {"invalid_request_error", "authentication_error", "rate_limit_error"}

TranslateError(error) ==
    [type |-> "error",
     error |-> [type |-> IF error.type \in Same THEN error.type ELSE "api_error",
                message |-> error.message]]

TextBlocks(message) ==
    IF message.content = <<>> THEN <<>> ELSE <<[type |-> "text", text |-> message.content]>>

\* Arguments that do not parse become the empty object.
ToolUse(call) ==
    [type |-> "tool_use", id |-> call.id, name |-> call.name,
     input |-> IF Parses(call.arguments) THEN call.arguments ELSE <<>>]

\* Variant: only the first call is taken.
ToolUseBlocksFirst(message) ==
    IF message.tool_calls = <<>> THEN <<>> ELSE <<ToolUse(message.tool_calls[1])>>

ToolUseBlocks(message) == [k \in 1..Len(message.tool_calls) |-> ToolUse(message.tool_calls[k])]

MapFinishReason(reason) ==
    CASE reason = "length" -> "max_tokens"
      [] reason = "content_filter" -> "content_filtered"
      [] reason \in {"tool_calls", "function_call"} -> "tool_use"
      [] OTHER -> "end_turn"

\* Only the first choice counts, and there may be none.
TranslateSuccess(choices) ==
    IF choices = <<>>
    THEN [type |-> "message", content |-> <<>>, stop_reason |-> MapFinishReason("none")]
    ELSE [type |-> "message",
          content |-> TextBlocks(choices[1].message) \o ToolUseBlocks(choices[1].message),
          stop_reason |-> MapFinishReason(choices[1].finish_reason)]

\* An error wins over choices, and what is neither passes as it is.
TranslateResponse(val) ==
    CASE "error" \in DOMAIN val -> TranslateError(val.error)
      [] "error" \notin DOMAIN val /\ "choices" \in DOMAIN val -> TranslateSuccess(val.choices)
      [] OTHER -> val
=============================================================================
