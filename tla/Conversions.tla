---------------------------- MODULE Conversions ----------------------------
(***************************************************************************)
(* The converters of request and buffered reply bodies                     *)
(* (internal/proxy/convert.go, convert_chat.go), composed as adapter.go    *)
(* composes them.  A body is [options, conv] as in Inspection; a           *)
(* conversion yields the set of bodies it can yield: one, or none when it  *)
(* fails.  The JSON a converter carries over is abstracted to the fragment *)
(* it stands for; what it refuses, drops, merges and reorders is not.      *)
(*                                                                         *)
(* A Responses conversation holds one item per message: a text of some     *)
(* role, a call (role "assistant") or a result (role "tool").              *)
(***************************************************************************)
EXTENDS Inspection, Naturals

Message(role, parts) == [role |-> role, parts |-> parts]
Body(options, conv)  == [options |-> options, conv |-> conv]
Ids(parts)           == {p.id : p \in ToSet(parts)}

Unless(refused, result) == IF refused THEN {} ELSE {result}

PartsOf(conv) == FlattenSeq([i \in DOMAIN conv |-> conv[i].parts])
OfKind(parts, kind) ==
  FlattenSeq([i \in DOMAIN parts |-> IF parts[i].kind = kind THEN <<parts[i]>> ELSE <<>>])
Others(parts) ==
  FlattenSeq([i \in DOMAIN parts |-> IF parts[i].kind # "text" THEN <<parts[i]>> ELSE <<>>])
Item(p) == Message(CASE p.kind = "call" -> "assistant" [] OTHER -> "tool", <<p>>)

\* A call or a result is an item of its own.
OtherItemsOf(m) == LET others == Others(m.parts) IN [j \in DOMAIN others |-> Item(others[j])]

\* All the texts of a message in one item, if it has any.
TextItem(m) ==
  LET texts == OfKind(m.parts, "text")
  IN  IF texts = <<>> THEN <<>> ELSE <<Message(m.role, texts)>>

(***************************************************************************)
(* Messages to Responses.                                                  *)
(***************************************************************************)
RejectUnsupportedStopSequences == {"stop"}
NormalizeMessageContent == {"thinking_block", "image"}

\* The calls and results of a message are emitted as they are met, its texts
\* as one item after them.
MessagesToResponsesInput(conv) ==
  FlattenSeq([i \in DOMAIN conv |-> OtherItemsOf(conv[i]) \o TextItem(conv[i])])

\* Only name, description and schema of a tool are read.
AnthropicToolsToResponses == {"tools", "tool_bignum"}

\* JsonArguments decodes a call's input, numbers as floats; WrapToolOutput
\* makes a result of blocks one string, their JSON.
JsonArguments  == {"call_bignum"}
WrapToolOutput == {"result_blocks"}

MessagesToResponsesRequest(b) ==
  Unless(Holds(b.options, RejectUnsupportedStopSequences \cup NormalizeMessageContent
                            \cup {"audio", "document", "content_other", "role_other"}),
         Body((b.options \cap ({"system", "metadata", "sampling", "reasoning", "stream"}
                                 \cup AnthropicToolsToResponses))
                \ (JsonArguments \cup WrapToolOutput),
              MessagesToResponsesInput(b.conv)))

(***************************************************************************)
(* Responses to Messages.                                                  *)
(***************************************************************************)
RejectStatefulResponsesFields == {"stateful"}
ResponsesContentToMessagesBlocks ==
  {"refusal", "annotations", "image", "audio", "document", "content_other"}
OtherItems == {"item_text", "item_other", "image_item", "audio_item", "file_item"}

\* Every item becomes a message of its own; a result goes out as the user's.
ResponsesInputToMessages(conv) ==
  [i \in DOMAIN conv |-> Message(IF conv[i].role = "tool" THEN "user" ELSE conv[i].role,
                                 conv[i].parts)]

ResponsesToolsToAnthropic == [refused |-> {"tool_type"}, kept |-> {"tools", "tool_bignum"}]
ResponsesToolChoiceToAnthropic == [refused |-> {"tool_choice"}, kept |-> {"tool_choice_auto"}]

ResponsesToMessagesRequest(b) ==
  Unless(Holds(b.options, RejectStatefulResponsesFields \cup ResponsesContentToMessagesBlocks
                            \cup OtherItems \cup ResponsesToolsToAnthropic.refused
                            \cup ResponsesToolChoiceToAnthropic.refused),
         Body((b.options \cap ({"system", "metadata", "sampling", "reasoning", "stream",
                                  "role_other", "call_bignum"}
                                 \cup ResponsesToolsToAnthropic.kept
                                 \cup ResponsesToolChoiceToAnthropic.kept)) \ WrapToolOutput,
              ResponsesInputToMessages(b.conv)))

(***************************************************************************)
(* Chat to Responses.                                                      *)
(***************************************************************************)
\* A tool may hold no key beside type and function, and no other type; its
\* schema is decoded and encoded again.
ChatToolsToResponses ==
  [refused |-> {"tool_key", "tool_type", "tool_blank", "tool_field"},
   kept |-> {"tools", "tool_strict"}]

ChatTextContent == {"image", "audio", "content_other"}   \* only text is read

\* Each result names a call made before it and not answered yet; call ids
\* are not reused.
Answerable(parts) ==
  \A i \in DOMAIN parts :
    LET before(kind) == Ids(OfKind(SubSeq(parts, 1, i - 1), kind))
    IN  /\ parts[i].kind = "call"   => parts[i].id \notin before("call")
        /\ parts[i].kind = "result" => parts[i].id \in before("call") \ before("result")

\* A message's text goes before its calls; nothing else of it is read.
ChatMessagesToResponses(conv) ==
  Unless(~Answerable(PartsOf(conv)),
         FlattenSeq([i \in DOMAIN conv |-> TextItem(conv[i]) \o OtherItemsOf(conv[i])]))

ChatToResponsesRequest(b) ==
  {Body(b.options \cap ({"metadata", "user", "tool_choice", "parallel_on", "parallel_off",
                         "sampling", "reasoning", "stream", "call_bignum"}
                          \cup ChatToolsToResponses.kept), items) :
     items \in IF Holds(b.options, ChatToolsToResponses.refused \cup ChatTextContent
                                     \cup {"both_max_tokens", "role_other"})
               THEN {} ELSE ChatMessagesToResponses(b.conv)}

(***************************************************************************)
(* Responses to Chat.                                                      *)
(***************************************************************************)
ResponsesToolsToChat ==
  [refused |-> {"tool_type", "tool_blank", "tool_field", "tool_cache"},
   kept |-> {"tools", "tool_strict"}]

ResponsesTextContent == {"refusal", "annotations", "image", "audio", "document", "content_other"}

Developer == Message("developer", <<[kind |-> "text", id |-> 0]>>)

Phase(p) == CASE p.kind = "text" -> 1 [] p.kind = "call" -> 2 [] OTHER -> 3
InPhase(conv, n) ==
  FlattenSeq([i \in DOMAIN conv |-> IF Phase(conv[i].parts[1]) = n THEN <<conv[i]>> ELSE <<>>])

Mutant_ResponsesInputToChat(conv, instructions) ==
  LET parts == PartsOf(conv)
      results == InPhase(conv, 3)
      calls == OfKind(parts, "call")
  IN  Unless(~Answerable(parts),
             (IF instructions THEN <<Developer>> ELSE <<>>) \o InPhase(conv, 1)
               \o (IF results = <<>> THEN <<>> ELSE <<Message("assistant", calls)>>) \o results)

\* Only messages, then one group of calls, then their results; the group
\* becomes one assistant message.
ResponsesInputToChat(conv, instructions) ==
  LET parts == PartsOf(conv)
      calls == PartsOf(InPhase(conv, 2))
  IN
  Unless(\/ ~Answerable(parts)
         \/ \E i, j \in DOMAIN parts : i < j /\ Phase(parts[i]) > Phase(parts[j]),
         (IF instructions THEN <<Developer>> ELSE <<>>) \o InPhase(conv, 1)
           \o (IF calls = <<>> THEN <<>> ELSE <<Message("assistant", calls)>>)
           \o InPhase(conv, 3))

ResponsesToChatRequest(b) ==
  {Body(b.options \cap ({"metadata", "user", "tool_choice", "tool_choice_auto", "parallel_on",
                         "parallel_off", "sampling", "reasoning", "stream", "call_bignum",
                         "empty_message"} \cup ResponsesToolsToChat.kept), messages) :
     messages \in IF Holds(b.options, RejectStatefulResponsesFields \cup OtherItems
                             \cup ResponsesToolsToChat.refused \cup ResponsesTextContent
                             \cup {"role_other", "roleless", "result_blocks"})
                  THEN {} ELSE ResponsesInputToChat(b.conv, "system" \in b.options)}

\* PrepareAttempt: Chat and Messages convert to each other over Responses.
ConvertRequest(from, to, b) ==
  CASE <<from, to>> = <<"messages", "responses">> -> MessagesToResponsesRequest(b)
    [] <<from, to>> = <<"responses", "messages">> -> ResponsesToMessagesRequest(b)
    [] <<from, to>> = <<"chat", "responses">> -> ChatToResponsesRequest(b)
    [] <<from, to>> = <<"responses", "chat">> -> ResponsesToChatRequest(b)
    [] <<from, to>> = <<"chat", "messages">> ->
         UNION {ResponsesToMessagesRequest(c) : c \in ChatToResponsesRequest(b)}
    [] <<from, to>> = <<"messages", "chat">> ->
         UNION {ResponsesToChatRequest(c) : c \in MessagesToResponsesRequest(b)}

---------------------------------------------------------------------------
(* Buffered replies.  A reply is [parts, stop, extra]: its parts in order  *)
(* ("other": a part with no counterpart), why it stopped, and a field      *)
(* beside them a converter may trip over.                                  *)

Reply(parts, stop) == [parts |-> parts, stop |-> stop, extra |-> "none"]
Foreign(r) == OfKind(r.parts, "other") # <<>>
CallsOf(r) == OfKind(r.parts, "call")
TextsOf(r) == OfKind(r.parts, "text")

Mutant_MessagesStopToResponsesStatus(stop) == IF stop = "failed" THEN "failed" ELSE "done"

\* Why a reply stopped: "done", "calls", "cut" (at the token limit),
\* "filtered", "failed", and "incomplete" when Responses does not say why.
MessagesStopToResponsesStatus(stop) ==
  CASE stop = "cut" -> "incomplete" [] stop = "failed" -> "failed" [] OTHER -> "done"

ResponsesStatusToMessagesStop(stop) ==
  CASE stop \in {"cut", "filtered", "incomplete"} -> "cut" [] stop = "failed" -> "failed"
    [] OTHER -> "done"

\* The texts go into one message, before the calls.
MessagesBlocksToResponsesOutput(r) == TextsOf(r) \o CallsOf(r)

MessagesToResponsesResponse(r) ==
  Unless(Foreign(r), Reply(MessagesBlocksToResponsesOutput(r),
                           MessagesStopToResponsesStatus(r.stop)))

ResponsesOutputToMessagesBlocks(r) == r.parts

ResponsesToMessagesResponse(r) ==
  Unless(Foreign(r) \/ r.extra = "annotations",
         Reply(ResponsesOutputToMessagesBlocks(r), ResponsesStatusToMessagesStop(r.stop)))

\* Usage details other than cached and reasoning tokens are refused.
ChatUsageToResponses == {"details"}
ResponsesUsageToChat == {"details"}
ValidateChatResponseWire == {"annotations", "unknown_key"}
ValidateResponsesOutputWire == {"annotations", "unknown_key"}

ChatToResponsesResponse(r) ==
  Unless(\/ Foreign(r) \/ r.extra \in ValidateChatResponseWire \cup ChatUsageToResponses
         \/ r.parts = <<>>
         \/ r.stop = "calls" /\ CallsOf(r) = <<>>,
         Reply(TextsOf(r) \o CallsOf(r),
               IF r.stop \in {"cut", "filtered"} THEN r.stop ELSE "done"))

\* Two texts of a reply that came from Messages are one message's.
ResponsesToChatResponse(r, oneMessage) ==
  Unless(\/ Foreign(r) \/ r.extra \in ValidateResponsesOutputWire \cup ResponsesUsageToChat
         \/ r.stop \notin {"done", "cut", "filtered"}
         \/ Len(TextsOf(r)) > 1 /\ ~oneMessage,
         Reply(TextsOf(r) \o CallsOf(r),
               IF r.stop = "done" /\ CallsOf(r) # <<>> THEN "calls" ELSE r.stop))

\* ConvertResponse of an attempt whose client speaks from and upstream to.
ConvertResponse(from, to, r) ==
  CASE <<from, to>> = <<"messages", "responses">> -> ResponsesToMessagesResponse(r)
    [] <<from, to>> = <<"responses", "messages">> -> MessagesToResponsesResponse(r)
    [] <<from, to>> = <<"chat", "responses">> -> ResponsesToChatResponse(r, FALSE)
    [] <<from, to>> = <<"responses", "chat">> -> ChatToResponsesResponse(r)
    [] <<from, to>> = <<"chat", "messages">> ->
         UNION {ResponsesToChatResponse(s, TRUE) : s \in MessagesToResponsesResponse(r)}
    [] <<from, to>> = <<"messages", "chat">> ->
         UNION {ResponsesToMessagesResponse(s) : s \in ChatToResponsesResponse(r)}
=============================================================================
