----------------------------- MODULE Inspection -----------------------------
(***************************************************************************)
(* What the gateway reads off a request before it routes it                *)
(* (internal/proxy/inspect.go).  A request is a dialect, a set of options  *)
(* and a conversation.  An option stands for one JSON fragment a client    *)
(* may put in the body: "stop" is a stop sequence, "image" an image block, *)
(* "tool_nameless" a tool without a name, "tool_blank" one whose type is   *)
(* "", "text_field" (call_, item_, message_, tool_) a key of a text block  *)
(* (a call, an item, a message, a tool) that no code reads, "result_blocks" *)
(* a tool result that is a list of blocks, "..._bignum" an integer of more *)
(* than 53 bits, "empty_message" a message whose content is [].            *)
(* A conversation is a sequence of messages [role, parts]; a part is a     *)
(* text, a tool call or the result of a call.  Each inspector decides      *)
(* three things: whether the request is refused, whether it can only be    *)
(* passed on in its own dialect, and which features a provider needs.      *)
(***************************************************************************)
EXTENDS SequencesExt

Features == {"tools", "streaming", "reasoning", "structured_output", "vision",
             "audio", "document", "cache_control"}

UsesTools(conv) ==
  \E m \in ToSet(conv) : \E part \in ToSet(m.parts) : part.kind \in {"call", "result"}

Given(feature, present) == IF present THEN {feature} ELSE {}

Holds(o, fragments) == o \cap fragments # {}

(***************************************************************************)
(* Chat completions.  Each set holds the fragments a function of the code  *)
(* refuses, marks native-only or turns into a feature.                     *)
(***************************************************************************)
ParseChatTools == {"tool_untyped", "tool_nameless"}
HasNonFunctionTools == {"tool_type"}
HasUnknownChatFunctionToolFields == {"tool_field"}
HasArrayItems == {"tools"}   \* the fragments tool_... come with a tool

MarkChatNonConvertibleFields ==
  [refused |-> {"bad_n", "bad_penalty", "bad_parallel"},
   native  |-> {"n", "stop", "seed", "user", "service_tier", "task", "penalty", "parallel_on"}]

\* A type other than text and json... ("format_other") is none of the three.
InspectChatResponseFormat ==
  [refused |-> {"bad_format"}, structured |-> {"format"}]

ParseChatMessages  == {"bad_message"}
ParseChatContent   == {"bad_content"}
ValidateChatToolCall == {"bad_call"}
HasCacheControl    == {"cache"}

\* Fragments under a top-level key the inspector does not know.
UnknownChatKeys == {"unknown", "stream_options", "audio_out"}

InspectChatRequest(o, conv) ==
  [refused |-> Holds(o, {"bad_model", "bad_stream", "bad_task", "both_max_tokens", "bad_effort"}
                     \cup ParseChatTools \cup MarkChatNonConvertibleFields.refused
                     \cup InspectChatResponseFormat.refused \cup ParseChatMessages
                     \cup ParseChatContent \cup ValidateChatToolCall),
   native  |-> Holds(o, HasNonFunctionTools \cup HasUnknownChatFunctionToolFields
                     \cup MarkChatNonConvertibleFields.native \cup UnknownChatKeys
                     \cup {"tool_choice", "metadata", "role_other", "content_other"}),
   features |-> Given("tools", Holds(o, HasArrayItems) \/ UsesTools(conv))
           \cup Given("audio", Holds(o, {"audio_out", "audio"}))
           \cup Given("structured_output", Holds(o, InspectChatResponseFormat.structured))
           \cup Given("reasoning", "reasoning" \in o)
           \cup Given("vision", "image" \in o)
           \cup Given("cache_control", Holds(o, HasCacheControl))
           \cup Given("streaming", "stream" \in o)]

(***************************************************************************)
(* Responses.                                                              *)
(***************************************************************************)
ParseResponsesTools == {"tool_untyped", "tool_nameless"}
HasNonFunctionResponsesTools == {"tool_type"}
HasUnknownResponsesFunctionToolFields == {"tool_field", "tool_cache"}

ResponsesToolChoiceConvertible ==
  [refused |-> {"bad_tool_choice"}, convertible |-> {"tool_choice_auto"}]

\* A format given as a string, or without a type, passes and is no feature.
ValidateResponsesResponseFormat == {"bad_format"}
HasStructuredOutput == {"format"}

\* input: a string, or items.  An item that is a bare text block passes.
InspectResponsesInput == {"empty_input"}

InspectResponsesInputItem ==
  [refused |-> {"untyped_item"}, native |-> {"item_other"},
   vision |-> {"image_item"}, audio |-> {"audio_item"}, document |-> {"file_item"}]

InspectResponsesMessageContent ==
  [refused |-> {"bad_content"}, native |-> {"content_other"},
   vision |-> {"image"}, audio |-> {"audio"}, document |-> {"document"}]

InspectResponsesRequest(o, conv) ==
  LET item == InspectResponsesInputItem
      content == InspectResponsesMessageContent
  IN
  [refused |-> Holds(o, {"bad_model", "bad_stream", "stateful", "bad_metadata", "bad_effort"}
                     \cup ParseResponsesTools \cup ResponsesToolChoiceConvertible.refused
                     \cup ValidateResponsesResponseFormat \cup InspectResponsesInput
                     \cup item.refused \cup content.refused),
   native  |-> Holds(o, HasNonFunctionResponsesTools
                     \cup HasUnknownResponsesFunctionToolFields
                     \cup ({"tool_choice", "tool_choice_auto"}
                             \ ResponsesToolChoiceConvertible.convertible)
                     \cup item.native \cup content.native
                     \cup {"parallel_on", "truncation", "unknown"}),
   features |-> Given("tools", Holds(o, HasArrayItems) \/ UsesTools(conv))
           \cup Given("reasoning", "reasoning" \in o)
           \cup Given("structured_output", Holds(o, HasStructuredOutput))
           \cup Given("vision", Holds(o, item.vision \cup content.vision))
           \cup Given("audio", Holds(o, item.audio \cup content.audio))
           \cup Given("document", Holds(o, item.document \cup content.document))
           \cup Given("cache_control", Holds(o, HasCacheControl))
           \cup Given("streaming", "stream" \in o)]

(***************************************************************************)
(* Messages.                                                               *)
(***************************************************************************)
\* Other keys of a tool, strict among them, are not looked at.
ParseMessagesTools == {"tool_nameless"}
HasNonFunctionMessagesTools == {"tool_type"}

\* A system prompt given as blocks is never converted, whatever the blocks are.
InspectMessagesSystem == [refused |-> {"bad_system"}, native |-> {"system_blocks"}]

InspectMessagesMessages == {"bad_message"}

InspectMessagesContent ==
  [refused |-> {"bad_content", "bad_image", "bad_call", "bad_thinking"},
   native |-> {"content_other"},
   vision |-> {"image"}, audio |-> {"audio"}, document |-> {"document"},
   reasoning |-> {"thinking_block"}]

InspectMessagesRequest(o, conv) ==
  LET content == InspectMessagesContent
  IN
  [refused |-> Holds(o, {"bad_model", "bad_stream", "bad_stop"}
                     \cup ParseMessagesTools \cup InspectMessagesSystem.refused
                     \cup InspectMessagesMessages \cup content.refused),
   native  |-> Holds(o, HasNonFunctionMessagesTools \cup InspectMessagesSystem.native
                     \cup content.native
                     \cup {"tool_choice", "metadata", "stop", "unknown"}),
   features |-> Given("tools", Holds(o, HasArrayItems) \/ UsesTools(conv))
           \cup Given("reasoning", Holds(o, {"thinking", "reasoning"} \cup content.reasoning))
           \cup Given("vision", Holds(o, content.vision))
           \cup Given("audio", Holds(o, content.audio))
           \cup Given("document", Holds(o, content.document))
           \cup Given("cache_control", Holds(o, HasCacheControl))
           \cup Given("streaming", "stream" \in o)]

(***************************************************************************)
(* Gemini.  The action in the path, not the body, asks for a stream.       *)
(***************************************************************************)
ParseGeminiTools ==
  [refused |-> {"no_declarations", "tool_nameless"}, functions |-> {"tools"},
   native |-> {"tool_type"}]

InspectGeminiInlineData ==
  [refused |-> {"no_mime"}, vision |-> {"image"}, audio |-> {"audio"}, document |-> {"document"}]
InspectGeminiFileData ==
  [refused |-> {"no_uri"}, vision |-> {"image_file"}, audio |-> {"audio_file"},
   document |-> {"file"}]
InspectGeminiFunctionCallResponse ==
  [refused |-> {"nameless_call"}, tools |-> {"call"}]

\* A part's thought marks are read apart from its payload.
InspectGeminiParts ==
  [refused |-> {"bad_thought"}, reasoning |-> {"thought", "signature"}, native |-> {"part_other"}]

InspectGeminiRequest(o) ==
  LET inline == InspectGeminiInlineData
      file == InspectGeminiFileData
  IN
  [refused |-> Holds(o, {"bad_config"} \cup ParseGeminiTools.refused \cup inline.refused
                     \cup file.refused \cup InspectGeminiFunctionCallResponse.refused
                     \cup InspectGeminiParts.refused),
   native  |-> Holds(o, ParseGeminiTools.native \cup InspectGeminiParts.native \cup {"unknown"}),
   features |-> Given("tools", Holds(o, ParseGeminiTools.functions
                                     \cup InspectGeminiFunctionCallResponse.tools))
           \cup Given("reasoning", Holds(o, {"thinking"} \cup InspectGeminiParts.reasoning))
           \cup Given("structured_output", "format" \in o)
           \cup Given("cache_control", "cached_content" \in o)
           \cup Given("vision", Holds(o, inline.vision \cup file.vision))
           \cup Given("audio", Holds(o, inline.audio \cup file.audio))
           \cup Given("document", Holds(o, inline.document \cup file.document))]
=============================================================================
