---------------------------- MODULE RequestPath ----------------------------
(***************************************************************************)
(* One request on its way to a provider: the handler that inspects it      *)
(* (internal/proxy/handlers.go), resolveCandidates (proxy.go) that reads   *)
(* the rules, the capability rows and the providers one query after the    *)
(* other while the operator may be editing them, the candidates that are   *)
(* tried in turn, each with a body converted from the client's, and the    *)
(* buffered reply converted back.  Retries, timeouts and breaker           *)
(* settlements are Failover's; a stream is handed over to StreamRelay.     *)
(***************************************************************************)
EXTENDS Matching, Conversions, FiniteSets

CONSTANTS
  ClientDialects,   \* among "chat", "responses", "messages", "gemini", "openai"
  Configurations,   \* by name, what the store may hold:
                    \* [rules, providers, providerRows, modelRows]
  Configured,       \* the name of what it holds at first
  Enforcements,     \* subset of BOOLEAN: the values of the enforcement setting
  MaxSize,          \* fragments and parts of a request
  MaxExtras,        \* fragments beside "stream" and "tools"
  MaxReplyParts,
  MaxEdits          \* edits of the store while the request is routed

\* A model is the name of one rule (migration 030); the rows of a provider
\* name no model.
IsConfiguration(m) ==
  /\ \A r, s \in m.rules : r = s
  /\ \A r \in m.rules : r.targets \in Seq(ToSet(r.targets))
  /\ \A c \in m.providerRows : c.model = "" /\ c.enabled \in BOOLEAN

ASSUME RequestPathAssumption ==
  /\ ClientDialects \subseteq {"chat", "responses", "messages", "gemini", "openai"}
  /\ \A name \in DOMAIN Configurations : IsConfiguration(Configurations[name])
  /\ Configured \in DOMAIN Configurations /\ Enforcements \subseteq BOOLEAN
  /\ {MaxSize, MaxExtras, MaxReplyParts, MaxEdits} \subseteq Nat

VARIABLES
  config,     \* the name of what the store holds
  moments,    \* history: the names of what it has held since the request arrived
  edits,
  draft,      \* the client's request: [dialect, options, conv]
  stage,      \* where the handler is
  query,      \* what the matcher is asked
  read,       \* what resolveCandidates has read so far
  cands,      \* the candidates left, the current one first
  sent,       \* the body that went to the current candidate; {} before
  answer      \* [kind, open]: what the client got, and the open breakers seen

pathVars == <<config, moments, edits, draft, stage, query, read, cands, sent, answer>>
store == <<config, moments, edits>>

NoQuery == [dialect |-> "", stream |-> FALSE, inspected |-> FALSE, native |-> FALSE,
            features |-> {}, enforce |-> FALSE]
NothingRead == [rules |-> {}, providerRows |-> {}, providers |-> [p \in {} |-> 0], modelRows |-> {}]
NoAnswer == [kind |-> "", open |-> {}]
Blank(dialect) == [dialect |-> dialect, options |-> {}, conv |-> <<>>]
Now == Configurations[config]

PathInit ==
  /\ config = Configured /\ moments = {} /\ edits = 0
  /\ \E d \in ClientDialects : draft = Blank(d)
  /\ stage = "draft" /\ query = NoQuery /\ read = NothingRead
  /\ cands = <<>> /\ sent = {} /\ answer = NoAnswer

---------------------------------------------------------------------------
(* The client writes its request, fragment by fragment and part by part.   *)

InChat == {"stream", "tools", "tool_untyped", "tool_nameless", "tool_type", "tool_field",
           "tool_key", "tool_strict", "tool_choice", "metadata", "audio_out", "format",
           "bad_format", "reasoning", "bad_effort", "sampling", "both_max_tokens", "n", "bad_n",
           "stop", "seed", "user", "service_tier", "task", "bad_task", "penalty", "bad_penalty",
           "parallel_on", "parallel_off", "bad_parallel", "role_other", "image", "audio",
           "content_other", "cache", "stream_options", "unknown", "bad_model", "bad_stream",
           "bad_message", "bad_content", "bad_call", "format_other", "message_field",
           "empty_message", "text_field", "call_field", "call_bignum", "tool_blank", "tool_bignum"}
InResponses ==
          {"stream", "tools", "tool_untyped", "tool_nameless", "tool_type", "tool_field",
           "tool_cache", "tool_strict", "tool_choice", "tool_choice_auto", "bad_tool_choice",
           "metadata", "bad_metadata", "format", "bad_format", "verbosity", "reasoning",
           "bad_effort", "sampling", "system", "user", "parallel_on", "parallel_off",
           "truncation", "stateful", "image", "audio", "document", "refusal", "annotations",
           "content_other", "bad_content", "item_text", "item_other", "image_item", "audio_item",
           "file_item", "untyped_item", "empty_input", "cache", "unknown", "bad_model",
           "bad_stream", "format_other", "item_field", "role_other", "roleless", "empty_message",
           "text_field", "call_bignum", "result_blocks", "tool_blank", "tool_bignum"}
InMessages ==
          {"stream", "tools", "tool_nameless", "tool_type", "tool_cache", "tool_choice",
           "metadata", "thinking", "thinking_other", "reasoning", "sampling", "system",
           "system_blocks", "bad_system", "stop", "bad_stop", "role_other", "image", "bad_image",
           "audio", "document", "thinking_block", "bad_thinking", "is_error", "content_other",
           "bad_content", "bad_call", "bad_message", "cache", "unknown", "bad_model",
           "bad_stream", "message_field", "empty_message", "text_field", "call_field",
           "call_bignum", "result_blocks", "tool_strict", "tool_field", "tool_bignum"}
InGemini ==
          {"stream", "tools", "no_declarations", "tool_nameless", "tool_type", "thinking",
           "thought", "signature", "bad_thought", "format", "cached_content", "image", "audio",
           "document", "no_mime", "image_file", "audio_file", "file", "no_uri", "call",
           "nameless_call", "part_other", "unknown", "bad_config", "sampling", "system"}

Fragments(dialect) ==
  CASE dialect = "chat" -> InChat [] dialect = "responses" -> InResponses
    [] dialect = "messages" -> InMessages [] dialect = "gemini" -> InGemini [] OTHER -> {}

OfATool == {"tool_untyped", "tool_nameless", "tool_type", "tool_field", "tool_key",
            "tool_strict", "tool_cache", "tool_blank", "tool_bignum", "no_declarations"}
OfAPart == [text |-> {"text_field"}, call |-> {"call_field", "call_bignum"},
            result |-> {"is_error", "result_blocks"}]

Parts == PartsOf(draft.conv)
Size == Cardinality(draft.options) + Len(Parts)

AddFragment ==
  /\ stage = "draft" /\ Size < MaxSize
  /\ \E f \in Fragments(draft.dialect) \ draft.options :
       /\ f \in OfATool => "tools" \in draft.options
       /\ \A kind \in DOMAIN OfAPart : f \in OfAPart[kind] => OfKind(Parts, kind) # <<>>
       /\ Cardinality((draft.options \cup {f}) \ {"stream", "tools"}) <= MaxExtras
       /\ draft' = [draft EXCEPT !.options = @ \cup {f}]
  /\ UNCHANGED <<store, stage, query, read, cands, sent, answer>>

\* Messages gathers what one side says in one message, Chat the calls of one
\* turn; everything else is a message or an item of its own.
Extended(kind, role, id) ==
  LET part == [kind |-> kind, id |-> id]
      last == draft.conv[Len(draft.conv)]
      joins == /\ draft.conv # <<>>
               /\ last.role = role
               /\ \/ draft.dialect = "messages"
                  \/ draft.dialect = "chat" /\ kind = "call"
  IN  IF joins THEN Front(draft.conv) \o <<Message(role, Append(last.parts, part))>>
      ELSE Append(draft.conv, Message(role, <<part>>))

AddPart ==
  /\ stage = "draft" /\ Size < MaxSize
  /\ draft.dialect \in {"chat", "responses", "messages"}
  /\ LET n == Len(Parts) + 1
         results == IF draft.dialect = "messages" THEN "user" ELSE "tool"
         says(kind, role, id) == draft' = [draft EXCEPT !.conv = Extended(kind, role, id)]
     IN  \/ \E role \in {"user", "assistant"} : says("text", role, n)
         \/ draft.dialect # "messages" /\ says("text", "system", n)
         \/ says("call", "assistant", n)
         \/ \E id \in Ids(OfKind(Parts, "call")) : says("result", results, id)
  /\ UNCHANGED <<store, stage, query, read, cands, sent, answer>>

---------------------------------------------------------------------------
(* The handler.                                                            *)

\* What is not needed any more is forgotten.
Forget ==
  /\ config' = Configured /\ moments' = {} /\ edits' = 0
  /\ draft' = Blank(draft.dialect) /\ query' = NoQuery /\ read' = NothingRead /\ sent' = {}

Respond(kind, open) ==
  /\ stage' = "answered" /\ answer' = [kind |-> kind, open |-> open]
  /\ cands' = <<>> /\ Forget

\* authenticate: no usable key, or the key lookup fails.
Unauthorized ==
  /\ stage = "draft" /\ draft = Blank(draft.dialect)
  /\ \E kind \in {"401", "500"} : Respond(kind, {})

\* The body cannot be read; an unknown action in the path of a Gemini request.
Unreadable ==
  /\ stage = "draft" /\ draft = Blank(draft.dialect)
  /\ \E kind \in {"400"} \cup (IF draft.dialect = "gemini" THEN {"404"} ELSE {}) :
       Respond(kind, {})

\* What the inspection found is what the matcher is asked.
Handle(dialect, seen) ==
  /\ stage = "draft" /\ draft.dialect = dialect
  /\ IF seen.refused THEN Respond("invalid_request_error", {})
     ELSE /\ stage' = "rules"
          /\ \E enforce \in Enforcements :
               query' = [dialect |-> dialect, stream |-> "stream" \in draft.options,
                         inspected |-> dialect # "openai", native |-> seen.native,
                         features |-> seen.features, enforce |-> enforce]
          /\ moments' = {config}
          /\ UNCHANGED <<config, edits, draft, read, cands, sent, answer>>

HandleChatCompletions == Handle("chat", InspectChatRequest(draft.options, draft.conv))
HandleResponses == Handle("responses", InspectResponsesRequest(draft.options, draft.conv))
HandleMessages == Handle("messages", InspectMessagesRequest(draft.options, draft.conv))

\* The action in the path asks for a stream, not the body.
HandleGemini ==
  LET seen == InspectGeminiRequest(draft.options)
  IN  Handle("gemini",
             [seen EXCEPT !.features = @ \cup Given("streaming", "stream" \in draft.options)])

\* The other endpoints are routed by their model alone; embeddings must be JSON.
Uninspected == [refused |-> FALSE, native |-> FALSE, features |-> {}]
HandleOpenAI == Handle("openai", Uninspected)
HandleEmbeddings ==
  \E isJSON \in BOOLEAN : Handle("openai", [Uninspected EXCEPT !.refused = ~isJSON])

\* resolveCandidates.  The rules a key does not allow are left out; a read
\* of the rules that fails leaves none.
ReadRules ==
  /\ stage = "rules" /\ stage' = "providerRows"
  /\ \E rules \in {Now.rules, {}} : read' = [read EXCEPT !.rules = rules]
  /\ UNCHANGED <<store, draft, query, cands, sent, answer>>

Referenced == UNION {{t.provider : t \in {t \in ToSet(r.targets) : t.enabled}} : r \in read.rules}

Advance(from, to, name, value) ==
  /\ stage = from
  /\ \/ /\ stage' = to /\ read' = [read EXCEPT ![name] = value]
        /\ UNCHANGED <<store, draft, query, cands, sent, answer>>
     \/ Respond("store_error", {})

ReadProviderRows ==
  Advance("providerRows", "providers", "providerRows",
          {c \in Now.providerRows : c.provider \in Referenced})

ReadProviders ==
  Advance("providers", "modelRows", "providers",
          [p \in Referenced \cap DOMAIN Now.providers |-> Now.providers[p]])

ReadModelRows ==
  Advance("modelRows", "match", "modelRows",
          {c \in Now.modelRows : c.provider \in Referenced})

HasUnsupportedStreamConversion(candidates, from) ==
  \E c \in ToSet(candidates) : c.to # from /\ ~SupportsStreamConversion(from, c.to)

\* The breakers are read last: those of the providers for the match, those
\* of the converted routes after it.
Capabilities ==
  WithModels(NewCapabilitySnapshot(read.providerRows, read.providers), read.modelRows)
Found(open) == SelectCandidates(query, read.rules, read.providers, open, Capabilities)

Routed(candidates, shut) ==
  FlattenSeq([i \in DOMAIN candidates |->
    IF candidates[i].to # query.dialect /\ candidates[i].provider \in shut THEN <<>>
    ELSE <<candidates[i]>>])

Try(routed, open) ==
  IF routed = <<>> THEN Respond("route_unavailable", open)
  ELSE IF query.stream /\ HasUnsupportedStreamConversion(routed, query.dialect)
  THEN Respond("unsupported_feature", open)
  ELSE /\ stage' = "prepare" /\ cands' = routed /\ read' = NothingRead
       /\ UNCHANGED <<store, draft, query, sent, answer>>

Match ==
  /\ stage = "match"
  /\ \E open \in SUBSET DOMAIN read.providers :
       LET found == Found(open) IN
       IF found.error # "" THEN Respond(found.error, open)
       ELSE \E shut \in SUBSET {c.provider : c \in
                              {c \in ToSet(found.candidates) : c.to # query.dialect}} :
              Try(Routed(found.candidates, shut), open)

---------------------------------------------------------------------------
(* The candidates.                                                         *)

Mutant_NextCandidate ==
  IF Len(cands) = 1 THEN Respond("all_failed", {})
  ELSE /\ stage' = "prepare" /\ cands' = Tail(cands)
       /\ UNCHANGED <<store, draft, query, read, sent, answer>>

NextCandidate ==
  IF Len(cands) = 1 THEN Respond("all_failed", {})
  ELSE /\ stage' = "prepare" /\ cands' = Tail(cands) /\ sent' = {}
       /\ UNCHANGED <<store, draft, query, read, answer>>

Outbound == Body(draft.options, draft.conv)

\* The native adapter passes the body on; a conversion may fail.
PrepareAttempt ==
  /\ stage = "prepare"
  /\ LET to == Head(cands).to
         body == IF to = draft.dialect THEN {Outbound}
                 ELSE ConvertRequest(draft.dialect, to, Outbound)
     IN  IF body = {} THEN NextCandidate
         ELSE /\ stage' = "sent" /\ sent' = body
              /\ UNCHANGED <<store, draft, query, read, cands, answer>>

\* What can stop and what can be beside the parts of a buffered reply.
Stops(dialect) ==
  CASE dialect = "chat" -> {"done", "calls", "cut", "filtered"}
    [] dialect = "responses" -> {"done", "cut", "filtered", "failed"}
    [] OTHER -> {"done", "cut", "filtered"}

Replies(dialect) ==
  [parts : UNION {{[i \in 1..n |-> [kind |-> k[i], id |-> i]] : k \in [1..n -> {"text", "call", "other"}]} :
                    n \in 0..MaxReplyParts},
   stop : Stops(dialect),
   extra : {"none", "annotations", "details", "unknown_key"}]

\* The attempt fails, or its reply cannot be converted: the next candidate.
AttemptFails ==
  stage = "sent" /\ NextCandidate

\* A reply arrives; the request is not needed any more.
ReplyArrives ==
  /\ stage = "sent" /\ ~query.stream
  /\ stage' = "reply" /\ cands' = <<Head(cands)>> /\ Forget
  /\ UNCHANGED answer

\* copyBufferedResponse: the client gets the reply, converted if need be.
Deliver ==
  /\ stage = "reply" /\ stage' = "answered"
  /\ LET from == draft.dialect
         to == Head(cands).to
     IN  \E r \in Replies(to) :
           \E got \in IF from = to THEN {r} ELSE ConvertResponse(from, to, r) :
             answer' = [kind |-> "reply", to |-> to, sent |-> r, got |-> got]
  /\ cands' = <<>>
  /\ UNCHANGED <<store, draft, query, read, sent>>

\* The operator changes a setting; what comes after the last read is not seen.
Edit ==
  /\ stage \in {"rules", "providerRows", "providers", "modelRows"} /\ edits < MaxEdits
  /\ \E c \in DOMAIN Configurations \ {config} : config' = c /\ moments' = moments \cup {c}
  /\ edits' = edits + 1
  /\ UNCHANGED <<draft, stage, query, read, cands, sent, answer>>

PathNext ==
  \/ AddFragment \/ AddPart \/ Unauthorized \/ Unreadable
  \/ HandleChatCompletions \/ HandleResponses \/ HandleMessages \/ HandleGemini
  \/ HandleEmbeddings \/ HandleOpenAI
  \/ ReadRules \/ ReadProviderRows \/ ReadProviders \/ ReadModelRows \/ Match
  \/ PrepareAttempt \/ AttemptFails \/ ReplyArrives \/ Deliver \/ Edit

PathSpec == PathInit /\ [][PathNext]_pathVars

---------------------------------------------------------------------------
(* What the store said about a target at one moment, however it was read.  *)

Decides(m, t, dialect, what) ==
  LET about(rows, model) == {c \in rows : /\ c.provider = t.provider /\ c.model = model
                                         /\ c.dialect = dialect /\ c.what = what /\ ~c.legacy}
      ofModel == about(m.modelRows, t.model)
  IN  IF ofModel # {} THEN ofModel ELSE about(m.providerRows, "")

Speaks(m, t, dialect) ==
  LET said == Decides(m, t, dialect, "native")
  IN  IF said # {} THEN \E c \in said : c.enabled
      ELSE dialect \in {"chat", "openai"} \cup m.providers[t.provider].columns

Grants(m, t, dialect, feature) ==
  LET said == Decides(m, t, dialect, feature)
  IN  IF said # {} THEN \E c \in said : c.enabled
      ELSE \/ ~query.enforce \/ feature = "streaming"
           \/ feature = "tools" /\ \E c \in m.modelRows :
                /\ c.provider = t.provider /\ c.model = t.model /\ c.dialect = dialect
                /\ c.what = "native" /\ c.enabled /\ ~c.legacy

Serves(m, t, dialect) ==
  /\ Speaks(m, t, dialect)
  /\ \A f \in query.features : Grants(m, t, dialect, f)
  /\ dialect # query.dialect =>
       ~query.native /\ query.features \subseteq {"tools", "streaming"}

Usable(m, open) ==
  {t \in UNION {ToSet(r.targets) : r \in {r \in m.rules : r.enabled}} :
     /\ t.enabled /\ t.provider \in DOMAIN m.providers \ open
     /\ m.providers[t.provider].enabled}

Dialects3 == {"chat", "responses", "messages"}
Wires == {query.dialect} \cup (IF query.dialect \in Dialects3 THEN Dialects3 ELSE {})
Moments == {Configurations[name] : name \in moments}

PathTypeOK ==
  /\ config \in DOMAIN Configurations /\ moments \subseteq DOMAIN Configurations
  /\ edits \in 0..MaxEdits
  /\ draft.dialect \in ClientDialects /\ draft.options \subseteq Fragments(draft.dialect)
  /\ Size <= MaxSize
  /\ stage \in {"draft", "rules", "providerRows", "providers", "modelRows", "match",
                "prepare", "sent", "reply", "relay", "answered"}
  /\ query.features \subseteq Features
  /\ Cardinality(sent) <= 1 /\ (sent # {} <=> stage = "sent")
  /\ (cands # <<>>) <=> stage \in {"prepare", "sent", "reply"}

\* A request goes to a provider only if, at some moment since it arrived, the
\* rule, the target and the provider were enabled and the provider was said to
\* speak the dialect it gets and to have every feature the request needs:
\* four queries of resolveCandidates an edit may fall between.
SentWhereSupported ==
  stage = "sent" =>
    \E m \in Moments : \E t \in Usable(m, {}) :
      /\ t.provider = Head(cands).provider /\ t.model = Head(cands).model
      /\ Serves(m, t, Head(cands).to)

\* "Unsupported" (422) is said only when some usable target speaks a dialect
\* the request could go out in and none serves it, "unavailable" (503) only
\* when none speaks one: an open breaker never turns a 503 into a 422
\* (matcher.go:187).
StatusHonest ==
  [][stage = "match" /\ stage' = "answered" =>
       LET usable(m) == Usable(m, answer'.open)
           spoken(m) == \E t \in usable(m), d \in Wires : Speaks(m, t, d)
           served(m) == \E t \in usable(m), d \in Wires : Serves(m, t, d)
       IN  CASE answer'.kind = "unsupported_feature" ->
                  \E m \in Moments : spoken(m) /\ ~served(m)
             [] answer'.kind = "service_unavailable" -> \E m \in Moments : ~spoken(m)
             [] answer'.kind = "route_unavailable" -> \E m \in Moments : served(m)
             [] OTHER -> answer'.kind = "no_matching_rule"]_pathVars

\* What the converters drop or alter without a word: no inspector refuses it,
\* keeps it native or makes it a feature (README).
LostToMessages == {"parallel_off", "tool_strict"}
KnownLosses(from, to) ==
  CASE from = "messages" ->
         {"thinking_other", "message_field", "empty_message", "text_field", "call_field",
          "call_bignum", "is_error", "result_blocks", "tool_cache", "tool_strict", "tool_field"}
           \cup (IF to = "chat" THEN {"tool_bignum"} ELSE {})
    [] from = "chat" ->
         {"format_other", "message_field", "empty_message", "text_field", "call_field",
          "tool_bignum"} \cup (IF to = "messages" THEN LostToMessages ELSE {})
    [] from = "responses" ->
         {"verbosity", "format_other", "item_field", "text_field"}
           \cup (IF to = "messages"
                  THEN LostToMessages \cup {"user", "roleless", "empty_message", "result_blocks",
                                            "tool_blank"}
                  ELSE {"tool_bignum"})

Converted == stage = "sent" /\ Head(cands).to # draft.dialect
SentBody == CHOOSE b \in sent : TRUE

\* What the client put into the request beside its conversation: the known
\* losses are exactly what is lost.
OptionsKept ==
  \A f \in draft.options :
    f \notin KnownLosses(draft.dialect, Head(cands).to) <=>
      \/ f \in SentBody.options
      \/ f = "system" /\ Head(SentBody.conv) = Developer

Said(conv) ==
  FlattenSeq([i \in DOMAIN conv |->
    [j \in DOMAIN conv[i].parts |->
       [part |-> conv[i].parts[j], message |-> i,
        by |-> IF conv[i].parts[j].kind = "text" THEN conv[i].role ELSE ""]]])

SetAside(conv, message) ==
  FlattenSeq([i \in DOMAIN conv |-> IF conv[i] = message THEN <<>> ELSE <<conv[i]>>])

\* The same things are said, each once and by the same speaker, in the same
\* order; only what one message holds may be reordered, its texts against its
\* calls or results.
ConversationKept ==
  LET before == Said(draft.conv)
      after == Said(SetAside(SentBody.conv, Developer))
      Place(x) == {j \in DOMAIN after : after[j].part = x.part /\ after[j].by = x.by}
      Free(x, y) == x.message = y.message /\ x.part.kind # y.part.kind
  IN  /\ Len(after) = Len(before)
      /\ \A i \in DOMAIN before : Place(before[i]) # {}
      /\ \A i, j \in DOMAIN before :
           i < j /\ ~Free(before[i], before[j]) =>
             \E k \in Place(before[i]), l \in Place(before[j]) : k < l

\* A converted request carries everything the client put into it but the known
\* losses, and those it does lose: whatever else the converters would drop,
\* alter or reorder is kept back by the inspector, which decides before they run.
RequestKept == Converted => OptionsKept /\ ConversationKept

\* A converted reply holds the texts and the calls the provider sent, each
\* kind in its order, and one that was cut off or failed is not presented as
\* complete.
ReplyKept ==
  answer.kind = "reply" =>
    /\ TextsOf(answer.got) = TextsOf(answer.sent) /\ CallsOf(answer.got) = CallsOf(answer.sent)
    /\ answer.sent.stop \in {"cut", "failed"} => answer.got.stop \notin {"done", "calls"}
=============================================================================
