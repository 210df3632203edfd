----------------------------- MODULE StreamOps -----------------------------
(***************************************************************************)
(* The stream converters of internal/proxy (stream_convert.go,             *)
(* stream_convert_chat.go, adapter.go) and the usage accumulator           *)
(* (streamusage.go) as functions on sequences of SSE events.               *)
(*                                                                         *)
(* An event is a record: its type, the index of the block, item or tool    *)
(* call it belongs to, a kind (of a block, a delta, a finish reason), the  *)
(* token a delta carries (0: none; the order of the tokens is the order    *)
(* in which the upstream sent them) and whether it reports the tokens of   *)
(* the output.  Those of the input are left out: each dialect reports them *)
(* in another event, and the converters lose them (README, "What is not    *)
(* modelled").  A chunk of a stream is named by the part of it that is     *)
(* filled in: "role", "content", "tool_calls", "finish", "usage" for Chat. *)
(* Framing (lines, events split over reads) is left out: converters see    *)
(* whole events.                                                           *)
(*                                                                         *)
(* A converter is a record of its fields; a step of it yields the record   *)
(* after the event, what it emits, and whether it returned an error.       *)
(***************************************************************************)
EXTENDS Integers, Sequences, SequencesExt

Ev(t, i, k, n, u) == [t |-> t, i |-> i, k |-> k, n |-> n, u |-> u]
Plain(t)   == Ev(t, 0, "", 0, FALSE)
At(t, i)   == Ev(t, i, "", 0, FALSE)
Of(t, i, k) == Ev(t, i, k, 0, FALSE)

Emits(c, out) == [c |-> c, out |-> out, err |-> FALSE]
Fails(c)      == [c |-> c, out |-> <<>>, err |-> TRUE]

Preamble == <<Plain("response.created"), Plain("response.in_progress")>>

(***************************************************************************)
(* Messages -> Responses                                                   *)
(***************************************************************************)
NewM2R == [name |-> "m2r", created |-> FALSE, item |-> -1, kind |-> "",
           usage |-> FALSE, stop |-> "", terminal |-> FALSE]

M2R(c, e) ==
  IF c.terminal THEN Emits(c, <<>>)
  ELSE
  CASE e.t = "message_start" /\ ~c.created ->
         Emits([c EXCEPT !.created = TRUE], Preamble)
    [] e.t = "content_block_start" ->
         LET d == [c EXCEPT !.item = @ + 1, !.kind = e.k] IN
         CASE e.k = "text" ->
                Emits(d, <<Of("response.output_item.added", d.item, "message"),
                           At("response.content_part.added", d.item)>>)
           [] e.k = "tool_use" ->
                Emits(d, <<Of("response.output_item.added", d.item, "function_call")>>)
           [] OTHER -> Fails(d)
    [] e.t = "content_block_delta" ->
         CASE e.k = "text_delta" ->
                Emits(c, <<Ev("response.output_text.delta", c.item, "", e.n, FALSE)>>)
           [] e.k = "input_json_delta" ->
                Emits(c, <<Ev("response.function_call_arguments.delta", c.item, "", e.n, FALSE)>>)
           [] OTHER -> Fails(c)
    [] e.t = "content_block_stop" ->
         CASE c.kind = "text" ->
                Emits(c, <<At("response.output_text.done", c.item),
                           At("response.content_part.done", c.item),
                           At("response.output_item.done", c.item)>>)
           [] c.kind = "tool_use" ->
                Emits(c, <<At("response.function_call_arguments.done", c.item),
                           At("response.output_item.done", c.item)>>)
           [] OTHER -> Fails(c)
    [] e.t = "message_delta" ->
         Emits([c EXCEPT !.stop = e.k, !.usage = @ \/ e.u], <<>>)
    [] e.t = "message_stop" ->
         Emits([c EXCEPT !.terminal = TRUE],
               <<Ev("response.completed", 0, c.stop, 0, c.usage)>>)
    [] e.t = "ping" -> Emits(c, <<>>)
    [] OTHER -> Fails(c)

(***************************************************************************)
(* Responses -> Messages                                                   *)
(***************************************************************************)
NewR2M == [name |-> "r2m", started |-> FALSE, kind |-> "", block |-> -1,
           open |-> FALSE, stopped |-> FALSE, terminal |-> FALSE]

Mutant_CloseBlock(c) == [c EXCEPT !.stopped = TRUE]
CloseBlock(c) == [c EXCEPT !.stopped = TRUE, !.open = FALSE]

\* finish(response, "completed").
R2MFinish(c, e) ==
  Emits([CloseBlock(c) EXCEPT !.terminal = TRUE],
        (IF c.open /\ ~c.stopped THEN <<At("content_block_stop", c.block)>> ELSE <<>>)
        \o <<Ev("message_delta", 0, IF e.k = "" THEN "end_turn" ELSE e.k, 0, e.u),
             Plain("message_stop")>>)

\* Only one block is open at a time: an item added while one is open is
\* skipped, and a delta goes to the open block if that is of its kind.
R2MAdded(c, e) ==
  IF e.k \notin {"message", "function_call"} THEN Fails(c)
  ELSE IF c.open THEN Emits(c, <<>>)
  ELSE Emits([c EXCEPT !.open = TRUE, !.stopped = FALSE, !.block = @ + 1, !.kind = e.k],
             <<Of("content_block_start", c.block + 1,
                  IF e.k = "message" THEN "text" ELSE "tool_use")>>)

R2M(c, e) ==
  IF c.terminal THEN Emits(c, <<>>)
  ELSE
  CASE e.t = "response.created" ->
         Emits([c EXCEPT !.started = TRUE],
               IF c.started THEN <<>> ELSE <<Plain("message_start")>>)
    [] e.t = "response.output_item.added" -> R2MAdded(c, e)
    [] e.t = "response.output_text.delta" ->
         Emits(c, IF c.open /\ c.kind = "message"
                  THEN <<Ev("content_block_delta", c.block, "text_delta", e.n, FALSE)>>
                  ELSE <<>>)
    [] e.t = "response.function_call_arguments.delta" ->
         Emits(c, IF c.open /\ c.kind = "function_call"
                  THEN <<Ev("content_block_delta", c.block, "input_json_delta", e.n, FALSE)>>
                  ELSE <<>>)
    [] e.t \in {"response.output_text.done", "response.content_part.done",
                "response.output_item.done"} ->
         IF c.open /\ ~c.stopped
         THEN Emits(CloseBlock(c), <<At("content_block_stop", c.block)>>)
         ELSE Emits(c, <<>>)
    [] e.t \in {"response.in_progress", "response.content_part.added",
                "response.function_call_arguments.done"} -> Emits(c, <<>>)
    [] e.t = "response.completed" -> R2MFinish(c, e)
    [] e.t \in {"response.incomplete", "response.failed"} ->
         Fails([c EXCEPT !.terminal = TRUE])
    [] OTHER -> Fails(c)

(***************************************************************************)
(* Chat -> Responses                                                       *)
(***************************************************************************)
\* calls: the tool calls by index from 0, as their item indexes; the calls of
\* a legal stream are numbered in the order they appear.
NewC2R == [name |-> "c2r", started |-> FALSE, message |-> -1, next |-> 0,
           calls |-> <<>>, finish |-> "", usage |-> FALSE, terminal |-> FALSE,
           err |-> FALSE]

FinishReasons == {"stop", "tool_calls", "length", "content_filter"}

\* terminalEvents: everything still open is closed here.
C2RFinish(c) ==
  LET text == IF c.message < 0 THEN <<>>
              ELSE <<At("response.output_text.done", c.message),
                     At("response.content_part.done", c.message),
                     At("response.output_item.done", c.message)>>
      call(i) == <<At("response.function_call_arguments.done", c.calls[i]),
                   At("response.output_item.done", c.calls[i])>>
      calls == FlattenSeq([i \in DOMAIN c.calls |-> call(i)])
      end == CASE c.finish = "stop" -> Ev("response.completed", 0, "end_turn", 0, c.usage)
               [] c.finish = "tool_calls" ->
                    Ev("response.completed", 0, "tool_use", 0, c.usage)
               [] OTHER -> Ev("response.incomplete", 0, c.finish, 0, c.usage)
  IN IF c.finish \in FinishReasons
     THEN Emits([c EXCEPT !.terminal = TRUE], text \o calls \o <<end>>)
     ELSE Fails(c)

\* processToolCallDelta: the first delta of a call names it (kind "id"), the
\* later ones carry arguments.
ToolCallDelta(c, e) ==
  LET known == e.i < Len(c.calls)
      d == [c EXCEPT !.started = TRUE,
              !.calls = IF known THEN @ ELSE Append(@, c.next),
              !.next = IF known THEN @ ELSE @ + 1]
      item == d.calls[e.i + 1]
  IN IF ~known /\ e.k # "id"
     THEN Fails([c EXCEPT !.err = TRUE])
     ELSE Emits(d, (IF c.started THEN <<>> ELSE Preamble)
                   \o (IF known THEN <<>>
                       ELSE <<Of("response.output_item.added", item, "function_call")>>)
                   \o (IF e.n = 0 THEN <<>>
                       ELSE <<Ev("response.function_call_arguments.delta", item, "", e.n,
                                 FALSE)>>))

\* The first delta is used up by the preamble.
Mutant_ContentDelta(c, e) ==
  IF c.message >= 0
  THEN Emits(c, <<Ev("response.output_text.delta", c.message, "", e.n, FALSE)>>)
  ELSE Emits([c EXCEPT !.message = c.next, !.next = @ + 1],
             Preamble \o <<Of("response.output_item.added", c.next, "message"),
                           At("response.content_part.added", c.next)>>)

\* The text's preamble does not look at started, nor the calls' at message.
ContentDelta(c, e) ==
  LET d == IF c.message >= 0 THEN c ELSE [c EXCEPT !.message = c.next, !.next = @ + 1]
  IN Emits(d, (IF c.message >= 0 THEN <<>>
               ELSE Preamble
                    \o <<Of("response.output_item.added", d.message, "message"),
                         At("response.content_part.added", d.message)>>)
              \o <<Ev("response.output_text.delta", d.message, "", e.n, FALSE)>>)

C2R(c, e) ==
  IF c.terminal \/ c.err THEN Emits(c, <<>>)
  ELSE
  CASE e.t = "[DONE]" -> C2RFinish(c)
    [] e.t = "usage" ->
         LET d == [c EXCEPT !.usage = @ \/ e.u]
         IN IF c.finish = "" THEN Emits(d, <<>>) ELSE C2RFinish(d)
    [] e.t = "content" -> ContentDelta(c, e)
    [] e.t = "tool_calls" -> ToolCallDelta(c, e)
    [] e.t = "finish" -> Emits([c EXCEPT !.finish = e.k], <<>>)
    [] e.t = "refusal" -> Fails([c EXCEPT !.err = TRUE])
    [] OTHER -> Emits(c, <<>>)

(***************************************************************************)
(* Responses -> Chat                                                       *)
(***************************************************************************)
NewR2C == [name |-> "r2c", messages |-> 0, calls |-> {}, usage |-> FALSE,
           terminal |-> FALSE]

\* finish and finishIncomplete; u: applyUsage has found some.
R2CFinish(c, finish, u) ==
  Emits([c EXCEPT !.terminal = TRUE, !.usage = @ \/ u],
        <<Ev("usage", 0, "", 0, c.usage \/ u), Of("finish", 0, finish), Plain("[DONE]")>>)

R2C(c, e) ==
  IF c.terminal THEN Emits(c, <<>>)
  ELSE
  CASE e.t = "response.created" -> Emits(c, <<Plain("role")>>)
    [] e.t = "response.output_item.added" ->
         CASE e.k = "message" ->
                IF c.messages > 0 \/ c.calls # {} THEN Fails(c)
                ELSE Emits([c EXCEPT !.messages = @ + 1], <<>>)
           [] e.k = "function_call" ->
                IF c.messages > 0 THEN Fails(c)
                ELSE Emits([c EXCEPT !.calls = @ \union {e.i}],
                           <<Of("tool_calls", e.i, "id")>>)
           [] OTHER -> Fails(c)
    [] e.t = "response.output_text.delta" ->
         Emits(c, <<Ev("content", 0, "", e.n, FALSE)>>)
    [] e.t = "response.function_call_arguments.delta" ->
         Emits(c, <<Ev("tool_calls", e.i, "", e.n, FALSE)>>)
    [] e.t \in {"response.in_progress", "response.content_part.added",
                "response.output_text.done", "response.content_part.done",
                "response.output_item.done", "response.function_call_arguments.done"} ->
         Emits(c, <<>>)
    [] e.t = "response.completed" ->
         R2CFinish(c, IF e.k = "max_tokens" THEN "length"
                      ELSE IF e.k = "tool_use" \/ c.calls # {} THEN "tool_calls"
                      ELSE "stop", e.u)
    \* applyUsage is not called: an incomplete reply's usage is not passed on.
    [] e.t = "response.incomplete" ->
         R2CFinish(c, IF e.k = "content_filter" THEN e.k ELSE "length", FALSE)
    [] OTHER -> Fails(c)

(***************************************************************************)
(* Pipelines                                                               *)
(***************************************************************************)
\* The converters between an upstream's dialect and a client's; none for the
\* same dialect.
Converters(up, client) ==
  CASE <<up, client>> = <<"messages", "responses">> -> <<NewM2R>>
    [] <<up, client>> = <<"responses", "messages">> -> <<NewR2M>>
    [] <<up, client>> = <<"chat", "responses">> -> <<NewC2R>>
    [] <<up, client>> = <<"responses", "chat">> -> <<NewR2C>>
    [] <<up, client>> = <<"messages", "chat">> -> <<NewM2R, NewR2C>>
    [] <<up, client>> = <<"chat", "messages">> -> <<NewC2R, NewR2M>>
    [] OTHER -> <<>>

Step(c, e) ==
  CASE c.name = "m2r" -> M2R(c, e)
    [] c.name = "r2m" -> R2M(c, e)
    [] c.name = "c2r" -> C2R(c, e)
    [] c.name = "r2c" -> R2C(c, e)

\* Write: the events of one chunk, up to the first error.
Written(r, e) ==
  LET s == Step(r.c, e)
  IN IF r.err THEN r ELSE [c |-> s.c, out |-> r.out \o s.out, err |-> s.err]

WriteStep(c, events) ==
  LET after[i \in 0 .. Len(events)] ==
        IF i = 0 THEN Emits(c, <<>>) ELSE Written(after[i - 1], events[i])
  IN after[Len(events)]

\* composedStreamConverter.Write: what one step emits is the chunk of the next.
\* An error drops the output of the whole chunk (convertStreamChunk).
PassOn(r, i) ==
  LET s == WriteStep(r.c[i], r.out)
  IN IF r.err THEN r
     ELSE [c |-> [r.c EXCEPT ![i] = s.c], out |-> IF s.err THEN <<>> ELSE s.out, err |-> s.err]

WriteAll(conv, events) ==
  LET after[i \in 0 .. Len(conv)] ==
        IF i = 0 THEN Emits(conv, events) ELSE PassOn(after[i - 1], i)
  IN after[Len(conv)]

\* Close of a step: the rest of an event cut off by the end of the stream does
\* not parse, and the Chat converters insist on their terminal.
CloseFails(c, partial) ==
  CASE c.name = "m2r" -> partial /\ ~c.terminal
    [] c.name = "r2m" -> partial
    [] c.name = "c2r" -> ~c.terminal
    [] c.name = "r2c" -> ~c.terminal

\* No step emits anything at its end, so that the steps after the first see
\* whole events only.
CloseAllFails(conv, partial) ==
  \E i \in DOMAIN conv : CloseFails(conv[i], partial /\ i = 1)

(***************************************************************************)
(* The usage accumulator, fed with what the client is sent                 *)
(***************************************************************************)
NewAccumulator == [done |-> FALSE, terminal |-> "", errored |-> FALSE,
                   output |-> FALSE, usage |-> FALSE]

\* streamEventProducesOutput; the deltas here are never empty.
ProducesOutput(e) ==
  \/ e.t \in {"response.output_item.added", "response.content_part.added",
              "response.output_text.delta", "response.function_call_arguments.delta",
              "content_block_start", "content_block_delta",
              "content", "tool_calls", "refusal"}
  \/ e.t = "finish" /\ e.k = "content_filter"

\* streamProtocolError
ProtocolError(e) ==
  \/ e.t = "error"
  \/ e.t = "response.failed" /\ e.k = "error"

TerminalOf(e) ==
  CASE e.t = "response.completed" -> "completed"
    [] e.t = "response.incomplete" -> "incomplete"
    [] e.t = "response.failed" -> "failed"
    [] e.t = "message_stop" -> "message_stop"
    [] OTHER -> ""

Ends(e) == e.t = "[DONE]" \/ TerminalOf(e) # ""

\* A terminal event returns before its usage is merged.
FeedOne(a, e) ==
  IF a.done THEN a
  ELSE IF ProtocolError(e)
  THEN [a EXCEPT !.done = TRUE, !.errored = TRUE, !.terminal = "error"]
  ELSE [a EXCEPT !.done = Ends(e), !.terminal = TerminalOf(e),
                 !.output = @ \/ ProducesOutput(e), !.usage = @ \/ e.u]

Feed(a, events) ==
  LET fed[i \in 0 .. Len(events)] == IF i = 0 THEN a ELSE FeedOne(fed[i - 1], events[i])
  IN fed[Len(events)]

Mutant_Successful(a) == a.terminal \in {"", "completed", "incomplete", "message_stop"}
Successful(a) ==
  a.done /\ a.terminal \in {"", "completed", "incomplete", "message_stop"}
=============================================================================
