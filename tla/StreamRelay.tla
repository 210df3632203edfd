---------------------------- MODULE StreamRelay ----------------------------
(***************************************************************************)
(* One streamed reply: an upstream that speaks one dialect, streamAttempt  *)
(* (internal/proxy/proxy.go) that reads it, converts it, holds it back     *)
(* until there is output worth committing to, and judges it when it ends,  *)
(* and a client of the same or another dialect.  The upstream is legal up  *)
(* to the point where it stops: it may break off anywhere, send an error,  *)
(* or send content that has no counterpart in the client's dialect.        *)
(***************************************************************************)
EXTENDS StreamOps, FiniteSets

CONSTANTS
  Upstreams, Clients,   \* dialects: "messages", "responses", "chat"
  MaxItems,             \* blocks, items or tool calls of a reply
  MaxTokens,            \* deltas of a reply
  MaxUnread             \* events the upstream may be ahead of the reader

Dialects == {"messages", "responses", "chat"}

ASSUME StreamRelayAssumption ==
  /\ Upstreams \subseteq Dialects /\ Clients \subseteq Dialects
  /\ MaxItems \in Nat /\ MaxTokens \in Nat /\ MaxUnread \in Nat \ {0}

VARIABLES
  up, client,   \* the dialects of this reply
  src,          \* what the upstream has sent so far
  unread,       \* the events on the wire
  begun,        \* a byte of the body has been read
  conv,         \* the converters' states
  pending,      \* converted events held back by the gate
  committed,    \* the response header is out
  acc,          \* the usage accumulator
  got,          \* what the client has received
  failure,      \* conversionErr, streamErr and writeErr, by cause
  verdict       \* the attempt's status; "" while it runs

vars == <<up, client, src, unread, begun, conv, pending, committed, acc, got, failure,
          verdict>>
srcVars   == <<up, client, src>>
relayVars == <<begun, conv, pending, committed, acc, got, failure>>

(***************************************************************************)
(* The upstream                                                            *)
(***************************************************************************)
RelayBetween(u, c) ==
  /\ up = u /\ client = c
  /\ src = [stage |-> "start", items |-> <<>>, open |-> FALSE, tokens |-> 0,
            whole |-> FALSE, usage |-> FALSE, short |-> FALSE]
  /\ unread = <<>> /\ begun = FALSE
  /\ conv = Converters(u, c)
  /\ pending = <<>> /\ committed = FALSE /\ acc = NewAccumulator /\ got = <<>>
  /\ failure = "" /\ verdict = ""

Init == \E u \in Upstreams, c \in Clients : RelayBetween(u, c)

Calls == {i \in DOMAIN src.items : src.items[i].kind = "call"}
Index == IF up = "chat" THEN Cardinality(Calls) ELSE Len(src.items)

Opening(kind) ==
  CASE up = "messages" ->
         <<Of("content_block_start", Index,
              CASE kind = "text" -> "text" [] kind = "call" -> "tool_use"
                [] OTHER -> "thinking")>>
    [] up = "responses" ->
         <<Of("response.output_item.added", Index,
              CASE kind = "text" -> "message" [] kind = "call" -> "function_call"
                [] OTHER -> "reasoning")>>
         \o (IF kind = "text" THEN <<At("response.content_part.added", Index)>> ELSE <<>>)
    [] up = "chat" ->
         CASE kind = "text" -> <<>>
           [] kind = "call" -> <<Of("tool_calls", Index, "id")>>
           [] OTHER -> <<Plain("refusal")>>

Delta(kind, n) ==
  CASE up = "messages" ->
         <<Ev("content_block_delta", Index - 1,
              IF kind = "text" THEN "text_delta" ELSE "input_json_delta", n, FALSE)>>
    [] up = "responses" ->
         <<Ev(IF kind = "text" THEN "response.output_text.delta"
              ELSE "response.function_call_arguments.delta", Index - 1, "", n, FALSE)>>
    [] up = "chat" ->
         IF kind = "text" THEN <<Ev("content", 0, "", n, FALSE)>>
         ELSE <<Ev("tool_calls", Index - 1, "", n, FALSE)>>

Closing(kind) ==
  CASE up = "messages" -> <<At("content_block_stop", Index - 1)>>
    [] up = "responses" ->
         (CASE kind = "text" -> <<At("response.output_text.done", Index - 1),
                                  At("response.content_part.done", Index - 1)>>
            [] kind = "call" -> <<At("response.function_call_arguments.done", Index - 1)>>
            [] OTHER -> <<>>)
         \o <<At("response.output_item.done", Index - 1)>>
    [] up = "chat" -> <<>>

Begins ==
  CASE up = "messages" -> <<Plain("message_start"), Plain("ping")>>
    [] up = "responses" -> Preamble
    [] up = "chat" -> <<Plain("role")>>

Reason(long) ==
  CASE up = "messages" ->
         IF long THEN "max_tokens" ELSE IF Calls # {} THEN "tool_use" ELSE "end_turn"
    [] up = "chat" ->
         IF long THEN "length" ELSE IF Calls # {} THEN "tool_calls" ELSE "stop"
    [] OTHER -> ""

Sends(events, s) ==
  /\ verdict = "" /\ Len(unread) < MaxUnread
  /\ unread' = unread \o events /\ src' = s
  /\ UNCHANGED <<up, client, relayVars, verdict>>

UpstreamStarts ==
  /\ src.stage = "start"
  /\ Sends(Begins, [src EXCEPT !.stage = "body"])

\* Content of kind "other" (thinking, reasoning, a refusal) carries no deltas.
UpstreamOpens ==
  /\ src.stage = "body" /\ ~src.open /\ Len(src.items) < MaxItems
  /\ \E kind \in {"text", "call", "other"} :
       Sends(Opening(kind),
             [src EXCEPT !.items = Append(@, [kind |-> kind, tokens |-> <<>>]),
                         !.open = TRUE])

UpstreamSendsDelta ==
  LET last == Len(src.items) IN
  /\ src.stage = "body" /\ src.open /\ src.tokens < MaxTokens
  /\ src.items[last].kind # "other"
  /\ Sends(Delta(src.items[last].kind, src.tokens + 1),
           [src EXCEPT !.items[last].tokens = Append(@, src.tokens + 1),
                       !.tokens = @ + 1])

UpstreamCloses ==
  /\ src.stage = "body" /\ src.open
  /\ Sends(Closing(src.items[Len(src.items)].kind), [src EXCEPT !.open = FALSE])

\* The stop reason, and for Responses the terminal: one that has run out of
\* tokens is cut short.
UpstreamConcludes ==
  /\ src.stage = "body" /\ ~src.open
  /\ \E long \in BOOLEAN :
       CASE up = "messages" ->
              Sends(<<Ev("message_delta", 0, Reason(long), 0, TRUE)>>,
                    [src EXCEPT !.stage = "stop", !.usage = TRUE])
         [] up = "chat" ->
              Sends(<<Of("finish", 0, Reason(long))>>, [src EXCEPT !.stage = "usage"])
         [] up = "responses" ->
              Sends(<<IF long THEN Ev("response.incomplete", 0, "max_output_tokens", 0, TRUE)
                      ELSE Ev("response.completed", 0, "", 0, TRUE)>>,
                    [src EXCEPT !.stage = "ended", !.whole = TRUE, !.usage = TRUE,
                                !.short = long])

\* The usage chunk of a Chat stream is optional; with it the content is whole
\* and only [DONE] missing.
UpstreamReportsUsage ==
  /\ src.stage = "usage"
  /\ \/ Sends(<<Ev("usage", 0, "", 0, TRUE)>>,
              [src EXCEPT !.stage = "stop", !.usage = TRUE, !.whole = TRUE])
     \/ Sends(<<>>, [src EXCEPT !.stage = "stop"])

UpstreamEnds ==
  /\ src.stage = "stop"
  /\ Sends(<<Plain(IF up = "chat" THEN "[DONE]" ELSE "message_stop")>>,
           [src EXCEPT !.stage = "ended", !.whole = TRUE])

\* An error reported in the stream instead of the rest of it.
UpstreamFails ==
  /\ src.stage # "ended"
  /\ \E k \in IF up = "responses" THEN {"", "error"} ELSE {"error"} :
       Sends(<<IF up = "responses" THEN Of("response.failed", 0, k) ELSE Plain("error")>>,
             [src EXCEPT !.stage = "ended"])

(***************************************************************************)
(* The relay                                                               *)
(***************************************************************************)
\* The gate: converted events are held back until one of them is output.
Mutant_Held(events) == events = <<>>
Held(events) ==
  LET probe == Feed(acc, events) IN ~committed /\ ~probe.output

\* writeConverted: what a chunk turns into and where it goes.  delivered is
\* FALSE when the client's connection refuses the write.
WriteConverted(events, delivered) ==
  LET w == WriteAll(conv, events)
      out == pending \o w.out
  IN /\ conv' = w.c
     /\ CASE w.err ->
               failure' = "conversion" /\ UNCHANGED <<pending, committed, acc, got>>
          [] ~w.err /\ w.out = <<>> -> UNCHANGED <<pending, committed, acc, got, failure>>
          [] ~w.err /\ w.out # <<>> /\ Held(out) ->
               /\ pending' = out
               /\ failure' = IF Feed(acc, out).errored THEN "protocol" ELSE failure
               /\ UNCHANGED <<committed, acc, got>>
          [] OTHER ->
               /\ pending' = <<>> /\ committed' = TRUE /\ acc' = Feed(acc, out)
               /\ got' = IF delivered THEN got \o out ELSE got
               /\ failure' = IF delivered THEN failure ELSE "write"

\* One read returns what is on the wire.
Read ==
  /\ verdict = "" /\ failure = "" /\ unread # <<>>
  /\ unread' = <<>> /\ begun' = TRUE
  /\ \E delivered \in BOOLEAN : WriteConverted(unread, delivered)
  /\ UNCHANGED <<srcVars, verdict>>

\* The read fails: a stall, a reset, a deadline, or the client's cancellation.
\* Before the first byte of the body a client that has left ("gone") is looked
\* at by itself; part of an event may have been read before the others.
ReadFails ==
  /\ verdict = "" /\ failure = ""
  /\ failure' \in {"read", "cancelled"} \cup (IF begun THEN {} ELSE {"gone"})
  /\ UNCHANGED <<srcVars, unread, begun, conv, pending, committed, acc, got, verdict>>

\* A stream that was read to its end.
CleanEnd(a) == IF Successful(a) /\ a.output THEN "success" ELSE "truncated"

\* The attempt's status, from the state in which the stream has ended.  A write
\* that the client's connection refuses is a client_abort; downstream_error,
\* when nothing says that the client left, is not told from it.
Verdict(why, com, a) ==
  IF why = "conversion" THEN "conversion_error"
  ELSE IF why = "gone" THEN "client_abort"
  ELSE IF ~com THEN "retryable"
  ELSE IF a.errored THEN "truncated"
  ELSE IF why = "write" THEN "client_abort"
  ELSE IF why = "" \/ Successful(a) THEN CleanEnd(a)
  ELSE IF why = "cancelled" THEN "client_abort"
  ELSE "truncated"

Judge(why, com, a) == verdict' = Verdict(why, com, a)

\* The end of an attempt whose reading or writing failed.
Abandon ==
  /\ verdict = "" /\ failure # ""
  /\ Judge(failure, committed, acc)
  /\ UNCHANGED <<srcVars, unread, relayVars>>

\* The upstream closes the connection, in the middle of an event (partial) or
\* between two; the converters are closed, unless the body was empty.
EndOfStream(partial) ==
  LET fails == (begun \/ partial) /\ CloseAllFails(conv, partial)
      why == IF fails THEN "conversion" ELSE ""
      a == IF committed \/ fails THEN acc ELSE Feed(acc, pending)
  IN /\ verdict = "" /\ failure = "" /\ unread = <<>>
     /\ failure' = why /\ acc' = a
     /\ Judge(why, committed, a)
     /\ UNCHANGED <<srcVars, unread, begun, conv, pending, committed, got>>

Next ==
  \/ UpstreamStarts \/ UpstreamOpens \/ UpstreamSendsDelta \/ UpstreamCloses
  \/ UpstreamConcludes \/ UpstreamReportsUsage \/ UpstreamEnds \/ UpstreamFails
  \/ Read \/ ReadFails \/ Abandon \/ \E partial \in BOOLEAN : EndOfStream(partial)

Spec == Init /\ [][Next]_vars

(***************************************************************************)
(* Views of a stream                                                       *)
(***************************************************************************)
Names(e) ==
  \/ e.t = "response.output_item.added" /\ e.k = "function_call"
  \/ e.t = "content_block_start" /\ e.k = "tool_use"
  \/ e.t = "tool_calls" /\ e.k = "id"

CarriesText(e) ==
  \/ e.t \in {"response.output_text.delta", "content"}
  \/ e.t = "content_block_delta" /\ e.k = "text_delta"

CarriesArguments(e) ==
  \/ e.t = "response.function_call_arguments.delta"
  \/ e.t = "content_block_delta" /\ e.k = "input_json_delta"
  \/ e.t = "tool_calls" /\ e.k = ""

\* The elements of s at the places in at.
Picked(s, at) ==
  LET picked[i \in 0 .. Len(s)] ==
        IF i = 0 THEN <<>>
        ELSE IF i \in at THEN Append(picked[i - 1], s[i]) ELSE picked[i - 1]
  IN picked[Len(s)]

Tokens(events) == [j \in DOMAIN events |-> events[j].n]

TextReceived == Picked(Tokens(got), {j \in DOMAIN got : CarriesText(got[j])})
CallsReceived ==
  LET named == Picked([j \in DOMAIN got |-> got[j].i], {j \in DOMAIN got : Names(got[j])})
      args(i) == Picked(Tokens(got),
                        {j \in DOMAIN got : CarriesArguments(got[j]) /\ got[j].i = i})
  IN [j \in DOMAIN named |-> args(named[j])]

TokensSent == [j \in DOMAIN src.items |-> src.items[j].tokens]
TextSent  == FlattenSeq(Picked(TokensSent, {j \in DOMAIN src.items : src.items[j].kind = "text"}))
CallsSent == Picked(TokensSent, Calls)

Before(j, P(_)) == Cardinality({x \in 1 .. j - 1 : P(got[x])})
Terminal(e) == e.t \in {"message_stop", "response.completed", "response.incomplete",
                        "response.failed", "[DONE]", "error"}

(***************************************************************************)
(* Properties                                                              *)
(***************************************************************************)
\* What the client has been sent is legal in its dialect at every moment: one
\* terminal at most and nothing after it; Messages blocks one at a time, with
\* consecutive indexes, deltas of the open block's kind and none open at the
\* end; Responses and Chat deltas only for items and calls already announced.
LegalMessages(j) ==
  LET e == got[j]
      opened == Before(j, LAMBDA x : x.t = "content_block_start")
      closed == Before(j, LAMBDA x : x.t = "content_block_stop")
      announced(k) == \E x \in 1 .. j - 1 :
                        got[x].t = "content_block_start" /\ got[x].i = e.i /\ got[x].k = k
  IN /\ e.t = "message_start" <=> j = 1
     /\ e.t = "content_block_start" => opened = closed /\ e.i = opened
     /\ e.t \in {"content_block_delta", "content_block_stop"} =>
          opened = closed + 1 /\ e.i = closed
     /\ CarriesText(e) => announced("text")
     /\ CarriesArguments(e) => announced("tool_use")
     /\ e.t \in {"message_delta", "message_stop"} => opened = closed

LegalItems(j) ==
  LET e == got[j]
      announced(t) == \E x \in 1 .. j - 1 : got[x].t = t /\ got[x].i = e.i
  IN /\ e.t \in {"response.output_text.delta", "response.function_call_arguments.delta",
                  "response.output_item.done"} => announced("response.output_item.added")
     /\ e.t \in {"response.output_item.added"} => ~announced(e.t)
     /\ e.t = "tool_calls" => (Names(e) <=> ~announced("tool_calls"))

ClientStreamLegal ==
  \A j \in DOMAIN got :
    /\ Terminal(got[j]) => j = Len(got)
    /\ IF client = "messages" THEN LegalMessages(j) ELSE LegalItems(j)

\* What is left of the output tokens reported: a Responses reply that ends with
\* response.incomplete reaches a Chat client, and the log, without them.
UsageTold == src.usage /\ ~(up = "responses" /\ client = "chat" /\ src.short)

\* A verdict says what happened.  An attempt that succeeded read a reply that
\* was whole, has sent the client its terminal and has counted the output tokens
\* the upstream reported, whichever event of whichever dialect carried them (but
\* see UsageTold); one that may be retried has sent nothing; one that broke off
\* has sent something, and not the end; the client's leaving is blamed only once
\* it has been sent something, or while nothing had come from the upstream.
VerdictJust ==
  LET ended == got # <<>> /\ Terminal(Last(got))
                         /\ Last(got).t \notin {"error", "response.failed"} IN
  /\ verdict = "success" => src.whole /\ ended /\ acc.usage = UsageTold
  /\ verdict = "retryable" => got = <<>>
  /\ verdict = "client_abort" => committed \/ (~begun /\ got = <<>>)
  /\ verdict = "truncated" => committed /\ ~ended

\* The text and the tool calls of the upstream reach the client: a prefix of
\* each at every moment, all of it when the attempt has succeeded.  The calls
\* of a Chat reply are claimed for a Messages client only if the reply holds
\* nothing else.
DeliveredAsSent ==
  (<<up, client>> = <<"chat", "messages">> => Calls = {} \/ Len(src.items) = 1) =>
    /\ IsPrefix(TextReceived, TextSent)
    /\ Len(CallsReceived) <= Len(CallsSent)
    /\ \A j \in DOMAIN CallsReceived : IsPrefix(CallsReceived[j], CallsSent[j])
    /\ verdict = "success" => TextReceived = TextSent /\ CallsReceived = CallsSent

\* The header goes out with the first output and not before: an upstream that
\* sends only pings, lifecycle events or an error can still be replaced by the
\* next candidate, and what is held back then has not reached the client.
CommitMeansOutput ==
  IF committed THEN acc.output /\ pending = <<>>
  ELSE got = <<>> /\ \A j \in DOMAIN pending : ~ProducesOutput(pending[j])

\* Tool calls reach the client in every dialect, Chat to Messages included.
ToolCallsReachClient == verdict = "success" => CallsReceived = CallsSent
=============================================================================
