------------------------ MODULE StreamDeliveryProofs ------------------------
(***************************************************************************)
(* What a streamed reply becomes for its client: the theorems about        *)
(* StreamRelay's DeliveredAsSent and ClientStreamLegal, for every pair of  *)
(* dialects and any number of items, deltas and events on the wire.        *)
(*                                                                         *)
(* A reader of a stream is a record of what it has been told (Told): where *)
(* it is, whether every event so far was legal, and the text, the calls    *)
(* and their arguments.  Three readers are compared: one that has read     *)
(* everything the upstream sent, one that has read what the relay has      *)
(* read, and one in the client's place.  The first holds what src says     *)
(* (InStep); the relay's converters keep the second and the third together *)
(* (Follows, Flows), one event and one chunk at a time; and what the       *)
(* client has been told stays a part of the reply, and is all of it at a   *)
(* success (Tells).  TellInv is the inductive invariant.                   *)
(***************************************************************************)
EXTENDS StreamRelayProofs

---------------------------------------------------------------------------
(* What has been told: a stream, read event by event.                      *)

\* After the events read so far: whether each of them was legal (ok) and, in
\* a Responses stream, one item was open at a time (single); whether anything
\* was said (any), the reply was opened (begun) and nothing more than its end
\* is to come (done); the blocks, items or calls announced (n), and the last
\* of them, if it is open (open, kind); the text's tokens, the calls' indexes
\* in the order they were named and the tokens of their arguments.
Untold(d) ==
  [d |-> d, ok |-> TRUE, single |-> TRUE, any |-> FALSE, begun |-> FALSE, done |-> FALSE,
   n |-> 0, open |-> FALSE, kind |-> "", text |-> <<>>, ids |-> <<>>,
   args |-> [i \in Nat |-> <<>>]]

Lexicon(d) ==
  CASE d = "messages" ->
         {"message_start", "ping", "content_block_start", "content_block_delta",
          "content_block_stop", "message_delta", "message_stop", "error"}
    [] d = "responses" ->
         {"response.created", "response.in_progress", "response.output_item.added",
          "response.content_part.added", "response.output_text.delta",
          "response.function_call_arguments.delta", "response.output_text.done",
          "response.content_part.done", "response.function_call_arguments.done",
          "response.output_item.done", "response.completed", "response.incomplete",
          "response.failed"}
    [] OTHER -> {"role", "content", "tool_calls", "refusal", "finish", "usage", "[DONE]", "error"}

Announces(e) ==
  \/ e.t \in {"content_block_start", "response.output_item.added"}
  \/ e.t = "tool_calls" /\ e.k = "id"
Shuts(e) == e.t \in {"content_block_stop", "response.output_text.done",
                     "response.content_part.done", "response.output_item.done"}
Content(e) == Announces(e) \/ CarriesText(e) \/ CarriesArguments(e)

MessagesGoOn(s, e) ==
  /\ e.t = "message_start" => ~s.any
  /\ e.t \in {"content_block_start", "content_block_delta", "content_block_stop"} => s.begun
  /\ Announces(e) => ~s.open /\ e.i = s.n
  /\ e.t \in {"content_block_delta", "content_block_stop"} => s.open /\ e.i = s.n - 1
  /\ CarriesText(e) => s.kind = "text"
  /\ CarriesArguments(e) => s.kind = "tool_use"
  /\ e.t \in {"message_delta", "message_stop"} => ~s.open
ResponsesGoOn(s, e) ==
  /\ e.t = "response.created" => s.begun \/ ~s.any
  /\ Content(e) => s.begun
  /\ Announces(e) => e.i = s.n
  /\ e.t \in {"response.output_text.delta", "response.output_item.done"} => e.i < s.n
  /\ CarriesArguments(e) => \E j \in 1 .. Len(s.ids) : s.ids[j] = e.i
ChatGoesOn(s, e) ==
  e.t = "tool_calls" => \/ e.k = "id" /\ e.i = s.n
                        \/ e.k = "" /\ e.i < s.n
MayFollow(s, e) ==
  /\ e.t \in Lexicon(s.d) /\ e.i \in Nat /\ e.n \in Nat
  /\ Names(e) => e.n = 0
  /\ CarriesArguments(e) => e.n # 0
  /\ Content(e) => ~s.done
  /\ s.d = "messages" => MessagesGoOn(s, e)
  /\ s.d = "responses" => ResponsesGoOn(s, e)
  /\ s.d = "chat" => ChatGoesOn(s, e)

OneAtATime(s, e) ==
  /\ Announces(e) => ~s.open
  /\ CarriesText(e) => s.open /\ s.kind = "message" /\ e.i = s.n - 1
  /\ CarriesArguments(e) => s.open /\ s.kind = "function_call" /\ e.i = s.n - 1

Tell(s, e) ==
  [d |-> s.d, ok |-> s.ok /\ MayFollow(s, e), single |-> s.single /\ OneAtATime(s, e),
   any |-> TRUE, begun |-> s.begun \/ e.t \in {"message_start", "response.created"},
   done |-> s.done \/ e.t = "finish" \/ Terminal(e),
   n |-> IF Announces(e) THEN s.n + 1 ELSE s.n,
   open |-> Announces(e) \/ (s.open /\ ~Shuts(e)),
   kind |-> IF Announces(e) THEN e.k ELSE s.kind,
   text |-> IF CarriesText(e) THEN Append(s.text, e.n) ELSE s.text,
   ids |-> IF Names(e) THEN Append(s.ids, e.i) ELSE s.ids,
   args |-> IF CarriesArguments(e) THEN [s.args EXCEPT ![e.i] = Append(@, e.n)] ELSE s.args]

Told(s, events) ==
  LET told[i \in 0 .. Len(events)] == IF i = 0 THEN s ELSE Tell(told[i - 1], events[i])
  IN told[Len(events)]

CallOpen(s) ==
  \/ s.d = "messages" /\ s.kind = "tool_use"
  \/ s.d = "responses" /\ s.kind = "function_call"

\* What every legal beginning of a stream has in common.
Sane(s) ==
  /\ s.d \in Dialects /\ s.ok = TRUE /\ s.single \in BOOLEAN /\ s.any \in BOOLEAN
  /\ s.begun \in BOOLEAN /\ s.done \in BOOLEAN /\ s.open \in BOOLEAN /\ s.n \in Nat
  /\ s.text \in Seq(Nat) /\ s.ids \in Seq(Nat) /\ s.args \in [Nat -> Seq(Nat)]
  /\ s.begun \/ s.done => s.any
  /\ s.n > 0 /\ s.d # "chat" => s.begun
  /\ s.open => s.n > 0
  /\ \A j \in 1 .. Len(s.ids) : s.ids[j] < s.n
  /\ \A j, k \in 1 .. Len(s.ids) : j < k => s.ids[j] < s.ids[k]
  /\ \A i \in Nat : (\A j \in 1 .. Len(s.ids) : s.ids[j] # i) => s.args[i] = <<>>
  /\ s.open /\ CallOpen(s) => Len(s.ids) > 0 /\ s.n - 1 = s.ids[Len(s.ids)]
  /\ s.d = "chat" => Len(s.ids) = s.n /\ \A j \in 1 .. s.n : s.ids[j] = j - 1

SameTold(g, h) == h.text = g.text /\ h.ids = g.ids /\ h.args = g.args
Plainly(g) == g.n = 0 \/ (g.n = 1 /\ g.text = <<>>)

M2RFollows(c, g, h) ==
  /\ SameTold(g, h)
  /\ ~c.terminal => /\ c.item = g.n - 1 /\ h.n = g.n
                    /\ g.begun = c.created /\ h.begun = c.created

R2CFollows(c, g, h) ==
  /\ SameTold(g, h)
  /\ ~c.terminal => /\ c.messages \in Nat
                    /\ c.messages = 0 => g.n = h.n /\ (c.calls = {} <=> g.n = 0)
                    /\ c.messages # 0 => h.n = 0 /\ c.calls = {} /\ g.n # 0

\* Items that overlap are dropped, so that the equality holds only without.
R2MFollows(c, g, h) ==
  /\ g.single => SameTold(g, h)
  /\ ~c.terminal =>
       /\ g.begun = c.started /\ h.begun = c.started
       /\ c.block = h.n - 1 /\ h.open = c.open
       /\ c.open => /\ c.stopped = FALSE /\ c.kind \in {"message", "function_call"}
                    /\ h.kind = IF c.kind = "message" THEN "text" ELSE "tool_use"
       /\ g.single => g.n = h.n /\ g.open = c.open /\ (g.open => g.kind = c.kind)

\* The calls are known by the indexes of their items.
C2RFollows(c, g, h) ==
  /\ h.text = g.text /\ h.ids = c.calls /\ Len(h.ids) = g.n
  /\ \A j \in 1 .. g.n : h.args[h.ids[j]] = g.args[j - 1]
  /\ Plainly(g) => h.single
  /\ ~c.terminal =>
       /\ c.finish \in FinishReasons => g.done
       /\ h.n = c.next /\ c.message \in -1 .. c.next - 1
       /\ h.n = IF c.message = -1 THEN g.n ELSE g.n + 1
       /\ c.message = -1 <=> g.text = <<>>
       /\ c.started \in BOOLEAN /\ (c.started <=> g.n # 0)
       /\ h.begun <=> c.started \/ c.message # -1
       /\ h.any => h.begun
       /\ Plainly(g) /\ h.n = 1 =>
            h.open /\ h.kind = IF g.n = 1 THEN "function_call" ELSE "message"

\* A converter that has been given what g has read has put out what h has read.
Follows(c, g, h) ==
  /\ Sane(g) /\ Sane(h) /\ g.d = From(c) /\ h.d = To(c)
  /\ c.terminal => g.done
  /\ h.done => c.terminal
  /\ h.any => g.any
  /\ c.name = "m2r" => M2RFollows(c, g, h)
  /\ c.name = "r2c" => R2CFollows(c, g, h)
  /\ c.name = "r2m" => R2MFollows(c, g, h)
  /\ c.name = "c2r" => C2RFollows(c, g, h)

---------------------------------------------------------------------------
(* Reading on.                                                             *)

ToldBy(s, ev, m, g) ==
  g = [i \in 0 .. m |-> IF i = 0 THEN s ELSE Tell(g[i - 1], ev[i])]

\* The function by which Told is defined exists.
LEMMA ToldExists ==
  ASSUME NEW s, NEW ev, NEW n \in Nat PROVE \E g : ToldBy(s, ev, n, g)
<1> DEFINE S == {m \in Nat : \E g : ToldBy(s, ev, m, g)}
<1>1. 0 \in S
  <2>1. ToldBy(s, ev, 0, [i \in 0 .. 0 |-> s])
    BY DEF ToldBy
  <2> QED BY <2>1
<1>2. ASSUME NEW m \in Nat, m \in S PROVE m + 1 \in S
  <2>1. PICK g : ToldBy(s, ev, m, g)
    BY <1>2
  <2> DEFINE h == [i \in 0 .. m + 1 |-> IF i = m + 1 THEN Tell(g[m], ev[m + 1]) ELSE g[i]]
  <2>2. \A i \in 0 .. m : h[i] = g[i]
    OBVIOUS
  <2>3. ASSUME NEW i \in 0 .. m + 1
        PROVE  h[i] = IF i = 0 THEN s ELSE Tell(h[i - 1], ev[i])
    <3>1. CASE i = m + 1
      <4>1. i # 0 /\ i - 1 = m /\ m \in 0 .. m
        BY <3>1
      <4>2. h[i] = Tell(g[m], ev[m + 1])
        BY <3>1
      <4> QED BY <2>2, <3>1, <4>1, <4>2
    <3>2. CASE i # m + 1
      <4>1. i \in 0 .. m /\ (i # 0 => i - 1 \in 0 .. m)
        BY <3>2
      <4>2. g[i] = IF i = 0 THEN s ELSE Tell(g[i - 1], ev[i])
        BY <2>1, <4>1 DEF ToldBy
      <4> HIDE DEF h
      <4> QED BY <2>2, <4>1, <4>2
    <3> QED BY <3>1, <3>2
  <2>4. h = [i \in 0 .. m + 1 |-> h[i]]
    OBVIOUS
  <2> HIDE DEF h
  <2>5. ToldBy(s, ev, m + 1, h)
    BY <2>3, <2>4 DEF ToldBy
  <2> QED BY <2>5
<1>3. S \in SUBSET Nat
  OBVIOUS
<1> HIDE DEF S
<1>4. \A i \in 0 .. n : i \in S
  BY <1>1, <1>2, <1>3, Induction
<1> QED BY <1>4 DEF S

\* The stream read up to each of its events.
ToldAs(s, ev, g) ==
  /\ Told(s, ev) = g[Len(ev)] /\ g[0] = s
  /\ \A i \in 1 .. Len(ev) : g[i] = Tell(g[i - 1], ev[i])

\* Told is what the reader holds after the last event.
LEMMA ToldIs == ASSUME NEW s, NEW ev, Len(ev) \in Nat PROVE \E g : ToldAs(s, ev, g)
<1> DEFINE g == CHOOSE f : ToldBy(s, ev, Len(ev), f)
<1>1. ToldBy(s, ev, Len(ev), g)
  BY ToldExists
<1>2. Told(s, ev) = g[Len(ev)]
  BY DEF Told, ToldBy
<1> HIDE DEF g
<1>3. g[0] = s
  BY <1>1 DEF ToldBy
<1>4. \A i \in 1 .. Len(ev) : g[i] = Tell(g[i - 1], ev[i])
  BY <1>1 DEF ToldBy
<1>5. ToldAs(s, ev, g)
  BY <1>2, <1>3, <1>4 DEF ToldAs
<1> QED BY <1>5

\* A reader told nothing stays as it is.
LEMMA ToldNothing == ASSUME NEW s PROVE Told(s, <<>>) = s
<1>1. Len(<<>>) = 0
  OBVIOUS
<1> QED BY <1>1, ToldIs DEF ToldAs

\* What is told in two parts is told in one.
LEMMA ToldJoined ==
  ASSUME NEW s, NEW a, NEW b, IsSeq(a), IsSeq(b)
  PROVE  Told(s, a \o b) = Told(Told(s, a), b)
<1> DEFINE w == a \o b
           m == Len(a)
           n == Len(b)
<1>1. /\ m \in Nat /\ n \in Nat /\ Len(w) = m + n
      /\ \A j \in 1 .. m : w[j] = a[j]
      /\ \A j \in 1 .. n : w[m + j] = b[j]
  BY Joined DEF IsSeq
<1>2. PICK f : ToldAs(s, a, f)
  BY <1>1, ToldIs
<1>3. PICK g : ToldAs(Told(s, a), b, g)
  BY <1>1, ToldIs
<1>4. PICK h : ToldAs(s, w, h)
  <2>1. Len(w) \in Nat
    BY <1>1
  <2> HIDE DEF w
  <2> QED BY <2>1, ToldIs
<1> HIDE DEF w, m, n
<1> DEFINE S == {i \in Nat : h[i] = f[i]}
           T == {i \in Nat : h[m + i] = g[i]}
<1>5. \A i \in 0 .. m : i \in S
  <2>1. 0 \in S
    BY <1>2, <1>4 DEF ToldAs
  <2>2. ASSUME NEW i \in Nat, i \in S, i < m PROVE i + 1 \in S
    <3>1. i + 1 \in 1 .. m /\ i + 1 \in 1 .. m + n /\ (i + 1) - 1 = i
      BY <1>1, <2>2
    <3>2. h[i] = f[i]
      BY <2>2
    <3>3. h[i + 1] = Tell(h[i], w[i + 1]) /\ f[i + 1] = Tell(f[i], a[i + 1]) /\ w[i + 1] = a[i + 1]
      BY <1>1, <1>2, <1>4, <3>1 DEF ToldAs, m
    <3> QED BY <3>2, <3>3
  <2>3. S \in SUBSET Nat
    OBVIOUS
  <2> HIDE DEF S
  <2> QED BY <1>1, <2>1, <2>2, <2>3, Induction
<1>6. \A i \in 0 .. n : i \in T
  <2>1. 0 \in T
    <3>1. m \in S
      BY <1>1, <1>5
    <3> QED BY <1>1, <1>2, <1>3, <3>1 DEF ToldAs, m
  <2>2. ASSUME NEW i \in Nat, i \in T, i < n PROVE i + 1 \in T
    <3>1. i + 1 \in 1 .. n /\ m + (i + 1) \in 1 .. m + n /\ (i + 1) - 1 = i /\ (m + (i + 1)) - 1 = m + i
      BY <1>1, <2>2
    <3>2. h[m + i] = g[i]
      BY <2>2
    <3>3. /\ h[m + (i + 1)] = Tell(h[m + i], w[m + (i + 1)])
          /\ g[i + 1] = Tell(g[i], b[i + 1]) /\ w[m + (i + 1)] = b[i + 1]
      BY <1>1, <1>3, <1>4, <3>1 DEF ToldAs, n
    <3> QED BY <3>2, <3>3
  <2>3. T \in SUBSET Nat
    OBVIOUS
  <2> HIDE DEF S, T
  <2> QED BY <1>1, <2>1, <2>2, <2>3, Induction
<1>7. n \in T
  BY <1>1, <1>6
<1> QED BY <1>1, <1>3, <1>4, <1>7 DEF ToldAs, w, n

\* A stream of one event, of two, of three.
LEMMA ToldOne == ASSUME NEW s, NEW e PROVE Told(s, <<e>>) = Tell(s, e) /\ IsSeq(<<e>>)
<1>1. Len(<<e>>) = 1 /\ <<e>>[1] = e /\ IsSeq(<<e>>)
  BY Single
<1>2. PICK g : ToldAs(s, <<e>>, g)
  BY <1>1, ToldIs
<1> QED BY <1>1, <1>2 DEF ToldAs

LEMMA ToldPair ==
  ASSUME NEW s, NEW e, NEW f PROVE Told(s, <<e, f>>) = Tell(Tell(s, e), f) /\ IsSeq(<<e, f>>)
<1>1. IsSeq(<<e>>) /\ IsSeq(<<f>>) /\ <<e, f>> = <<e>> \o <<f>>
  BY ToldOne, PairIs
<1>2. Told(s, <<e>> \o <<f>>) = Told(Told(s, <<e>>), <<f>>) /\ IsSeq(<<e>> \o <<f>>)
  BY <1>1, ToldJoined, Joined
<1> QED BY <1>1, <1>2, ToldOne

LEMMA ToldTriple ==
  ASSUME NEW s, NEW e, NEW f, NEW x
  PROVE  Told(s, <<e, f, x>>) = Tell(Tell(Tell(s, e), f), x) /\ IsSeq(<<e, f, x>>)
<1>1. IsSeq(<<e, f>>) /\ IsSeq(<<x>>) /\ <<e, f, x>> = <<e, f>> \o <<x>>
  BY ToldOne, ToldPair, TripleIs
<1>2. Told(s, <<e, f>> \o <<x>>) = Told(Told(s, <<e, f>>), <<x>>) /\ IsSeq(<<e, f>> \o <<x>>)
  BY <1>1, ToldJoined, Joined
<1>3. Told(Told(s, <<e, f>>), <<x>>) = Tell(Told(s, <<e, f>>), x)
  BY ToldOne
<1>4. Told(s, <<e, f>>) = Tell(Tell(s, e), f)
  BY ToldPair
<1> DEFINE two == <<e, f>>
           three == <<e, f, x>>
<1>5. two \o <<x>> = three
  BY <1>1
<1> HIDE DEF two, three
<1>6. Told(s, three) = Tell(Told(s, two), x) /\ IsSeq(three)
  BY <1>2, <1>3, <1>5 DEF two
<1> QED BY <1>4, <1>6 DEF two, three

---------------------------------------------------------------------------
(* One event read.                                                         *)

\* What telling an event changes.
LEMMA TellSays ==
  ASSUME NEW s, NEW e, NEW t, t = Tell(s, e)
  PROVE  /\ t.d = s.d /\ t.any = TRUE
         /\ t.ok = (s.ok /\ MayFollow(s, e))
         /\ t.single = (s.single /\ OneAtATime(s, e))
         /\ t.begun = (s.begun \/ e.t \in {"message_start", "response.created"})
         /\ t.done = (s.done \/ e.t = "finish" \/ Terminal(e))
         /\ t.n = IF Announces(e) THEN s.n + 1 ELSE s.n
         /\ t.open = (Announces(e) \/ (s.open /\ ~Shuts(e)))
         /\ t.kind = IF Announces(e) THEN e.k ELSE s.kind
         /\ t.text = IF CarriesText(e) THEN Append(s.text, e.n) ELSE s.text
         /\ t.ids = IF Names(e) THEN Append(s.ids, e.i) ELSE s.ids
         /\ t.args = IF CarriesArguments(e) THEN [s.args EXCEPT ![e.i] = Append(@, e.n)] ELSE s.args
  BY DEF Tell

\* Where the next announcement belongs, and the next argument.
LEMMA WherePlaced ==
  ASSUME NEW s, NEW e, Sane(s), MayFollow(s, e)
  PROVE  /\ e.i \in Nat /\ e.n \in Nat
         /\ Names(e) => Announces(e)
         /\ Announces(e) => /\ e.i = s.n /\ ~CarriesText(e) /\ ~CarriesArguments(e) /\ ~Shuts(e)
                            /\ s.d # "chat" => s.begun
                            /\ s.d = "chat" => Names(e) /\ e.k = "id"
                            /\ s.d = "messages" /\ e.k = "tool_use" => Names(e)
                            /\ s.d = "responses" /\ e.k = "function_call" => Names(e)
         /\ CarriesText(e) => ~CarriesArguments(e)
         /\ CarriesArguments(e) => \E j \in 1 .. Len(s.ids) : s.ids[j] = e.i
<1>1. e.i \in Nat /\ e.n \in Nat /\ e.t \in Lexicon(s.d) /\ s.d \in Dialects
  BY DEF MayFollow, Sane
<1>2. CASE s.d = "messages"
  <2>1. MessagesGoOn(s, e) /\ s.n \in Nat
    BY <1>2 DEF MayFollow, Sane
  <2>2. e.t \in {"message_start", "ping", "content_block_start", "content_block_delta",
                 "content_block_stop", "message_delta", "message_stop", "error"}
    BY <1>1, <1>2 DEF Lexicon
  <2>3. CarriesArguments(e) => \E j \in 1 .. Len(s.ids) : s.ids[j] = e.i
    <3>1. ASSUME CarriesArguments(e) PROVE \E j \in 1 .. Len(s.ids) : s.ids[j] = e.i
      <4>1. s.open /\ s.kind = "tool_use" /\ e.i = s.n - 1
        BY <2>1, <2>2, <3>1 DEF MessagesGoOn, CarriesArguments
      <4>2. Len(s.ids) > 0 /\ s.n - 1 = s.ids[Len(s.ids)] /\ Len(s.ids) \in Nat
        BY <1>2, <4>1 DEF Sane, CallOpen
      <4> QED BY <4>1, <4>2
    <3> QED BY <3>1
  <2> QED
    BY <1>1, <1>2, <2>1, <2>2, <2>3
       DEF MessagesGoOn, Announces, Names, CarriesText, CarriesArguments, Shuts
<1>3. CASE s.d = "responses"
  <2>1. ResponsesGoOn(s, e)
    BY <1>3 DEF MayFollow
  <2>2. e.t \in {"response.created", "response.in_progress", "response.output_item.added",
                 "response.content_part.added", "response.output_text.delta",
                 "response.function_call_arguments.delta", "response.output_text.done",
                 "response.content_part.done", "response.function_call_arguments.done",
                 "response.output_item.done", "response.completed", "response.incomplete",
                 "response.failed"}
    BY <1>1, <1>3 DEF Lexicon
  <2> QED
    BY <1>1, <1>3, <2>1, <2>2
       DEF ResponsesGoOn, Announces, Names, CarriesText, CarriesArguments, Shuts, Content
<1>4. CASE s.d = "chat"
  <2>1. ChatGoesOn(s, e)
    BY <1>4 DEF MayFollow
  <2>2. e.t \in {"role", "content", "tool_calls", "refusal", "finish", "usage", "[DONE]", "error"}
    BY <1>1, <1>4 DEF Lexicon
  <2>3. CarriesArguments(e) => \E j \in 1 .. Len(s.ids) : s.ids[j] = e.i
    <3>1. ASSUME CarriesArguments(e) PROVE \E j \in 1 .. Len(s.ids) : s.ids[j] = e.i
      <4>1. e.i < s.n /\ s.n \in Nat
        BY <2>1, <2>2, <3>1 DEF ChatGoesOn, CarriesArguments, Sane
      <4>2. Len(s.ids) = s.n /\ \A j \in 1 .. s.n : s.ids[j] = j - 1
        BY <1>4 DEF Sane
      <4>3. e.i + 1 \in 1 .. Len(s.ids) /\ s.ids[e.i + 1] = e.i
        BY <1>1, <4>1, <4>2
      <4> QED BY <4>3
    <3> QED BY <3>1
  <2> QED
    BY <1>1, <1>4, <2>1, <2>2, <2>3
       DEF ChatGoesOn, Announces, Names, CarriesText, CarriesArguments, Shuts
<1> QED BY <1>1, <1>2, <1>3, <1>4 DEF Dialects

\* A legal event keeps the stream legal.
LEMMA SaneOne ==
  ASSUME NEW s, NEW e, Sane(s), MayFollow(s, e)
  PROVE  Sane(Tell(s, e))
<1> DEFINE t == Tell(s, e)
<1>1. /\ t.d = s.d /\ t.any = TRUE
      /\ t.ok = (s.ok /\ MayFollow(s, e))
      /\ t.single = (s.single /\ OneAtATime(s, e))
      /\ t.begun = (s.begun \/ e.t \in {"message_start", "response.created"})
      /\ t.done = (s.done \/ e.t = "finish" \/ Terminal(e))
      /\ t.n = IF Announces(e) THEN s.n + 1 ELSE s.n
      /\ t.open = (Announces(e) \/ (s.open /\ ~Shuts(e)))
      /\ t.kind = IF Announces(e) THEN e.k ELSE s.kind
      /\ t.text = IF CarriesText(e) THEN Append(s.text, e.n) ELSE s.text
      /\ t.ids = IF Names(e) THEN Append(s.ids, e.i) ELSE s.ids
      /\ t.args = IF CarriesArguments(e) THEN [s.args EXCEPT ![e.i] = Append(@, e.n)] ELSE s.args
  BY TellSays
<1> HIDE DEF t
<1>15. /\ Announces(e) => t.n = s.n + 1
       /\ ~Announces(e) => t.n = s.n
  BY <1>1
<1>16. s.n \in Nat
  BY DEF Sane
<1>17. s.ids \in Seq(Nat) /\ Len(s.ids) \in Nat
  <2>1. s.ids \in Seq(Nat)
    BY DEF Sane
  <2> QED BY <2>1, LenProperties
<1>2. /\ e.i \in Nat /\ e.n \in Nat
      /\ Names(e) => Announces(e)
      /\ Announces(e) => /\ e.i = s.n
                         /\ s.d # "chat" => s.begun
                         /\ s.d = "chat" => Names(e) /\ e.k = "id"
                         /\ s.d = "messages" /\ e.k = "tool_use" => Names(e)
                         /\ s.d = "responses" /\ e.k = "function_call" => Names(e)
      /\ CarriesArguments(e) => \E j \in 1 .. Len(s.ids) : s.ids[j] = e.i
  BY WherePlaced
<1>3. /\ s.d \in Dialects /\ s.ok = TRUE /\ s.n \in Nat /\ s.text \in Seq(Nat)
      /\ s.ids \in Seq(Nat) /\ s.args \in [Nat -> Seq(Nat)] /\ Len(s.ids) \in Nat
      /\ s.n > 0 /\ s.d # "chat" => s.begun
      /\ s.open => s.n > 0
  <2>1. /\ s.d \in Dialects /\ s.ok = TRUE /\ s.n \in Nat /\ s.text \in Seq(Nat)
        /\ s.ids \in Seq(Nat) /\ s.args \in [Nat -> Seq(Nat)]
        /\ s.n > 0 /\ s.d # "chat" => s.begun
        /\ s.open => s.n > 0
    BY DEF Sane
  <2> QED BY <2>1, LenProperties
<1>4. /\ t.d \in Dialects /\ t.ok = TRUE /\ t.single \in BOOLEAN /\ t.any \in BOOLEAN
      /\ t.begun \in BOOLEAN /\ t.done \in BOOLEAN /\ t.open \in BOOLEAN /\ t.n \in Nat
  <2>1. t.ok = TRUE
    BY <1>1, <1>3
  <2>2. t.single \in BOOLEAN
    BY <1>1
  <2>3. t.begun \in BOOLEAN
    BY <1>1
  <2>4. t.done \in BOOLEAN
    BY <1>1
  <2>5. t.open \in BOOLEAN
    BY <1>1
  <2>6. t.n \in Nat
    BY <1>15, <1>16
  <2> QED BY <1>1, <1>3, <2>1, <2>2, <2>3, <2>4, <2>5, <2>6
<1>5. t.text \in Seq(Nat) /\ t.ids \in Seq(Nat)
  BY <1>1, <1>2, <1>3
<1>6. t.args \in [Nat -> Seq(Nat)]
  <2>1. CASE CarriesArguments(e)
    <3>1. s.args[e.i] \in Seq(Nat)
      BY <1>2, <1>3
    <3>2. Append(s.args[e.i], e.n) \in Seq(Nat)
      BY <1>2, <3>1, AppendProperties
    <3> QED BY <1>1, <1>2, <1>3, <2>1, <3>2
  <2>2. CASE ~CarriesArguments(e)
    BY <1>1, <1>3, <2>2
  <2> QED BY <2>1, <2>2
<1>7. /\ t.begun \/ t.done => t.any
      /\ t.n > 0 /\ t.d # "chat" => t.begun
      /\ t.open => t.n > 0
  <2>1. t.n > 0 /\ t.d # "chat" => t.begun
    BY <1>1, <1>2, <1>3
  <2>2. t.open => t.n > 0
    <3>1. CASE Announces(e)
      BY <1>15, <1>16, <3>1
    <3>2. CASE ~Announces(e)
      <4>1. t.n = s.n /\ t.open = (s.open /\ ~Shuts(e))
        BY <1>1, <3>2
      <4> QED BY <1>3, <4>1
    <3> QED BY <3>1, <3>2
  <2> QED BY <1>1, <2>1, <2>2
<1>8. /\ Len(t.ids) = IF Names(e) THEN Len(s.ids) + 1 ELSE Len(s.ids)
      /\ \A j \in 1 .. Len(s.ids) : t.ids[j] = s.ids[j]
      /\ Names(e) => t.ids[Len(t.ids)] = e.i
  <2>1. CASE Names(e)
    <3>1. t.ids = Append(s.ids, e.i)
      BY <1>1, <2>1
    <3>2. e.i \in Nat
      BY <1>2
    <3>3. /\ Len(Append(s.ids, e.i)) = Len(s.ids) + 1
          /\ \A j \in 1 .. Len(s.ids) : Append(s.ids, e.i)[j] = s.ids[j]
          /\ Append(s.ids, e.i)[Len(s.ids) + 1] = e.i
      BY <1>17, <3>2, AppendProperties
    <3> QED BY <2>1, <3>1, <3>3
  <2>2. CASE ~Names(e)
    <3>1. t.ids = s.ids
      BY <1>1, <2>2
    <3> QED BY <2>2, <3>1
  <2> QED BY <2>1, <2>2
<1>0. \A j \in 1 .. Len(s.ids) : s.ids[j] < s.n /\ s.ids[j] \in Nat
  <2>1. \A j \in 1 .. Len(s.ids) : s.ids[j] \in Nat
    BY <1>3, ElementOfSeq
  <2>2. \A j \in 1 .. Len(s.ids) : s.ids[j] < s.n
    BY DEF Sane
  <2> QED BY <2>1, <2>2
<1>9. \A j \in 1 .. Len(t.ids) : t.ids[j] < t.n
  <2>1. CASE Names(e)
    <3>1. e.i = s.n /\ t.n = s.n + 1
      BY <1>1, <1>2, <2>1
    <3>2. Len(t.ids) = Len(s.ids) + 1 /\ t.ids[Len(s.ids) + 1] = s.n
      BY <1>8, <2>1, <3>1
    <3>3. \A j \in 1 .. Len(t.ids) : j \in 1 .. Len(s.ids) \/ j = Len(s.ids) + 1
      BY <1>17, <3>2
    <3>4. \A j \in 1 .. Len(s.ids) : t.ids[j] = s.ids[j]
      BY <1>8
    <3> QED BY <1>0, <1>16, <3>1, <3>2, <3>3, <3>4
  <2>2. CASE ~Names(e)
    <3>1. t.ids = s.ids
      BY <1>1, <2>2
    <3> QED BY <1>0, <1>15, <1>16, <3>1
  <2> QED BY <2>1, <2>2
<1>10. \A j, k \in 1 .. Len(t.ids) : j < k => t.ids[j] < t.ids[k]
  <2>2. \A j, k \in 1 .. Len(s.ids) : j < k => s.ids[j] < s.ids[k]
    BY DEF Sane
  <2>3. CASE Names(e)
    <3>1. e.i = s.n
      BY <1>2, <2>3
    <3>2. ASSUME NEW j \in 1 .. Len(t.ids), NEW k \in 1 .. Len(t.ids), j < k
          PROVE  t.ids[j] < t.ids[k]
      <4>1. j \in 1 .. Len(s.ids) /\ (k \in 1 .. Len(s.ids) \/ k = Len(t.ids))
        <5>1. Len(t.ids) = Len(s.ids) + 1
          BY <1>8, <2>3
        <5> QED BY <1>17, <3>2, <5>1
      <4> QED BY <1>0, <1>8, <2>2, <2>3, <3>1, <3>2, <4>1
    <3> QED BY <3>2
  <2>4. CASE ~Names(e)
    BY <1>1, <2>2, <2>4
  <2> QED BY <2>3, <2>4
<1>11. \A i \in Nat : (\A j \in 1 .. Len(t.ids) : t.ids[j] # i) => t.args[i] = <<>>
  <2>1. ASSUME NEW i \in Nat, \A j \in 1 .. Len(t.ids) : t.ids[j] # i PROVE t.args[i] = <<>>
    <3>1. \A j \in 1 .. Len(s.ids) : s.ids[j] # i
      <4>1. \A j \in 1 .. Len(s.ids) : j \in 1 .. Len(t.ids)
        BY <1>3, <1>8
      <4> QED BY <1>8, <2>1, <4>1
    <3>2. s.args[i] = <<>>
      BY <3>1 DEF Sane
    <3>3. CarriesArguments(e) => e.i # i
      BY <1>2, <3>1
    <3> QED BY <1>1, <1>2, <1>3, <3>2, <3>3
  <2> QED BY <2>1
<1>12. t.open /\ CallOpen(t) => Len(t.ids) > 0 /\ t.n - 1 = t.ids[Len(t.ids)]
  <2>1. CASE Announces(e)
    <3>1. ASSUME CallOpen(t) PROVE Names(e)
      BY <1>1, <1>2, <2>1, <3>1 DEF CallOpen
    <3>2. t.n = s.n + 1 /\ e.i = s.n
      BY <1>1, <1>2, <2>1
    <3>3. CallOpen(t) => Len(t.ids) = Len(s.ids) + 1 /\ t.ids[Len(t.ids)] = e.i
      BY <1>8, <3>1
    <3> QED BY <1>16, <1>17, <3>2, <3>3
  <2>2. CASE ~Announces(e)
    <3>1. t.n = s.n /\ t.kind = s.kind /\ t.d = s.d /\ t.ids = s.ids /\ (t.open => s.open)
      BY <1>1, <1>2, <2>2
    <3>2. CallOpen(t) => CallOpen(s)
      BY <3>1 DEF CallOpen
    <3>3. s.open /\ CallOpen(s) => Len(s.ids) > 0 /\ s.n - 1 = s.ids[Len(s.ids)]
      BY DEF Sane
    <3> QED BY <3>1, <3>2, <3>3
  <2> QED BY <2>1, <2>2
<1>13. t.d = "chat" => Len(t.ids) = t.n /\ \A j \in 1 .. t.n : t.ids[j] = j - 1
  <2>1. ASSUME s.d = "chat" PROVE Len(t.ids) = t.n /\ \A j \in 1 .. t.n : t.ids[j] = j - 1
    <3>1. Len(s.ids) = s.n /\ \A j \in 1 .. s.n : s.ids[j] = j - 1
      BY <2>1 DEF Sane
    <3>2. Announces(e) <=> Names(e)
      BY <1>2, <2>1
    <3>3. CASE Names(e)
      <4>1. t.n = s.n + 1 /\ e.i = s.n
        BY <1>1, <1>2, <3>3
      <4>2. Len(t.ids) = Len(s.ids) + 1 /\ t.ids[Len(s.ids) + 1] = s.n
        BY <1>8, <3>3, <4>1
      <4>3. \A j \in 1 .. Len(s.ids) : t.ids[j] = s.ids[j]
        BY <1>8
      <4>4. \A j \in 1 .. t.n : j \in 1 .. s.n \/ j = s.n + 1
        BY <1>16, <4>1
      <4>5. ASSUME NEW j \in 1 .. t.n PROVE t.ids[j] = j - 1
        <5>1. CASE j \in 1 .. s.n
          BY <3>1, <4>3, <5>1
        <5>2. CASE j = s.n + 1
          BY <1>16, <3>1, <4>2, <5>2
        <5> QED BY <4>4, <5>1, <5>2
      <4>6. Len(t.ids) = t.n
        BY <3>1, <4>1, <4>2
      <4> QED BY <4>5, <4>6
    <3>4. CASE ~Names(e)
      BY <1>1, <3>1, <3>2, <3>4
    <3> QED BY <3>3, <3>4
  <2> QED BY <1>1, <2>1
<1>14. Sane(t)
  BY <1>4, <1>5, <1>6, <1>7, <1>9, <1>10, <1>11, <1>12, <1>13 DEF Sane
<1> QED BY <1>14 DEF t

\* What an event leaves alone: the place in the stream, the phase it is in.
KeptPlace(s, t) == t.n = s.n /\ t.open = s.open /\ t.kind = s.kind
KeptPhase(s, t) == t.begun = s.begun /\ t.done = s.done
HeardOn(s, t) == Sane(t) /\ t.d = s.d /\ t.any = TRUE

\* What is new after an event.
NothingNew(s, t) ==
  /\ HeardOn(s, t) /\ KeptPlace(s, t) /\ KeptPhase(s, t) /\ SameTold(s, t) /\ t.single = s.single
BegunNow(s, t) ==
  /\ HeardOn(s, t) /\ KeptPlace(s, t) /\ SameTold(s, t) /\ t.single = s.single
  /\ t.begun = TRUE /\ t.done = s.done
OverNow(s, t) ==
  /\ HeardOn(s, t) /\ KeptPlace(s, t) /\ SameTold(s, t) /\ t.single = s.single
  /\ t.begun = s.begun /\ t.done = TRUE
ShutNow(s, t) ==
  /\ HeardOn(s, t) /\ KeptPhase(s, t) /\ SameTold(s, t) /\ t.single = s.single
  /\ t.n = s.n /\ t.kind = s.kind /\ t.open = FALSE
OneAnnounced(s, e, t) ==
  /\ HeardOn(s, t) /\ KeptPhase(s, t)
  /\ t.single = (s.single /\ ~s.open)
  /\ t.n = s.n + 1 /\ t.open = TRUE /\ t.kind = e.k
  /\ t.text = s.text /\ t.args = s.args
  /\ t.ids = IF Names(e) THEN Append(s.ids, s.n) ELSE s.ids
TextMore(s, e, t) ==
  /\ HeardOn(s, t) /\ KeptPlace(s, t) /\ KeptPhase(s, t)
  /\ t.single = (s.single /\ s.open /\ s.kind = "message" /\ e.i = s.n - 1)
  /\ t.text = Append(s.text, e.n) /\ t.ids = s.ids /\ t.args = s.args
ArgumentsMore(s, e, t) ==
  /\ HeardOn(s, t) /\ KeptPlace(s, t) /\ KeptPhase(s, t)
  /\ t.single = (s.single /\ s.open /\ s.kind = "function_call" /\ e.i = s.n - 1)
  /\ t.text = s.text /\ t.ids = s.ids
  /\ t.args = [s.args EXCEPT ![e.i] = Append(@, e.n)]

\* The kinds of events.
Idle(e) == /\ ~Announces(e) /\ ~Shuts(e) /\ ~CarriesText(e) /\ ~CarriesArguments(e) /\ ~Names(e)
           /\ ~Terminal(e) /\ e.t \notin {"finish", "message_start", "response.created"}

\* The types of a legal beginning.
LEMMA SaneHas ==
  ASSUME NEW s, Sane(s)
  PROVE  /\ s.single \in BOOLEAN /\ s.any \in BOOLEAN /\ s.begun \in BOOLEAN /\ s.done \in BOOLEAN
         /\ s.open \in BOOLEAN /\ s.n \in Nat /\ s.text \in Seq(Nat) /\ s.ids \in Seq(Nat)
         /\ s.args \in [Nat -> Seq(Nat)] /\ Len(s.ids) \in Nat
<1>1. /\ s.single \in BOOLEAN /\ s.any \in BOOLEAN /\ s.begun \in BOOLEAN /\ s.done \in BOOLEAN
      /\ s.open \in BOOLEAN /\ s.n \in Nat /\ s.text \in Seq(Nat) /\ s.ids \in Seq(Nat)
      /\ s.args \in [Nat -> Seq(Nat)]
  BY DEF Sane
<1> QED BY <1>1, LenProperties

\* What telling an event changes, part by part.
PlaceSaid(s, e, t) ==
  /\ t.n = IF Announces(e) THEN s.n + 1 ELSE s.n
  /\ t.open = (Announces(e) \/ (s.open /\ ~Shuts(e)))
  /\ t.kind = IF Announces(e) THEN e.k ELSE s.kind
PhaseSaid(s, e, t) ==
  /\ t.begun = (s.begun \/ e.t \in {"message_start", "response.created"})
  /\ t.done = (s.done \/ e.t = "finish" \/ Terminal(e))
WordsSaid(s, e, t) ==
  /\ t.text = IF CarriesText(e) THEN Append(s.text, e.n) ELSE s.text
  /\ t.ids = IF Names(e) THEN Append(s.ids, e.i) ELSE s.ids
  /\ t.args = IF CarriesArguments(e) THEN [s.args EXCEPT ![e.i] = Append(@, e.n)] ELSE s.args

\* All that one legal event changes, part by part.
LEMMA TellParts ==
  ASSUME NEW s, NEW e, NEW t, t = Tell(s, e), Sane(s), MayFollow(s, e)
  PROVE  /\ HeardOn(s, t) /\ t.single = (s.single /\ OneAtATime(s, e))
         /\ PlaceSaid(s, e, t) /\ PhaseSaid(s, e, t) /\ WordsSaid(s, e, t)
<1>1. t.d = s.d /\ t.any = TRUE /\ t.single = (s.single /\ OneAtATime(s, e))
  BY TellSays
<1>2. PlaceSaid(s, e, t)
  BY DEF Tell, PlaceSaid
<1>3. PhaseSaid(s, e, t)
  BY DEF Tell, PhaseSaid
<1>4. WordsSaid(s, e, t)
  BY DEF Tell, WordsSaid
<1> QED BY <1>1, <1>2, <1>3, <1>4, SaneOne DEF HeardOn

\* One event heard, by its kind: an idle one changes nothing.
LEMMA HearIdle ==
  ASSUME NEW s, NEW e, NEW t, t = Tell(s, e), Sane(s), MayFollow(s, e), Idle(e)
  PROVE  NothingNew(s, t)
<1>1. OneAtATime(s, e)
  BY DEF OneAtATime, Idle
<1>2. /\ HeardOn(s, t) /\ t.single = (s.single /\ OneAtATime(s, e))
      /\ PlaceSaid(s, e, t) /\ PhaseSaid(s, e, t) /\ WordsSaid(s, e, t)
  BY TellParts
<1>7. s.single \in BOOLEAN /\ s.open \in BOOLEAN /\ s.begun \in BOOLEAN /\ s.done \in BOOLEAN
  BY SaneHas
<1>3. t.single = s.single
  BY <1>1, <1>2, <1>7
<1>4. KeptPlace(s, t)
  BY <1>2, <1>7 DEF KeptPlace, Idle, PlaceSaid
<1>5. KeptPhase(s, t)
  BY <1>2, <1>7 DEF KeptPhase, Idle, PhaseSaid
<1>6. SameTold(s, t)
  BY <1>2 DEF SameTold, Idle, WordsSaid
<1> QED BY <1>2, <1>3, <1>4, <1>5, <1>6 DEF NothingNew

\* The event that opens the reply.
LEMMA HearBegin ==
  ASSUME NEW s, NEW e, NEW t, t = Tell(s, e), Sane(s), MayFollow(s, e),
         e.t \in {"message_start", "response.created"}
  PROVE  BegunNow(s, t)
<1>0. /\ ~Announces(e) /\ ~Shuts(e) /\ ~CarriesText(e) /\ ~CarriesArguments(e) /\ ~Names(e)
      /\ ~Terminal(e) /\ e.t # "finish"
  BY DEF Announces, Shuts, CarriesText, CarriesArguments, Names, Terminal
<1>1. OneAtATime(s, e)
  BY <1>0 DEF OneAtATime
<1>2. /\ HeardOn(s, t) /\ t.single = (s.single /\ OneAtATime(s, e))
      /\ PlaceSaid(s, e, t) /\ PhaseSaid(s, e, t) /\ WordsSaid(s, e, t)
  BY TellParts
<1>7. s.single \in BOOLEAN /\ s.open \in BOOLEAN /\ s.begun \in BOOLEAN /\ s.done \in BOOLEAN
  BY SaneHas
<1>3. t.single = s.single
  BY <1>1, <1>2, <1>7
<1>4. KeptPlace(s, t)
  BY <1>0, <1>2, <1>7 DEF KeptPlace, PlaceSaid
<1>5. t.begun = TRUE /\ t.done = s.done
  BY <1>0, <1>2, <1>7 DEF PhaseSaid
<1>6. SameTold(s, t)
  BY <1>0, <1>2 DEF SameTold, WordsSaid
<1> QED BY <1>2, <1>3, <1>4, <1>5, <1>6 DEF BegunNow

\* The event that ends it, or concludes it.
LEMMA HearEnd ==
  ASSUME NEW s, NEW e, NEW t, t = Tell(s, e), Sane(s), MayFollow(s, e), Terminal(e) \/ e.t = "finish"
  PROVE  OverNow(s, t)
<1>0. /\ ~Announces(e) /\ ~Shuts(e) /\ ~CarriesText(e) /\ ~CarriesArguments(e) /\ ~Names(e)
      /\ e.t \notin {"message_start", "response.created"}
  BY DEF Announces, Shuts, CarriesText, CarriesArguments, Names, Terminal
<1>1. OneAtATime(s, e)
  BY <1>0 DEF OneAtATime
<1>2. /\ HeardOn(s, t) /\ t.single = (s.single /\ OneAtATime(s, e))
      /\ PlaceSaid(s, e, t) /\ PhaseSaid(s, e, t) /\ WordsSaid(s, e, t)
  BY TellParts
<1>7. s.single \in BOOLEAN /\ s.open \in BOOLEAN /\ s.begun \in BOOLEAN /\ s.done \in BOOLEAN
  BY SaneHas
<1>3. t.single = s.single
  BY <1>1, <1>2, <1>7
<1>4. KeptPlace(s, t)
  BY <1>0, <1>2, <1>7 DEF KeptPlace, PlaceSaid
<1>5. t.begun = s.begun /\ t.done = TRUE
  BY <1>0, <1>2, <1>7 DEF PhaseSaid
<1>6. SameTold(s, t)
  BY <1>0, <1>2 DEF SameTold, WordsSaid
<1> QED BY <1>2, <1>3, <1>4, <1>5, <1>6 DEF OverNow

\* The event that closes a block or an item.
LEMMA HearShut ==
  ASSUME NEW s, NEW e, NEW t, t = Tell(s, e), Sane(s), MayFollow(s, e), Shuts(e)
  PROVE  ShutNow(s, t)
<1>0. /\ ~Announces(e) /\ ~CarriesText(e) /\ ~CarriesArguments(e) /\ ~Names(e)
      /\ ~Terminal(e) /\ e.t \notin {"finish", "message_start", "response.created"}
  BY DEF Announces, Shuts, CarriesText, CarriesArguments, Names, Terminal
<1>1. OneAtATime(s, e)
  BY <1>0 DEF OneAtATime
<1>2. /\ HeardOn(s, t) /\ t.single = (s.single /\ OneAtATime(s, e))
      /\ PlaceSaid(s, e, t) /\ PhaseSaid(s, e, t) /\ WordsSaid(s, e, t)
  BY TellParts
<1>7. s.single \in BOOLEAN /\ s.open \in BOOLEAN /\ s.begun \in BOOLEAN /\ s.done \in BOOLEAN
  BY SaneHas
<1>3. t.single = s.single
  BY <1>1, <1>2, <1>7
<1>4. t.n = s.n /\ t.kind = s.kind /\ t.open = FALSE
  BY <1>0, <1>2, <1>7 DEF PlaceSaid
<1>5. KeptPhase(s, t)
  BY <1>0, <1>2, <1>7 DEF KeptPhase, PhaseSaid
<1>6. SameTold(s, t)
  BY <1>0, <1>2 DEF SameTold, WordsSaid
<1> QED BY <1>2, <1>3, <1>4, <1>5, <1>6 DEF ShutNow

\* The event that announces a block, an item or a call.
LEMMA HearAnnounce ==
  ASSUME NEW s, NEW e, NEW t, t = Tell(s, e), Sane(s), MayFollow(s, e), Announces(e)
  PROVE  OneAnnounced(s, e, t)
<1>0. ~CarriesText(e) /\ ~CarriesArguments(e) /\ e.i = s.n
  BY WherePlaced
<1>9. ~Terminal(e) /\ e.t \notin {"finish", "message_start", "response.created"}
  BY DEF Announces, Terminal
<1>1. OneAtATime(s, e) <=> ~s.open
  BY <1>0 DEF OneAtATime
<1>2. /\ HeardOn(s, t) /\ t.single = (s.single /\ OneAtATime(s, e))
      /\ PlaceSaid(s, e, t) /\ PhaseSaid(s, e, t) /\ WordsSaid(s, e, t)
  BY TellParts
<1>7. s.single \in BOOLEAN /\ s.open \in BOOLEAN /\ s.begun \in BOOLEAN /\ s.done \in BOOLEAN
  BY SaneHas
<1>3. t.single = (s.single /\ ~s.open)
  BY <1>1, <1>2, <1>7
<1>4. t.n = s.n + 1 /\ t.kind = e.k /\ t.open = TRUE
  BY <1>0, <1>2, <1>7 DEF PlaceSaid
<1>5. KeptPhase(s, t)
  BY <1>9, <1>2, <1>7 DEF KeptPhase, PhaseSaid
<1>6. t.text = s.text /\ t.args = s.args /\ t.ids = IF Names(e) THEN Append(s.ids, s.n) ELSE s.ids
  BY <1>0, <1>2 DEF WordsSaid
<1> QED BY <1>2, <1>3, <1>4, <1>5, <1>6 DEF OneAnnounced

\* A token of the text.
LEMMA HearText ==
  ASSUME NEW s, NEW e, NEW t, t = Tell(s, e), Sane(s), MayFollow(s, e), CarriesText(e)
  PROVE  TextMore(s, e, t)
<1>0. /\ ~Announces(e) /\ ~CarriesArguments(e) /\ ~Names(e) /\ ~Shuts(e)
      /\ ~Terminal(e) /\ e.t \notin {"finish", "message_start", "response.created"}
  BY DEF Announces, Shuts, CarriesText, CarriesArguments, Names, Terminal
<1>1. OneAtATime(s, e) <=> s.open /\ s.kind = "message" /\ e.i = s.n - 1
  BY <1>0 DEF OneAtATime
<1>2. /\ HeardOn(s, t) /\ t.single = (s.single /\ OneAtATime(s, e))
      /\ PlaceSaid(s, e, t) /\ PhaseSaid(s, e, t) /\ WordsSaid(s, e, t)
  BY TellParts
<1>7. s.single \in BOOLEAN /\ s.open \in BOOLEAN /\ s.begun \in BOOLEAN /\ s.done \in BOOLEAN
  BY SaneHas
<1>3. t.single = (s.single /\ s.open /\ s.kind = "message" /\ e.i = s.n - 1)
  BY <1>1, <1>2, <1>7
<1>4. KeptPlace(s, t)
  BY <1>0, <1>2, <1>7 DEF KeptPlace, PlaceSaid
<1>5. KeptPhase(s, t)
  BY <1>0, <1>2, <1>7 DEF KeptPhase, PhaseSaid
<1>6. t.text = Append(s.text, e.n) /\ t.ids = s.ids /\ t.args = s.args
  BY <1>0, <1>2 DEF WordsSaid
<1> QED BY <1>2, <1>3, <1>4, <1>5, <1>6 DEF TextMore

\* A token of a call's arguments.
LEMMA HearArguments ==
  ASSUME NEW s, NEW e, NEW t, t = Tell(s, e), Sane(s), MayFollow(s, e), CarriesArguments(e)
  PROVE  ArgumentsMore(s, e, t)
<1>0. /\ ~Announces(e) /\ ~CarriesText(e) /\ ~Names(e) /\ ~Shuts(e)
      /\ ~Terminal(e) /\ e.t \notin {"finish", "message_start", "response.created"}
  <2>1. ~Names(e)
    BY DEF Names, CarriesArguments
  <2> QED BY <2>1 DEF Announces, Shuts, CarriesText, CarriesArguments, Names, Terminal
<1>1. OneAtATime(s, e) <=> s.open /\ s.kind = "function_call" /\ e.i = s.n - 1
  BY <1>0 DEF OneAtATime
<1>2. /\ HeardOn(s, t) /\ t.single = (s.single /\ OneAtATime(s, e))
      /\ PlaceSaid(s, e, t) /\ PhaseSaid(s, e, t) /\ WordsSaid(s, e, t)
  BY TellParts
<1>7. s.single \in BOOLEAN /\ s.open \in BOOLEAN /\ s.begun \in BOOLEAN /\ s.done \in BOOLEAN
  BY SaneHas
<1>3. t.single = (s.single /\ s.open /\ s.kind = "function_call" /\ e.i = s.n - 1)
  BY <1>1, <1>2, <1>7
<1>4. KeptPlace(s, t)
  BY <1>0, <1>2, <1>7 DEF KeptPlace, PlaceSaid
<1>5. KeptPhase(s, t)
  BY <1>0, <1>2, <1>7 DEF KeptPhase, PhaseSaid
<1>6. t.text = s.text /\ t.ids = s.ids /\ t.args = [s.args EXCEPT ![e.i] = Append(@, e.n)]
  BY <1>0, <1>2 DEF WordsSaid
<1> QED BY <1>2, <1>3, <1>4, <1>5, <1>6 DEF ArgumentsMore

---------------------------------------------------------------------------
(* The events the converters emit.                                         *)

\* Events that say nothing by themselves.
LEMMA SayAside ==
  ASSUME NEW h, NEW e, NEW t, t = Tell(h, e), Sane(h), e.i \in Nat, e.n \in Nat,
         \/ /\ h.d = "responses"
            /\ e.t \in {"response.in_progress", "response.content_part.added",
                        "response.function_call_arguments.done"}
         \/ h.d = "messages" /\ e.t = "message_delta" /\ ~h.open
         \/ h.d = "chat" /\ e.t \in {"role", "usage"}
  PROVE  NothingNew(h, t)
<1>1. Idle(e)
  BY DEF Idle, Announces, Shuts, CarriesText, CarriesArguments, Names, Terminal
<1>2. ~Content(e)
  BY <1>1 DEF Idle, Content
<1>3. MayFollow(h, e)
  BY <1>1, <1>2 DEF MayFollow, Idle, Lexicon, MessagesGoOn, ResponsesGoOn, ChatGoesOn
<1> QED BY <1>1, <1>3, HearIdle

\* The end.
LEMMA SayOver ==
  ASSUME NEW h, NEW e, NEW t, t = Tell(h, e), Sane(h), e.i \in Nat, e.n \in Nat,
         \/ h.d = "responses" /\ e.t \in {"response.completed", "response.incomplete"}
         \/ h.d = "messages" /\ e.t = "message_stop" /\ ~h.open
         \/ h.d = "chat" /\ e.t \in {"finish", "[DONE]"}
  PROVE  OverNow(h, t)
<1>1. ~Announces(e) /\ ~CarriesText(e) /\ ~CarriesArguments(e) /\ ~Names(e)
  BY DEF Announces, CarriesText, CarriesArguments, Names
<1>2. ~Content(e)
  BY <1>1 DEF Content
<1>3. MayFollow(h, e)
  BY <1>1, <1>2 DEF MayFollow, Lexicon, MessagesGoOn, ResponsesGoOn, ChatGoesOn
<1>4. Terminal(e) \/ e.t = "finish"
  BY DEF Terminal
<1> QED BY <1>3, <1>4, HearEnd

\* The Responses preamble opens a reply, or repeats its opening.
LEMMA SayPreamble ==
  ASSUME NEW h, NEW t, t = Told(h, Preamble), Sane(h), h.d = "responses", h.begun \/ ~h.any
  PROVE  IsSeq(Preamble) /\ BegunNow(h, t)
<1> DEFINE e == Plain("response.created")
           f == Plain("response.in_progress")
           m == Tell(h, e)
<1>1. /\ e.t = "response.created" /\ e.i = 0 /\ e.n = 0
      /\ f.t = "response.in_progress" /\ f.i = 0 /\ f.n = 0
  BY DEF Plain, Ev
<1>2. t = Tell(m, f) /\ IsSeq(Preamble)
  BY ToldPair DEF Preamble
<1> HIDE DEF e, f
<1>3. ~Announces(e) /\ ~CarriesText(e) /\ ~CarriesArguments(e) /\ ~Names(e)
  BY <1>1 DEF Announces, CarriesText, CarriesArguments, Names
<1>4. ~Content(e)
  BY <1>3 DEF Content
<1>5. MayFollow(h, e)
  BY <1>1, <1>3, <1>4 DEF MayFollow, Lexicon, ResponsesGoOn
<1>6. BegunNow(h, m)
  BY <1>1, <1>5, HearBegin
<1> HIDE DEF m
<1>7. NothingNew(m, t)
  <2>1. Sane(m) /\ m.d = "responses" /\ t = Tell(m, f) /\ f.i \in Nat /\ f.n \in Nat
    BY <1>1, <1>2, <1>6 DEF BegunNow, HeardOn
  <2> QED BY <1>1, <2>1, SayAside
<1> QED BY <1>2, <1>6, <1>7 DEF NothingNew, BegunNow, HeardOn, KeptPlace, KeptPhase, SameTold

\* Something new: an item, a block, a tool call.
LEMMA SayNew ==
  ASSUME NEW h, NEW e, NEW t, t = Tell(h, e), Sane(h), ~h.done, e.i = h.n, e.n = 0,
         \/ h.d = "responses" /\ e.t = "response.output_item.added" /\ h.begun
         \/ h.d = "messages" /\ e.t = "content_block_start" /\ h.begun /\ ~h.open
         \/ h.d = "chat" /\ e.t = "tool_calls" /\ e.k = "id"
  PROVE  OneAnnounced(h, e, t)
<1>1. Announces(e) /\ ~CarriesText(e) /\ e.i \in Nat
  BY SaneHas DEF Announces, CarriesText
<1>3. ~CarriesArguments(e)
  BY Zenon DEF CarriesArguments
<1>2. MayFollow(h, e)
  <2>1. h.d = "responses" => ResponsesGoOn(h, e)
    BY <1>1, <1>3 DEF ResponsesGoOn
  <2>2. h.d = "messages" => MessagesGoOn(h, e)
    BY <1>1, <1>3 DEF MessagesGoOn
  <2>3. h.d = "chat" => ChatGoesOn(h, e)
    BY Zenon DEF ChatGoesOn
  <2>4. e.t \in Lexicon(h.d)
    BY DEF Lexicon
  <2>5. e.n \in Nat
    OBVIOUS
  <2> QED BY <1>1, <1>3, <2>1, <2>2, <2>3, <2>4, <2>5 DEF MayFollow
<1> QED BY <1>1, <1>2, HearAnnounce

\* A token of text may follow an open text.
LEMMA SayText ==
  ASSUME NEW h, NEW e, NEW t, t = Tell(h, e), Sane(h), ~h.done, e.i \in Nat, e.n \in Nat,
         \/ h.d = "responses" /\ e.t = "response.output_text.delta" /\ h.begun /\ e.i < h.n
         \/ /\ h.d = "messages" /\ e.t = "content_block_delta" /\ e.k = "text_delta"
            /\ h.begun /\ h.open /\ e.i = h.n - 1 /\ h.kind = "text"
         \/ h.d = "chat" /\ e.t = "content"
  PROVE  TextMore(h, e, t)
<1>1. CarriesText(e) /\ ~Announces(e) /\ ~CarriesArguments(e) /\ ~Names(e)
  BY DEF Announces, CarriesText, CarriesArguments, Names
<1>2. MayFollow(h, e)
  BY <1>1 DEF MayFollow, Lexicon, MessagesGoOn, ResponsesGoOn, ChatGoesOn
<1> QED BY <1>1, <1>2, HearText

\* A token of arguments may follow the call it belongs to.
LEMMA SayArguments ==
  ASSUME NEW h, NEW e, NEW t, t = Tell(h, e), Sane(h), ~h.done, e.i \in Nat, e.n \in Nat, e.n # 0,
         \/ /\ h.d = "responses" /\ e.t = "response.function_call_arguments.delta" /\ h.begun
            /\ \E j \in 1 .. Len(h.ids) : h.ids[j] = e.i
         \/ /\ h.d = "messages" /\ e.t = "content_block_delta" /\ e.k = "input_json_delta"
            /\ h.begun /\ h.open /\ e.i = h.n - 1 /\ h.kind = "tool_use"
         \/ h.d = "chat" /\ e.t = "tool_calls" /\ CarriesArguments(e) /\ e.i < h.n
  PROVE  ArgumentsMore(h, e, t)
<1>1. CarriesArguments(e) /\ ~Announces(e) /\ ~CarriesText(e) /\ ~Names(e)
  BY Zenon DEF Announces, CarriesText, CarriesArguments, Names
<1>2. MayFollow(h, e)
  <2>1. h.d = "responses" => ResponsesGoOn(h, e)
    BY <1>1 DEF ResponsesGoOn
  <2>2. h.d = "messages" => MessagesGoOn(h, e)
    BY <1>1 DEF MessagesGoOn
  <2>3. h.d = "chat" => ChatGoesOn(h, e)
    BY Zenon DEF ChatGoesOn, CarriesArguments
  <2>4. e.t \in Lexicon(h.d)
    BY DEF Lexicon
  <2> QED BY <1>1, <2>1, <2>2, <2>3, <2>4 DEF MayFollow
<1> QED BY <1>1, <1>2, HearArguments

\* What has been announced may be closed.
LEMMA SayShut ==
  ASSUME NEW h, NEW e, NEW t, t = Tell(h, e), Sane(h), e.i \in Nat, e.n \in Nat,
         \/ /\ h.d = "responses"
            /\ e.t \in {"response.output_text.done", "response.content_part.done",
                        "response.output_item.done"}
            /\ e.i < h.n
         \/ h.d = "messages" /\ e.t = "content_block_stop" /\ h.begun /\ h.open /\ e.i = h.n - 1
  PROVE  ShutNow(h, t)
<1>1. Shuts(e) /\ ~Announces(e) /\ ~CarriesText(e) /\ ~CarriesArguments(e) /\ ~Names(e)
  BY DEF Announces, CarriesText, CarriesArguments, Names, Shuts
<1>2. ~Content(e)
  BY <1>1 DEF Content
<1>3. MayFollow(h, e)
  BY <1>1, <1>2 DEF MayFollow, Lexicon, MessagesGoOn, ResponsesGoOn
<1> QED BY <1>1, <1>3, HearShut

\* Content is over when the stream is done.
LEMMA DoneAddsNothing ==
  ASSUME NEW g, NEW e, NEW t, t = Tell(g, e), Sane(g), MayFollow(g, e), g.done
  PROVE  /\ HeardOn(g, t) /\ t.done = TRUE /\ SameTold(g, t) /\ t.n = g.n
         /\ t.single => g.single
<1>1. ~Announces(e) /\ ~CarriesText(e) /\ ~CarriesArguments(e)
  BY DEF MayFollow, Content
<1>2. /\ HeardOn(g, t) /\ t.single = (g.single /\ OneAtATime(g, e))
      /\ PlaceSaid(g, e, t) /\ PhaseSaid(g, e, t) /\ WordsSaid(g, e, t)
  BY TellParts
<1>3. ~Names(e)
  BY <1>1, WherePlaced
<1>4. t.done = TRUE
  BY <1>2, SaneHas DEF PhaseSaid
<1>5. SameTold(g, t)
  BY <1>1, <1>2, <1>3 DEF WordsSaid, SameTold
<1>6. t.n = g.n
  BY <1>1, <1>2 DEF PlaceSaid
<1> QED BY <1>2, <1>4, <1>5, <1>6

---------------------------------------------------------------------------
(* One event through a converter, as the two readers see it.               *)

Passes(x, e, g, h) == IsSeq(x.out) /\ Follows(x.c, Tell(g, e), Told(h, x.out))

\* A step that emits passes the event on.
LEMMA EmitsPasses ==
  ASSUME NEW d, NEW out, NEW e, NEW g, NEW h, NEW t, NEW u,
         t = Tell(g, e), u = Told(h, out), IsSeq(out), Follows(d, t, u)
  PROVE  Passes(Emits(d, out), e, g, h)
  BY DEF Passes, Emits

\* A step that emits nothing passes the event on if the converter still follows.
LEMMA SilentPasses ==
  ASSUME NEW d, NEW e, NEW g, NEW h, NEW t, t = Tell(g, e), Follows(d, t, h)
  PROVE  Passes(Emits(d, <<>>), e, g, h)
<1>1. IsSeq(<<>>) /\ Told(h, <<>>) = h
  BY NothingSaid, ToldNothing
<1> QED BY <1>1, EmitsPasses

\* What has to be shown of a step.
LEMMA StillFollows ==
  ASSUME NEW c, NEW d, NEW g, NEW h, NEW t, NEW u, Follows(c, g, h), d.name = c.name,
         HeardOn(g, t), HeardOn(h, u) \/ u = h, d.terminal => t.done, u.done => d.terminal,
         c.name = "m2r" => M2RFollows(d, t, u),
         c.name = "r2c" => R2CFollows(d, t, u),
         c.name = "r2m" => R2MFollows(d, t, u),
         c.name = "c2r" => C2RFollows(d, t, u)
  PROVE  Follows(d, t, u)
<1>1. From(d) = From(c) /\ To(d) = To(c)
  BY DEF From, To
<1>2. Sane(g) /\ Sane(h) /\ g.d = From(c) /\ h.d = To(c)
  BY DEF Follows
<1>3. Sane(t) /\ t.d = g.d /\ t.any = TRUE
  BY DEF HeardOn
<1>4. Sane(u) /\ u.d = h.d
  BY <1>2 DEF HeardOn
<1> QED BY <1>1, <1>2, <1>3, <1>4 DEF Follows

\* A converter that has ended emits nothing, and nothing is missed by it.
LEMMA EndedFollows ==
  ASSUME NEW c, NEW e, NEW g, NEW h, Follows(c, g, h), c.terminal, MayFollow(g, e)
  PROVE  Passes(Emits(c, <<>>), e, g, h)
<1> DEFINE t == Tell(g, e)
<1>1. Sane(g) /\ g.done
  BY DEF Follows
<1>2. /\ HeardOn(g, t) /\ t.done = TRUE /\ SameTold(g, t) /\ t.n = g.n
      /\ t.single => g.single
  BY <1>1, DoneAddsNothing
<1> HIDE DEF t
<1>3. c.name = "m2r" => M2RFollows(c, t, h)
  BY <1>2 DEF Follows, M2RFollows, SameTold
<1>4. c.name = "r2c" => R2CFollows(c, t, h)
  BY <1>2 DEF Follows, R2CFollows, SameTold
<1>5. c.name = "r2m" => R2MFollows(c, t, h)
  BY <1>2 DEF Follows, R2MFollows, SameTold
<1>6. c.name = "c2r" => C2RFollows(c, t, h)
  <2>1. t.n = g.n /\ t.text = g.text /\ t.args = g.args
    BY <1>2 DEF SameTold
  <2>2. Plainly(t) <=> Plainly(g)
    BY <2>1 DEF Plainly
  <2> QED BY <2>1, <2>2 DEF Follows, C2RFollows
<1>7. Follows(c, t, h)
  BY <1>2, <1>3, <1>4, <1>5, <1>6, StillFollows
<1> QED BY <1>7, SilentPasses DEF t

\* The fields of the events the converters make.
LEMMA EventFields ==
  ASSUME NEW y, NEW i, NEW k, NEW n, NEW v
  PROVE  /\ Ev(y, i, k, n, v).t = y /\ Ev(y, i, k, n, v).i = i /\ Ev(y, i, k, n, v).k = k
         /\ Ev(y, i, k, n, v).n = n
         /\ Of(y, i, k).t = y /\ Of(y, i, k).i = i /\ Of(y, i, k).k = k /\ Of(y, i, k).n = 0
         /\ At(y, i).t = y /\ At(y, i).i = i /\ At(y, i).n = 0
         /\ Plain(y).t = y /\ Plain(y).i = 0 /\ Plain(y).n = 0
  BY DEF Ev, Of, At, Plain

\* A converter between Messages and Responses.
M2RAt(c, g, h) ==
  /\ Works(c) /\ c.name = "m2r" /\ ~c.terminal /\ Follows(c, g, h)
  /\ Sane(g) /\ Sane(h) /\ g.d = "messages" /\ h.d = "responses" /\ ~h.done /\ (h.any => g.any)
  /\ SameTold(g, h) /\ c.item = g.n - 1 /\ h.n = g.n /\ g.begun = c.created /\ h.begun = c.created
  /\ g.n \in Nat /\ h.n \in Nat

\* Messages to Responses, after a step that adds no end: what is left to show.
LEMMA M2RStill ==
  ASSUME NEW c, NEW d, NEW g, NEW h, NEW t, NEW u, M2RAt(c, g, h), d.name = c.name,
         d.terminal = c.terminal, HeardOn(g, t), HeardOn(h, u) \/ u = h, u.done = h.done,
         SameTold(t, u), d.item = t.n - 1, u.n = t.n, t.begun = d.created, u.begun = d.created
  PROVE  Follows(d, t, u)
<1>1. M2RFollows(d, t, u)
  BY DEF M2RFollows
<1> QED BY <1>1, StillFollows DEF M2RAt

\* Messages to Responses passes every event on (M2R).
LEMMA M2RPasses ==
  ASSUME NEW c, NEW e, NEW g, NEW h, Works(c), c.name = "m2r", Follows(c, g, h),
         MayFollow(g, e), ~M2R(c, e).err
  PROVE  Passes(M2R(c, e), e, g, h)
<1>1. CASE c.terminal
  <2>1. M2R(c, e) = Emits(c, <<>>)
    BY <1>1 DEF M2R
  <2> QED BY <1>1, <2>1, EndedFollows
<1>2. CASE ~c.terminal
  <2> DEFINE t == Tell(g, e)
  <2>1. M2RAt(c, g, h)
    BY <1>2, SaneHas DEF Follows, M2RFollows, From, To, M2RAt
  <2>2. /\ Sane(g) /\ Sane(h) /\ g.d = "messages" /\ h.d = "responses" /\ ~h.done
        /\ (h.any => g.any) /\ SameTold(g, h) /\ c.item = g.n - 1 /\ h.n = g.n
        /\ g.begun = c.created /\ h.begun = c.created /\ g.n \in Nat /\ h.n \in Nat
    BY <2>1 DEF M2RAt
  <2>3. /\ MessagesGoOn(g, e) /\ e.i \in Nat /\ e.n \in Nat
        /\ e.t \in {"message_start", "ping", "content_block_start", "content_block_delta",
                    "content_block_stop", "message_delta", "message_stop", "error"}
        /\ Content(e) => ~g.done
        /\ CarriesArguments(e) => e.n # 0
    BY <2>2 DEF MayFollow, Lexicon
  <2> HIDE DEF t
  <2>4. CASE e.t = "message_start"
    <3> DEFINE d == [c EXCEPT !.created = TRUE]
               u == Told(h, Preamble)
    <3>1. ~g.any /\ ~g.begun
      BY <2>2, <2>3, <2>4 DEF MessagesGoOn, Sane
    <3>2. M2R(c, e) = Emits(d, Preamble)
      BY <1>2, <2>2, <2>4, <3>1 DEF M2R
    <3>3. d.name = c.name /\ d.terminal = c.terminal /\ d.item = c.item /\ d.created = TRUE
      BY DEF Works
    <3>4. BegunNow(g, t)
      BY <2>2, <2>4, HearBegin DEF t
    <3>5. BegunNow(h, u) /\ IsSeq(Preamble)
      BY <2>2, <3>1, SayPreamble
    <3> HIDE DEF d, u
    <3>6. HeardOn(g, t) /\ HeardOn(h, u) /\ u.done = h.done /\ SameTold(t, u)
          /\ d.item = t.n - 1 /\ u.n = t.n /\ t.begun = d.created /\ u.begun = d.created
      BY <2>2, <3>3, <3>4, <3>5 DEF BegunNow, SameTold, KeptPlace
    <3>7. Follows(d, t, u)
      BY <2>1, <3>3, <3>6, M2RStill
    <3> QED BY <3>2, <3>5, <3>7, EmitsPasses DEF t, u
  <2>5. CASE e.t = "content_block_start"
    <3> DEFINE d == [c EXCEPT !.item = @ + 1, !.kind = e.k]
    <3>1. d.name = c.name /\ d.terminal = c.terminal /\ d.item = c.item + 1 /\ d.created = c.created
      BY DEF Works
    <3> HIDE DEF d
    <3>2. Announces(e) /\ g.begun /\ e.i = g.n
      BY <2>3, <2>5 DEF Announces, MessagesGoOn
    <3>3. OneAnnounced(g, e, t)
      BY <2>2, <3>2, HearAnnounce DEF t
    <3>4. ASSUME NEW a, NEW u, a.t = "response.output_item.added", a.i = d.item, a.n = 0,
                 a.k = "function_call" <=> e.k = "tool_use", u = Tell(h, a)
          PROVE  Follows(d, t, u) /\ Sane(u) /\ u.d = "responses" /\ u.n = d.item + 1
      <4>1. a.i = h.n
        BY <2>2, <3>1, <3>4
      <4>2. OneAnnounced(h, a, u)
        BY <2>2, <3>2, <3>4, <4>1, SayNew
      <4>3. Names(a) <=> Names(e)
        BY <2>5, <3>4 DEF Names
      <4>4. SameTold(t, u)
        BY <2>2, <3>3, <4>2, <4>3 DEF SameTold, OneAnnounced
      <4>5. HeardOn(g, t) /\ HeardOn(h, u) /\ u.done = h.done
            /\ d.item = t.n - 1 /\ u.n = t.n /\ t.begun = d.created /\ u.begun = d.created
        BY <2>2, <3>1, <3>3, <4>2 DEF OneAnnounced, KeptPhase
      <4>6. Follows(d, t, u)
        BY <2>1, <3>1, <4>4, <4>5, M2RStill
      <4>7. u.n = d.item + 1
        BY <2>2, <3>1, <4>2 DEF OneAnnounced
      <4> QED BY <2>2, <4>5, <4>6, <4>7 DEF HeardOn
    <3>5. CASE e.k = "text"
      <4> DEFINE a == Of("response.output_item.added", d.item, "message")
                 b == At("response.content_part.added", d.item)
                 m == Tell(h, a)
                 u == Told(h, <<a, b>>)
      <4>1. M2R(c, e) = Emits(d, <<a, b>>)
        BY <1>2, <2>5, <3>5 DEF M2R, d
      <4>2. /\ a.t = "response.output_item.added" /\ a.i = d.item /\ a.n = 0 /\ a.k = "message"
            /\ b.t = "response.content_part.added" /\ b.i = d.item /\ b.n = 0
        BY EventFields
      <4> HIDE DEF a, b
      <4>3. u = Tell(m, b) /\ IsSeq(<<a, b>>)
        BY ToldPair
      <4>4. Follows(d, t, m) /\ Sane(m) /\ m.d = "responses"
        BY <3>4, <3>5, <4>2
      <4>5. b.i \in Nat
        BY <2>2, <3>1, <4>2
      <4> HIDE DEF m, u
      <4>6. NothingNew(m, u)
        BY <4>2, <4>3, <4>4, <4>5, SayAside
      <4>7. Follows(d, t, u)
        <5>1. HeardOn(m, u) /\ u.done = m.done /\ SameTold(m, u) /\ u.n = m.n /\ u.begun = m.begun
          BY <4>6 DEF NothingNew, KeptPlace, KeptPhase
        <5>2. u.any = TRUE /\ t.any = TRUE
          BY <3>3, <5>1 DEF HeardOn, OneAnnounced
        <5>3. d.name = "m2r"
          BY <3>1
        <5> QED BY <4>4, <5>1, <5>2, <5>3 DEF Follows, M2RFollows, SameTold, HeardOn
      <4> QED BY <4>1, <4>3, <4>7, EmitsPasses DEF t, u
    <3>6. CASE e.k = "tool_use"
      <4> DEFINE a == Of("response.output_item.added", d.item, "function_call")
                 u == Told(h, <<a>>)
      <4>1. M2R(c, e) = Emits(d, <<a>>)
        BY <1>2, <2>5, <3>6 DEF M2R, d
      <4>2. /\ a.t = "response.output_item.added" /\ a.i = d.item /\ a.n = 0
            /\ a.k = "function_call"
        BY EventFields
      <4> HIDE DEF a
      <4>3. u = Tell(h, a) /\ IsSeq(<<a>>)
        BY ToldOne
      <4>4. Follows(d, t, u)
        BY <3>4, <3>6, <4>2, <4>3
      <4> QED BY <4>1, <4>3, <4>4, EmitsPasses DEF t, u
    <3>7. CASE e.k \notin {"text", "tool_use"}
      <4>1. M2R(c, e) = Fails(d)
        BY <1>2, <2>5, <3>7 DEF M2R, d
      <4> QED BY <4>1 DEF Fails
    <3> QED BY <3>5, <3>6, <3>7
  <2>6. CASE e.t = "content_block_delta"
    <3>0. g.open /\ e.i = g.n - 1 /\ g.begun /\ g.n > 0
      BY <2>2, <2>3, <2>6 DEF MessagesGoOn, Sane
    <3>1. CASE e.k = "text_delta"
      <4> DEFINE a == Ev("response.output_text.delta", c.item, "", e.n, FALSE)
                 u == Told(h, <<a>>)
      <4>1. M2R(c, e) = Emits(c, <<a>>)
        BY <1>2, <2>6, <3>1 DEF M2R
      <4>2. a.t = "response.output_text.delta" /\ a.i = c.item /\ a.n = e.n
        BY Zenon DEF Ev
      <4> HIDE DEF a
      <4>3. u = Tell(h, a) /\ IsSeq(<<a>>)
        BY ToldOne
      <4>4. CarriesText(e)
        BY <2>6, <3>1 DEF CarriesText
      <4>5. TextMore(g, e, t)
        BY <2>2, <4>4, HearText DEF t
      <4>6. a.i \in Nat /\ a.i < h.n
        BY <2>2, <3>0, <4>2
      <4>7. TextMore(h, a, u)
        BY <2>2, <2>3, <3>0, <4>2, <4>3, <4>6, SayText
      <4> HIDE DEF u
      <4>8. SameTold(t, u)
        BY <2>2, <4>2, <4>5, <4>7 DEF TextMore, SameTold
      <4>9. HeardOn(g, t) /\ HeardOn(h, u) /\ u.done = h.done
            /\ c.item = t.n - 1 /\ u.n = t.n /\ t.begun = c.created /\ u.begun = c.created
        BY <2>2, <4>5, <4>7 DEF TextMore, KeptPlace, KeptPhase
      <4>10. Follows(c, t, u)
        BY <2>1, <4>8, <4>9, M2RStill
      <4> QED BY <4>1, <4>3, <4>10, EmitsPasses DEF t, u
    <3>2. CASE e.k = "input_json_delta"
      <4> DEFINE a == Ev("response.function_call_arguments.delta", c.item, "", e.n, FALSE)
                 u == Told(h, <<a>>)
      <4>1. M2R(c, e) = Emits(c, <<a>>)
        BY <1>2, <2>6, <3>2 DEF M2R
      <4>2. a.t = "response.function_call_arguments.delta" /\ a.i = c.item /\ a.n = e.n
        BY Zenon DEF Ev
      <4> HIDE DEF a
      <4>3. u = Tell(h, a) /\ IsSeq(<<a>>)
        BY ToldOne
      <4>4. CarriesArguments(e)
        BY <2>6, <3>2 DEF CarriesArguments
      <4>5. ArgumentsMore(g, e, t)
        BY <2>2, <4>4, HearArguments DEF t
      <4>6. a.i = e.i /\ a.n # 0
        BY <2>2, <2>3, <3>0, <4>2, <4>4
      <4>7. \E j \in 1 .. Len(h.ids) : h.ids[j] = a.i
        BY <2>2, <4>4, <4>6, WherePlaced DEF SameTold
      <4>8. ArgumentsMore(h, a, u)
        BY <2>2, <2>3, <3>0, <4>2, <4>3, <4>6, <4>7, SayArguments
      <4> HIDE DEF u
      <4>9. SameTold(t, u)
        BY <2>2, <4>2, <4>5, <4>6, <4>8 DEF ArgumentsMore, SameTold
      <4>10. HeardOn(g, t) /\ HeardOn(h, u) /\ u.done = h.done
            /\ c.item = t.n - 1 /\ u.n = t.n /\ t.begun = c.created /\ u.begun = c.created
        BY <2>2, <4>5, <4>8 DEF ArgumentsMore, KeptPlace, KeptPhase
      <4>11. Follows(c, t, u)
        BY <2>1, <4>9, <4>10, M2RStill
      <4> QED BY <4>1, <4>3, <4>11, EmitsPasses DEF t, u
    <3>3. CASE e.k \notin {"text_delta", "input_json_delta"}
      <4>1. M2R(c, e) = Fails(c)
        BY <1>2, <2>6, <3>3 DEF M2R
      <4> QED BY <4>1 DEF Fails
    <3> QED BY <3>1, <3>2, <3>3
  <2>7. CASE e.t = "content_block_stop"
    <3>0. g.open /\ e.i = g.n - 1 /\ g.begun /\ g.n > 0
      BY <2>2, <2>3, <2>7 DEF MessagesGoOn, Sane
    <3>1. Shuts(e)
      BY <2>7 DEF Shuts
    <3>2. ShutNow(g, t)
      BY <2>2, <3>1, HearShut DEF t
    <3>3. c.item \in Nat /\ c.item < h.n
      BY <2>2, <3>0
    <3>4. ASSUME NEW u, HeardOn(h, u), KeptPhase(h, u), SameTold(h, u), u.n = h.n
          PROVE  Follows(c, t, u)
      <4>1. SameTold(t, u)
        BY <2>2, <3>2, <3>4 DEF ShutNow, SameTold
      <4>2. HeardOn(g, t) /\ HeardOn(h, u) /\ u.done = h.done
            /\ c.item = t.n - 1 /\ u.n = t.n /\ t.begun = c.created /\ u.begun = c.created
        BY <2>2, <3>2, <3>4 DEF ShutNow, KeptPhase
      <4> QED BY <2>1, <4>1, <4>2, M2RStill
    <3>5. CASE c.kind = "text"
      <4> DEFINE a == At("response.output_text.done", c.item)
                 b == At("response.content_part.done", c.item)
                 z == At("response.output_item.done", c.item)
                 m == Tell(h, a)
                 v == Tell(m, b)
                 u == Told(h, <<a, b, z>>)
      <4>1. M2R(c, e) = Emits(c, <<a, b, z>>)
        BY <1>2, <2>7, <3>5 DEF M2R
      <4>2. /\ a.t = "response.output_text.done" /\ a.i = c.item /\ a.n = 0
            /\ b.t = "response.content_part.done" /\ b.i = c.item /\ b.n = 0
            /\ z.t = "response.output_item.done" /\ z.i = c.item /\ z.n = 0
        BY EventFields
      <4> HIDE DEF a, b, z
      <4>3. u = Tell(v, z) /\ IsSeq(<<a, b, z>>)
        BY ToldTriple
      <4>4. ShutNow(h, m)
        BY <2>2, <3>3, <4>2, SayShut
      <4>5. Sane(m) /\ m.d = "responses" /\ m.n = h.n
        BY <2>2, <4>4 DEF ShutNow, HeardOn
      <4>6. ShutNow(m, v)
        <5> HIDE DEF m
        <5> QED BY <3>3, <4>2, <4>5, SayShut
      <4>7. Sane(v) /\ v.d = "responses" /\ v.n = h.n
        BY <4>5, <4>6 DEF ShutNow, HeardOn
      <4> HIDE DEF m, v, u
      <4>8. ShutNow(v, u)
        BY <3>3, <4>2, <4>3, <4>7, SayShut
      <4>9. HeardOn(h, u) /\ KeptPhase(h, u) /\ SameTold(h, u) /\ u.n = h.n
        BY <4>4, <4>6, <4>8 DEF ShutNow, HeardOn, KeptPhase, SameTold
      <4>10. Follows(c, t, u)
        BY <3>4, <4>9
      <4> QED BY <4>1, <4>3, <4>10, EmitsPasses DEF t, u
    <3>6. CASE c.kind = "tool_use"
      <4> DEFINE a == At("response.function_call_arguments.done", c.item)
                 z == At("response.output_item.done", c.item)
                 m == Tell(h, a)
                 u == Told(h, <<a, z>>)
      <4>1. M2R(c, e) = Emits(c, <<a, z>>)
        BY <1>2, <2>7, <3>6 DEF M2R
      <4>2. /\ a.t = "response.function_call_arguments.done" /\ a.i = c.item /\ a.n = 0
            /\ z.t = "response.output_item.done" /\ z.i = c.item /\ z.n = 0
        BY EventFields
      <4> HIDE DEF a, z
      <4>3. u = Tell(m, z) /\ IsSeq(<<a, z>>)
        BY ToldPair
      <4>4. NothingNew(h, m)
        BY <2>2, <3>3, <4>2, SayAside
      <4>5. Sane(m) /\ m.d = "responses" /\ m.n = h.n
        BY <2>2, <4>4 DEF NothingNew, HeardOn, KeptPlace
      <4> HIDE DEF m, u
      <4>6. ShutNow(m, u)
        BY <3>3, <4>2, <4>3, <4>5, SayShut
      <4>7. HeardOn(h, u) /\ KeptPhase(h, u) /\ SameTold(h, u) /\ u.n = h.n
        BY <4>4, <4>6 DEF NothingNew, ShutNow, HeardOn, KeptPhase, KeptPlace, SameTold
      <4>8. Follows(c, t, u)
        BY <3>4, <4>7
      <4> QED BY <4>1, <4>3, <4>8, EmitsPasses DEF t, u
    <3>7. CASE c.kind \notin {"text", "tool_use"}
      <4>1. M2R(c, e) = Fails(c)
        BY <1>2, <2>7, <3>7 DEF M2R
      <4> QED BY <4>1 DEF Fails
    <3> QED BY <3>5, <3>6, <3>7
  <2>8. CASE e.t \in {"message_delta", "ping"}
    <3> DEFINE d == [c EXCEPT !.stop = e.k, !.usage = @ \/ e.u]
    <3>1. M2R(c, e) = Emits(d, <<>>) \/ M2R(c, e) = Emits(c, <<>>)
      BY <1>2, <2>8 DEF M2R
    <3>2. d.name = c.name /\ d.terminal = c.terminal /\ d.item = c.item /\ d.created = c.created
      BY DEF Works
    <3> HIDE DEF d
    <3>3. Idle(e)
      BY <2>8 DEF Idle, Announces, Shuts, CarriesText, CarriesArguments, Names, Terminal
    <3>4. NothingNew(g, t)
      BY <2>2, <3>3, HearIdle DEF t
    <3>5. HeardOn(g, t) /\ SameTold(t, h) /\ t.n = g.n /\ t.begun = g.begun
      BY <2>2, <3>4 DEF NothingNew, SameTold, KeptPlace, KeptPhase
    <3>6. Follows(d, t, h)
      BY <2>1, <2>2, <3>2, <3>5, M2RStill
    <3>7. Follows(c, t, h)
      BY <2>1, <2>2, <3>5, M2RStill
    <3> QED BY <3>1, <3>6, <3>7, SilentPasses DEF t
  <2>9. CASE e.t = "message_stop"
    <3> DEFINE d == [c EXCEPT !.terminal = TRUE]
               a == Ev("response.completed", 0, c.stop, 0, c.usage)
               u == Told(h, <<a>>)
    <3>1. M2R(c, e) = Emits(d, <<a>>)
      BY <1>2, <2>9 DEF M2R
    <3>2. d.name = "m2r" /\ d.terminal = TRUE
      BY DEF Works
    <3>3. a.t = "response.completed" /\ a.i = 0 /\ a.n = 0
      BY EventFields
    <3> HIDE DEF d, a
    <3>4. u = Tell(h, a) /\ IsSeq(<<a>>)
      BY ToldOne
    <3>5. Terminal(e)
      BY <2>9 DEF Terminal
    <3>6. OverNow(g, t)
      BY <2>2, <3>5, HearEnd DEF t
    <3>7. OverNow(h, u)
      BY <2>2, <3>3, <3>4, SayOver
    <3> HIDE DEF u
    <3>8. M2RFollows(d, t, u)
      BY <2>2, <3>2, <3>6, <3>7 DEF OverNow, M2RFollows, SameTold
    <3>9. Follows(d, t, u)
      BY <3>2, <3>6, <3>7, <3>8, StillFollows DEF OverNow
    <3> QED BY <3>1, <3>4, <3>9, EmitsPasses DEF t, u
  <2>10. CASE e.t = "error"
    <3>1. M2R(c, e) = Fails(c)
      BY <1>2, <2>10 DEF M2R
    <3> QED BY <3>1 DEF Fails
  <2> QED BY <2>3, <2>4, <2>5, <2>6, <2>7, <2>8, <2>9, <2>10
<1> QED BY <1>1, <1>2

\* A converter between Responses and Chat.
R2CAt(c, g, h) ==
  /\ Works(c) /\ c.name = "r2c" /\ ~c.terminal /\ Follows(c, g, h)
  /\ Sane(g) /\ Sane(h) /\ g.d = "responses" /\ h.d = "chat" /\ ~h.done
  /\ SameTold(g, h) /\ g.n \in Nat /\ h.n \in Nat /\ c.messages \in Nat
  /\ c.messages = 0 => g.n = h.n /\ (c.calls = {} <=> g.n = 0)
  /\ c.messages # 0 => h.n = 0 /\ c.calls = {} /\ g.n # 0

\* Responses to Chat, after a step that adds no end.
LEMMA R2CStill ==
  ASSUME NEW c, NEW g, NEW h, NEW t, NEW u, R2CAt(c, g, h),
         HeardOn(g, t), HeardOn(h, u) \/ u = h, u.done = h.done,
         SameTold(t, u), t.n = g.n, u.n = h.n
  PROVE  Follows(c, t, u)
<1>1. R2CFollows(c, t, u)
  BY DEF R2CFollows, R2CAt
<1> QED BY <1>1, StillFollows DEF R2CAt

\* Responses to Chat passes every event on (R2C).
LEMMA R2CPasses ==
  ASSUME NEW c, NEW e, NEW g, NEW h, Works(c), c.name = "r2c", Follows(c, g, h),
         MayFollow(g, e), ~R2C(c, e).err
  PROVE  Passes(R2C(c, e), e, g, h)
<1>1. CASE c.terminal
  <2>1. R2C(c, e) = Emits(c, <<>>)
    BY <1>1 DEF R2C
  <2> QED BY <1>1, <2>1, EndedFollows
<1>2. CASE ~c.terminal
  <2> DEFINE t == Tell(g, e)
  <2>1. R2CAt(c, g, h)
    BY <1>2, SaneHas DEF Follows, R2CFollows, From, To, R2CAt
  <2>2. /\ Sane(g) /\ Sane(h) /\ g.d = "responses" /\ h.d = "chat" /\ ~h.done
        /\ SameTold(g, h) /\ g.n \in Nat /\ h.n \in Nat /\ c.messages \in Nat
        /\ c.messages = 0 => g.n = h.n /\ (c.calls = {} <=> g.n = 0)
        /\ c.messages # 0 => h.n = 0 /\ c.calls = {} /\ g.n # 0
    BY <2>1 DEF R2CAt
  <2>3. /\ ResponsesGoOn(g, e) /\ e.i \in Nat /\ e.n \in Nat
        /\ e.t \in {"response.created", "response.in_progress", "response.output_item.added",
                    "response.content_part.added", "response.output_text.delta",
                    "response.function_call_arguments.delta", "response.output_text.done",
                    "response.content_part.done", "response.function_call_arguments.done",
                    "response.output_item.done", "response.completed", "response.incomplete",
                    "response.failed"}
        /\ CarriesArguments(e) => e.n # 0
    BY <2>2 DEF MayFollow, Lexicon
  <2> HIDE DEF t
  <2>4. CASE e.t = "response.created"
    <3> DEFINE a == Plain("role")
               u == Told(h, <<a>>)
    <3>1. R2C(c, e) = Emits(c, <<a>>)
      BY <1>2, <2>4 DEF R2C
    <3>2. a.t = "role" /\ a.i = 0 /\ a.n = 0
      BY EventFields
    <3> HIDE DEF a
    <3>3. u = Tell(h, a) /\ IsSeq(<<a>>)
      BY ToldOne
    <3>4. BegunNow(g, t)
      BY <2>2, <2>4, HearBegin DEF t
    <3>5. NothingNew(h, u)
      BY <2>2, <3>2, <3>3, SayAside
    <3> HIDE DEF u
    <3>6. HeardOn(g, t) /\ HeardOn(h, u) /\ u.done = h.done /\ SameTold(t, u) /\ t.n = g.n /\ u.n = h.n
      BY <2>2, <3>4, <3>5 DEF BegunNow, NothingNew, SameTold, KeptPlace, KeptPhase
    <3>7. Follows(c, t, u)
      BY <2>1, <3>6, R2CStill
    <3> QED BY <3>1, <3>3, <3>7, EmitsPasses DEF t, u
  <2>5. CASE e.t = "response.output_item.added"
    <3>0. Announces(e) /\ e.i = g.n
      BY <2>3, <2>5 DEF Announces, ResponsesGoOn
    <3>9. OneAnnounced(g, e, t)
      BY <2>2, <3>0, HearAnnounce DEF t
    <3>1. CASE e.k = "message"
      <4> DEFINE d == [c EXCEPT !.messages = @ + 1]
      <4>1. ~(c.messages > 0 \/ c.calls # {})
        <5>1. ASSUME c.messages > 0 \/ c.calls # {} PROVE FALSE
          <6>1. R2C(c, e) = Fails(c)
            BY <1>2, <2>5, <3>1, <5>1 DEF R2C
          <6> QED BY <6>1 DEF Fails
        <5> QED BY <5>1
      <4>2. R2C(c, e) = Emits(d, <<>>)
        BY <1>2, <2>5, <3>1, <4>1 DEF R2C
      <4>3. d.name = c.name /\ d.terminal = c.terminal /\ d.messages = c.messages + 1 /\ d.calls = c.calls
        BY DEF Works
      <4> HIDE DEF d
      <4>4. c.messages = 0 /\ c.calls = {} /\ g.n = 0 /\ h.n = 0
        BY <2>2, <4>1
      <4>5. ~Names(e)
        BY <2>5, <3>1 DEF Names
      <4>6. HeardOn(g, t) /\ t.n = g.n + 1 /\ SameTold(t, h)
        BY <2>2, <3>9, <4>5 DEF OneAnnounced, SameTold
      <4>7. R2CFollows(d, t, h)
        BY <4>3, <4>4, <4>6 DEF R2CFollows
      <4>8. Follows(d, t, h)
        BY <1>2, <2>1, <2>2, <4>3, <4>6, <4>7, StillFollows
      <4> QED BY <4>2, <4>8, SilentPasses DEF t
    <3>2. CASE e.k = "function_call"
      <4> DEFINE d == [c EXCEPT !.calls = @ \union {e.i}]
                 a == Of("tool_calls", e.i, "id")
                 u == Told(h, <<a>>)
      <4>1. ~(c.messages > 0)
        <5>1. ASSUME c.messages > 0 PROVE FALSE
          <6>1. R2C(c, e) = Fails(c)
            BY <1>2, <2>5, <3>2, <5>1 DEF R2C
          <6> QED BY <6>1 DEF Fails
        <5> QED BY <5>1
      <4>2. R2C(c, e) = Emits(d, <<a>>)
        BY <1>2, <2>5, <3>2, <4>1 DEF R2C
      <4>3. /\ d.name = c.name /\ d.terminal = c.terminal /\ d.messages = c.messages
            /\ d.calls = c.calls \union {e.i}
        BY DEF Works
      <4>4. a.t = "tool_calls" /\ a.i = e.i /\ a.k = "id" /\ a.n = 0
        BY EventFields
      <4> HIDE DEF d, a
      <4>5. u = Tell(h, a) /\ IsSeq(<<a>>)
        BY ToldOne
      <4>6. c.messages = 0 /\ g.n = h.n
        BY <2>2, <4>1
      <4>7. OneAnnounced(h, a, u)
        BY <2>2, <3>0, <4>4, <4>5, <4>6, SayNew
      <4> HIDE DEF u
      <4>8. Names(e) /\ Names(a)
        BY <2>5, <3>2, <4>4 DEF Names
      <4>9. SameTold(t, u)
        BY <2>2, <3>9, <4>6, <4>7, <4>8 DEF OneAnnounced, SameTold
      <4>10. HeardOn(g, t) /\ HeardOn(h, u) /\ u.done = h.done /\ t.n = g.n + 1 /\ u.n = h.n + 1
        BY <3>9, <4>7 DEF OneAnnounced, KeptPhase
      <4>11. d.calls # {} /\ t.n # 0 /\ t.n = u.n /\ d.messages = 0
        BY <2>2, <4>3, <4>6, <4>10
      <4>12. R2CFollows(d, t, u)
        BY <4>9, <4>11 DEF R2CFollows
      <4>13. Follows(d, t, u)
        BY <1>2, <2>1, <2>2, <4>3, <4>10, <4>12, StillFollows DEF R2CAt
      <4> QED BY <4>2, <4>5, <4>13, EmitsPasses DEF t, u
    <3>3. CASE e.k \notin {"message", "function_call"}
      <4>1. R2C(c, e) = Fails(c)
        BY <1>2, <2>5, <3>3 DEF R2C
      <4> QED BY <4>1 DEF Fails
    <3> QED BY <3>1, <3>2, <3>3
  <2>6. CASE e.t = "response.output_text.delta"
    <3> DEFINE a == Ev("content", 0, "", e.n, FALSE)
               u == Told(h, <<a>>)
    <3>1. R2C(c, e) = Emits(c, <<a>>)
      BY <1>2, <2>6 DEF R2C
    <3>2. a.t = "content" /\ a.i = 0 /\ a.n = e.n
      BY Zenon DEF Ev
    <3> HIDE DEF a
    <3>3. u = Tell(h, a) /\ IsSeq(<<a>>)
      BY ToldOne
    <3>4. CarriesText(e)
      BY <2>6 DEF CarriesText
    <3>5. TextMore(g, e, t)
      BY <2>2, <3>4, HearText DEF t
    <3>6. TextMore(h, a, u)
      BY <2>2, <2>3, <3>2, <3>3, SayText
    <3> HIDE DEF u
    <3>7. SameTold(t, u)
      BY <2>2, <3>2, <3>5, <3>6 DEF TextMore, SameTold
    <3>8. HeardOn(g, t) /\ HeardOn(h, u) /\ u.done = h.done /\ t.n = g.n /\ u.n = h.n
      BY <3>5, <3>6 DEF TextMore, KeptPlace, KeptPhase
    <3>9. Follows(c, t, u)
      BY <2>1, <3>7, <3>8, R2CStill
    <3> QED BY <3>1, <3>3, <3>9, EmitsPasses DEF t, u
  <2>7. CASE e.t = "response.function_call_arguments.delta"
    <3> DEFINE a == Ev("tool_calls", e.i, "", e.n, FALSE)
               u == Told(h, <<a>>)
    <3>1. R2C(c, e) = Emits(c, <<a>>)
      BY <1>2, <2>7 DEF R2C
    <3>2. a.t = "tool_calls" /\ a.i = e.i /\ a.n = e.n
      BY Zenon DEF Ev
    <3>10. CarriesArguments(a)
      BY Zenon DEF Ev, CarriesArguments
    <3> HIDE DEF a
    <3>3. u = Tell(h, a) /\ IsSeq(<<a>>)
      BY ToldOne
    <3>4. CarriesArguments(e)
      BY <2>7 DEF CarriesArguments
    <3>5. ArgumentsMore(g, e, t)
      BY <2>2, <3>4, HearArguments DEF t
    <3>6. a.i < h.n
      <4>1. PICK j \in 1 .. Len(g.ids) : g.ids[j] = e.i
        BY <2>2, <3>4, WherePlaced
      <4>2. h.ids = g.ids /\ \A k \in 1 .. Len(h.ids) : h.ids[k] < h.n
        BY <2>2 DEF SameTold, Sane
      <4> QED BY <3>2, <4>1, <4>2
    <3>7. ArgumentsMore(h, a, u)
      BY <2>2, <2>3, <3>2, <3>3, <3>4, <3>6, <3>10, SayArguments
    <3> HIDE DEF u
    <3>8. SameTold(t, u)
      BY <2>2, <3>2, <3>5, <3>7 DEF ArgumentsMore, SameTold
    <3>9. HeardOn(g, t) /\ HeardOn(h, u) /\ u.done = h.done /\ t.n = g.n /\ u.n = h.n
      BY <3>5, <3>7 DEF ArgumentsMore, KeptPlace, KeptPhase
    <3>11. Follows(c, t, u)
      BY <2>1, <3>8, <3>9, R2CStill
    <3> QED BY <3>1, <3>3, <3>11, EmitsPasses DEF t, u
  <2>8. CASE e.t \in {"response.in_progress", "response.content_part.added",
                      "response.output_text.done", "response.content_part.done",
                      "response.output_item.done", "response.function_call_arguments.done"}
    <3>1. R2C(c, e) = Emits(c, <<>>)
      BY <1>2, <2>8 DEF R2C
    <3>2. HeardOn(g, t) /\ SameTold(t, h) /\ t.n = g.n
      <4>1. CASE Shuts(e)
        <5>1. ShutNow(g, t)
          BY <2>2, <4>1, HearShut DEF t
        <5> QED BY <2>2, <5>1 DEF ShutNow, SameTold
      <4>2. CASE ~Shuts(e)
        <5>1. Idle(e)
          BY <2>8, <4>2 DEF Idle, Announces, CarriesText, CarriesArguments, Names, Terminal
        <5>2. NothingNew(g, t)
          BY <2>2, <5>1, HearIdle DEF t
        <5> QED BY <2>2, <5>2 DEF NothingNew, SameTold, KeptPlace
      <4> QED BY <4>1, <4>2
    <3>3. Follows(c, t, h)
      BY <2>1, <2>2, <3>2, R2CStill
    <3> QED BY <3>1, <3>3, SilentPasses DEF t
  <2>9. CASE e.t \in {"response.completed", "response.incomplete"}
    <3>1. PICK finish, told : R2C(c, e) = R2CFinish(c, finish, told)
      BY <1>2, <2>9 DEF R2C
    <3> DEFINE d == [c EXCEPT !.terminal = TRUE, !.usage = @ \/ told]
               a == Ev("usage", 0, "", 0, c.usage \/ told)
               b == Of("finish", 0, finish)
               z == Plain("[DONE]")
               m == Tell(h, a)
               v == Tell(m, b)
               u == Told(h, <<a, b, z>>)
    <3>2. R2C(c, e) = Emits(d, <<a, b, z>>)
      BY <3>1 DEF R2CFinish
    <3>3. d.name = "r2c" /\ d.terminal = TRUE
      BY DEF Works
    <3>4. /\ b.t = "finish" /\ b.i = 0 /\ b.n = 0
          /\ z.t = "[DONE]" /\ z.i = 0 /\ z.n = 0
      BY EventFields
    <3>5. a.t = "usage" /\ a.i = 0 /\ a.n = 0
      BY Zenon DEF Ev
    <3> HIDE DEF d, a, b, z
    <3>6. u = Tell(v, z) /\ IsSeq(<<a, b, z>>)
      BY ToldTriple
    <3>7. NothingNew(h, m)
      BY <2>2, <3>5, SayAside
    <3>8. Sane(m) /\ m.d = "chat"
      BY <2>2, <3>7 DEF NothingNew, HeardOn
    <3>9. OverNow(m, v)
      <4> HIDE DEF m
      <4> QED BY <3>4, <3>8, SayOver
    <3>10. Sane(v) /\ v.d = "chat"
      BY <3>8, <3>9 DEF OverNow, HeardOn
    <3> HIDE DEF m, v, u
    <3>11. OverNow(v, u)
      BY <3>4, <3>6, <3>10, SayOver
    <3>12. Terminal(e)
      BY <2>9 DEF Terminal
    <3>13. OverNow(g, t)
      BY <2>2, <3>12, HearEnd DEF t
    <3>14. HeardOn(h, u) /\ SameTold(h, u)
      BY <3>7, <3>9, <3>11 DEF OverNow, NothingNew, HeardOn, SameTold
    <3>15. R2CFollows(d, t, u)
      BY <2>2, <3>3, <3>13, <3>14 DEF OverNow, R2CFollows, SameTold
    <3>16. Follows(d, t, u)
      BY <3>3, <3>13, <3>14, <3>15, StillFollows DEF OverNow
    <3> QED BY <3>2, <3>6, <3>16, EmitsPasses DEF t, u
  <2>10. CASE e.t = "response.failed"
    <3>1. R2C(c, e) = Fails(c)
      BY <1>2, <2>10 DEF R2C
    <3> QED BY <3>1 DEF Fails
  <2> QED BY <2>3, <2>4, <2>5, <2>6, <2>7, <2>8, <2>9, <2>10
<1> QED BY <1>1, <1>2

\* A Messages block may start when none is open.
LEMMA SayStart ==
  ASSUME NEW h, NEW e, NEW t, t = Tell(h, e), Sane(h), h.d = "messages", ~h.any,
         e.t = "message_start", e.i \in Nat, e.n \in Nat
  PROVE  BegunNow(h, t)
<1>1. ~Announces(e) /\ ~CarriesText(e) /\ ~CarriesArguments(e) /\ ~Names(e)
  BY DEF Announces, CarriesText, CarriesArguments, Names
<1>2. ~Content(e)
  BY <1>1 DEF Content
<1>3. MayFollow(h, e)
  BY <1>1, <1>2 DEF MayFollow, Lexicon, MessagesGoOn
<1> QED BY <1>3, HearBegin

\* A converter between Responses and Messages.
R2MAt(c, g, h) ==
  /\ Works(c) /\ c.name = "r2m" /\ ~c.terminal /\ Follows(c, g, h)
  /\ Sane(g) /\ Sane(h) /\ g.d = "responses" /\ h.d = "messages" /\ ~h.done /\ (h.any => g.any)
  /\ g.n \in Nat /\ h.n \in Nat /\ g.single \in BOOLEAN /\ g.open \in BOOLEAN /\ h.open \in BOOLEAN
  /\ g.begun \in BOOLEAN /\ g.begun = c.started /\ h.begun = c.started
  /\ c.block = h.n - 1 /\ h.open = c.open
  /\ h.open => h.n > 0
  /\ c.open => /\ c.stopped = FALSE /\ c.kind \in {"message", "function_call"}
               /\ h.kind = IF c.kind = "message" THEN "text" ELSE "tool_use"
  /\ g.single => /\ SameTold(g, h) /\ g.n = h.n /\ g.open = c.open
                 /\ g.open => g.kind = c.kind

\* What a converter to Messages knows of its two readers.
LEMMA R2MHere ==
  ASSUME NEW c, NEW g, NEW h, Works(c), c.name = "r2m", ~c.terminal, Follows(c, g, h)
  PROVE  R2MAt(c, g, h)
<1>1. /\ Sane(g) /\ Sane(h) /\ g.d = "responses" /\ h.d = "messages" /\ ~h.done /\ (h.any => g.any)
      /\ R2MFollows(c, g, h)
  BY DEF Follows, From, To
<1>2. /\ g.n \in Nat /\ h.n \in Nat /\ g.single \in BOOLEAN /\ g.open \in BOOLEAN
      /\ h.open \in BOOLEAN /\ g.begun \in BOOLEAN
  BY <1>1, SaneHas
<1>3. h.open => h.n > 0
  BY <1>1 DEF Sane
<1> QED BY <1>1, <1>2, <1>3 DEF R2MAt, R2MFollows

\* Nothing of the reply changes for the client.
LEMMA R2MStill ==
  ASSUME NEW c, NEW g, NEW h, NEW t, R2MAt(c, g, h), HeardOn(g, t), t.begun = g.begun,
         t.single => /\ g.single /\ SameTold(g, t) /\ t.n = g.n
                     /\ t.open = g.open /\ t.kind = g.kind
  PROVE  Follows(c, t, h)
<1>1. /\ t.single => SameTold(t, h)
      /\ t.single => t.n = h.n /\ t.open = c.open /\ (t.open => t.kind = c.kind)
  BY DEF R2MAt, SameTold
<1>2. R2MFollows(c, t, h)
  BY <1>1 DEF R2MFollows, R2MAt
<1> QED BY <1>2, StillFollows DEF R2MAt

\* Responses to Messages passes on what begins and closes items.
LEMMA R2MPassesBlocks ==
  ASSUME NEW c, NEW e, NEW g, NEW h, R2MAt(c, g, h), MayFollow(g, e), ~R2M(c, e).err,
         e.t \in {"response.output_item.added", "response.output_text.done",
                  "response.content_part.done", "response.output_item.done"}
  PROVE  Passes(R2M(c, e), e, g, h)
<1> DEFINE t == Tell(g, e)
<1>1. /\ Works(c) /\ c.name = "r2m" /\ ~c.terminal /\ Follows(c, g, h)
      /\ Sane(g) /\ Sane(h) /\ g.d = "responses" /\ h.d = "messages" /\ ~h.done
      /\ g.n \in Nat /\ h.n \in Nat /\ g.single \in BOOLEAN /\ g.open \in BOOLEAN /\ h.open \in BOOLEAN
      /\ g.begun \in BOOLEAN /\ g.begun = c.started /\ h.begun = c.started
      /\ c.block = h.n - 1 /\ h.open = c.open
      /\ h.open => h.n > 0
      /\ c.open => /\ c.stopped = FALSE /\ c.kind \in {"message", "function_call"}
                   /\ h.kind = IF c.kind = "message" THEN "text" ELSE "tool_use"
      /\ g.single => /\ SameTold(g, h) /\ g.n = h.n /\ g.open = c.open
                     /\ g.open => g.kind = c.kind
  BY DEF R2MAt
<1>2. ResponsesGoOn(g, e) /\ e.i \in Nat /\ e.n \in Nat
  BY <1>1 DEF MayFollow
<1> HIDE DEF t
<1>3. CASE e.t = "response.output_item.added"
  <2>0. Announces(e) /\ e.i = g.n /\ g.begun
    BY <1>2, <1>3 DEF Announces, ResponsesGoOn, Content
  <2>1. OneAnnounced(g, e, t)
    BY <1>1, <2>0, HearAnnounce DEF t
  <2>2. R2M(c, e) = R2MAdded(c, e)
    BY <1>1, <1>3 DEF R2M
  <2>3. e.k \in {"message", "function_call"}
    <3>1. ASSUME e.k \notin {"message", "function_call"} PROVE FALSE
      <4>1. R2MAdded(c, e) = Fails(c)
        BY <3>1 DEF R2MAdded
      <4> QED BY <2>2, <4>1 DEF Fails
    <3> QED BY <3>1
  <2>4. CASE c.open
    <3>1. R2M(c, e) = Emits(c, <<>>)
      BY <2>2, <2>3, <2>4 DEF R2MAdded
    <3>2. ~t.single
      BY <1>1, <2>1, <2>4 DEF OneAnnounced
    <3>3. HeardOn(g, t) /\ t.begun = g.begun
      BY <2>1 DEF OneAnnounced, KeptPhase
    <3>4. Follows(c, t, h)
      BY <3>2, <3>3, R2MStill
    <3> QED BY <3>1, <3>4, SilentPasses DEF t
  <2>5. CASE ~c.open
    <3> DEFINE k == IF e.k = "message" THEN "text" ELSE "tool_use"
               d == [c EXCEPT !.open = TRUE, !.stopped = FALSE, !.block = @ + 1, !.kind = e.k]
               a == Of("content_block_start", c.block + 1, k)
               u == Told(h, <<a>>)
    <3>1. R2M(c, e) = Emits(d, <<a>>)
      BY <2>2, <2>3, <2>5 DEF R2MAdded
    <3>2. /\ d.name = c.name /\ d.terminal = c.terminal /\ d.open = TRUE /\ d.stopped = FALSE
          /\ d.block = c.block + 1 /\ d.kind = e.k /\ d.started = c.started
      BY <1>1 DEF Works
    <3>3. a.t = "content_block_start" /\ a.i = c.block + 1 /\ a.k = k /\ a.n = 0
      BY EventFields
    <3> HIDE DEF d, a
    <3>4. u = Tell(h, a) /\ IsSeq(<<a>>)
      BY ToldOne
    <3>5. a.i = h.n /\ h.begun /\ ~h.open
      BY <1>1, <2>0, <2>5, <3>3
    <3>6. OneAnnounced(h, a, u)
      BY <1>1, <3>3, <3>4, <3>5, SayNew
    <3> HIDE DEF u
    <3>7. Names(e) <=> Names(a)
      BY <1>3, <2>3, <3>3 DEF Names
    <3>8. t.single => g.single
      BY <1>1, <2>1 DEF OneAnnounced
    <3>9. t.single => SameTold(t, u) /\ t.n = u.n
      BY <1>1, <2>1, <3>6, <3>7, <3>8 DEF OneAnnounced, SameTold
    <3>10. /\ HeardOn(g, t) /\ t.begun = g.begun /\ t.open = TRUE /\ t.kind = e.k
           /\ HeardOn(h, u) /\ u.begun = h.begun /\ u.open = TRUE /\ u.kind = k /\ u.n = h.n + 1
           /\ u.done = h.done
      BY <2>1, <3>3, <3>6 DEF OneAnnounced, KeptPhase
    <3>11. d.block = u.n - 1
      BY <1>1, <3>2, <3>10
    <3>12. R2MFollows(d, t, u)
      BY <1>1, <2>3, <3>2, <3>9, <3>10, <3>11 DEF R2MFollows
    <3>13. Follows(d, t, u)
      BY <1>1, <3>2, <3>10, <3>12, StillFollows
    <3> QED BY <3>1, <3>4, <3>13, EmitsPasses DEF t, u
  <2> QED BY <2>4, <2>5
<1>4. CASE e.t \in {"response.output_text.done", "response.content_part.done",
                    "response.output_item.done"}
  <2>1. Shuts(e)
    BY <1>4 DEF Shuts
  <2>2. ShutNow(g, t)
    BY <1>1, <2>1, HearShut DEF t
  <2>3. CASE c.open
    <3> DEFINE d == CloseBlock(c)
               a == At("content_block_stop", c.block)
               u == Told(h, <<a>>)
    <3>1. R2M(c, e) = Emits(d, <<a>>)
      BY <1>1, <1>4, <2>3 DEF R2M
    <3>2. /\ d.name = c.name /\ d.terminal = c.terminal /\ d.open = FALSE
          /\ d.block = c.block /\ d.started = c.started
      BY <1>1 DEF Works, CloseBlock
    <3>3. a.t = "content_block_stop" /\ a.i = c.block /\ a.n = 0
      BY EventFields
    <3> HIDE DEF d, a
    <3>4. u = Tell(h, a) /\ IsSeq(<<a>>)
      BY ToldOne
    <3>5. a.i = h.n - 1 /\ a.i \in Nat /\ h.begun /\ h.open
      <4>1. h.n > 0 /\ h.open
        BY <1>1, <2>3
      <4>2. h.begun
        BY <1>1, <4>1 DEF Sane
      <4> QED BY <1>1, <3>3, <4>1, <4>2
    <3>6. ShutNow(h, u)
      BY <1>1, <3>3, <3>4, <3>5, SayShut
    <3> HIDE DEF u
    <3>7. t.single => SameTold(t, u) /\ t.n = u.n
      BY <1>1, <2>2, <3>6 DEF ShutNow, SameTold
    <3>8. /\ HeardOn(g, t) /\ t.begun = g.begun /\ t.open = FALSE
          /\ HeardOn(h, u) /\ u.begun = h.begun /\ u.open = FALSE /\ u.n = h.n /\ u.done = h.done
      BY <2>2, <3>6 DEF ShutNow, KeptPhase
    <3>9. R2MFollows(d, t, u)
      BY <1>1, <3>2, <3>7, <3>8 DEF R2MFollows
    <3>10. Follows(d, t, u)
      BY <1>1, <3>2, <3>8, <3>9, StillFollows
    <3> QED BY <3>1, <3>4, <3>10, EmitsPasses DEF t, u
  <2>4. CASE ~c.open
    <3>1. R2M(c, e) = Emits(c, <<>>)
      BY <1>1, <1>4, <2>4 DEF R2M
    <3>2. HeardOn(g, t) /\ t.begun = g.begun /\ t.single = g.single /\ SameTold(g, t) /\ t.n = g.n
          /\ t.open = FALSE /\ t.kind = g.kind
      BY <2>2 DEF ShutNow, KeptPhase
    <3>3. g.single => g.open = FALSE
      BY <1>1, <2>4
    <3>4. Follows(c, t, h)
      BY <3>2, <3>3, R2MStill
    <3> QED BY <3>1, <3>4, SilentPasses DEF t
  <2> QED BY <2>3, <2>4
<1> QED BY <1>3, <1>4

\* Responses to Messages passes on the tokens.
LEMMA R2MPassesDeltas ==
  ASSUME NEW c, NEW e, NEW g, NEW h, R2MAt(c, g, h), MayFollow(g, e),
         e.t \in {"response.output_text.delta", "response.function_call_arguments.delta"}
  PROVE  Passes(R2M(c, e), e, g, h)
<1> DEFINE t == Tell(g, e)
<1>1. /\ Works(c) /\ c.name = "r2m" /\ ~c.terminal /\ Follows(c, g, h)
      /\ Sane(g) /\ Sane(h) /\ g.d = "responses" /\ h.d = "messages" /\ ~h.done
      /\ g.n \in Nat /\ h.n \in Nat /\ g.single \in BOOLEAN /\ g.open \in BOOLEAN /\ h.open \in BOOLEAN
      /\ g.begun \in BOOLEAN /\ g.begun = c.started /\ h.begun = c.started
      /\ c.block = h.n - 1 /\ h.open = c.open
      /\ h.open => h.n > 0
      /\ c.open => /\ c.stopped = FALSE /\ c.kind \in {"message", "function_call"}
                   /\ h.kind = IF c.kind = "message" THEN "text" ELSE "tool_use"
      /\ g.single => /\ SameTold(g, h) /\ g.n = h.n /\ g.open = c.open
                     /\ g.open => g.kind = c.kind
  BY DEF R2MAt
<1>2. ResponsesGoOn(g, e) /\ e.i \in Nat /\ e.n \in Nat /\ (CarriesArguments(e) => e.n # 0)
  BY <1>1 DEF MayFollow
<1>3. c.open => h.begun /\ h.open /\ c.block \in Nat
  <2>1. c.open => h.open /\ h.n > 0
    BY <1>1
  <2>2. h.n > 0 => h.begun
    BY <1>1 DEF Sane
  <2> QED BY <1>1, <2>1, <2>2
<1> HIDE DEF t
\* A delta that is not for the open block.
<1>4. ASSUME HeardOn(g, t), t.begun = g.begun, ~t.single, R2M(c, e) = Emits(c, <<>>)
      PROVE  Passes(R2M(c, e), e, g, h)
  <2>1. Follows(c, t, h)
    BY <1>4, R2MStill
  <2> QED BY <1>4, <2>1, SilentPasses DEF t
\* A delta that is.
<1>5. ASSUME NEW u, HeardOn(g, t), KeptPlace(g, t), KeptPhase(g, t),
             HeardOn(h, u), KeptPlace(h, u), KeptPhase(h, u),
             t.single => g.single /\ SameTold(t, u)
      PROVE  Follows(c, t, u)
  <2>1. /\ t.begun = g.begun /\ t.n = g.n /\ t.open = g.open /\ t.kind = g.kind
        /\ u.begun = h.begun /\ u.n = h.n /\ u.open = h.open /\ u.kind = h.kind /\ u.done = h.done
    BY <1>5 DEF KeptPlace, KeptPhase
  <2>2. R2MFollows(c, t, u)
    BY <1>1, <1>5, <2>1 DEF R2MFollows
  <2> QED BY <1>1, <1>5, <2>1, <2>2, StillFollows
<1>6. CASE e.t = "response.output_text.delta"
  <2>1. CarriesText(e)
    BY <1>6 DEF CarriesText
  <2>2. TextMore(g, e, t)
    BY <1>1, <2>1, HearText DEF t
  <2>3. HeardOn(g, t) /\ KeptPlace(g, t) /\ KeptPhase(g, t) /\ t.begun = g.begun
    BY <2>2 DEF TextMore, KeptPhase
  <2>4. CASE ~(c.open /\ c.kind = "message")
    <3>1. R2M(c, e) = Emits(c, <<>>)
      BY <1>1, <1>6, <2>4 DEF R2M
    <3>2. ~t.single
      BY <1>1, <2>2, <2>4 DEF TextMore
    <3> QED BY <1>4, <2>3, <3>1, <3>2
  <2>5. CASE c.open /\ c.kind = "message"
    <3> DEFINE a == Ev("content_block_delta", c.block, "text_delta", e.n, FALSE)
               u == Told(h, <<a>>)
    <3>1. R2M(c, e) = Emits(c, <<a>>)
      BY <1>1, <1>6, <2>5 DEF R2M
    <3>2. a.t = "content_block_delta" /\ a.i = c.block /\ a.k = "text_delta" /\ a.n = e.n
      BY Zenon DEF Ev
    <3> HIDE DEF a
    <3>3. u = Tell(h, a) /\ IsSeq(<<a>>)
      BY ToldOne
    <3>4. h.kind = "text"
      BY <1>1, <2>5
    <3>5. TextMore(h, a, u)
      BY <1>1, <1>2, <1>3, <2>5, <3>2, <3>3, <3>4, SayText
    <3> HIDE DEF u
    <3>6. t.single => g.single /\ SameTold(t, u)
      BY <1>1, <2>2, <3>2, <3>5 DEF TextMore, SameTold
    <3>7. HeardOn(h, u) /\ KeptPlace(h, u) /\ KeptPhase(h, u)
      BY <3>5 DEF TextMore
    <3>8. Follows(c, t, u)
      BY <1>5, <2>3, <3>6, <3>7
    <3> QED BY <3>1, <3>3, <3>8, EmitsPasses DEF t, u
  <2> QED BY <2>4, <2>5
<1>7. CASE e.t = "response.function_call_arguments.delta"
  <2>1. CarriesArguments(e)
    BY <1>7 DEF CarriesArguments
  <2>2. ArgumentsMore(g, e, t)
    BY <1>1, <2>1, HearArguments DEF t
  <2>3. HeardOn(g, t) /\ KeptPlace(g, t) /\ KeptPhase(g, t) /\ t.begun = g.begun
    BY <2>2 DEF ArgumentsMore, KeptPhase
  <2>4. CASE ~(c.open /\ c.kind = "function_call")
    <3>1. R2M(c, e) = Emits(c, <<>>)
      BY <1>1, <1>7, <2>4 DEF R2M
    <3>2. ~t.single
      BY <1>1, <2>2, <2>4 DEF ArgumentsMore
    <3> QED BY <1>4, <2>3, <3>1, <3>2
  <2>5. CASE c.open /\ c.kind = "function_call"
    <3> DEFINE a == Ev("content_block_delta", c.block, "input_json_delta", e.n, FALSE)
               u == Told(h, <<a>>)
    <3>1. R2M(c, e) = Emits(c, <<a>>)
      BY <1>1, <1>7, <2>5 DEF R2M
    <3>2. a.t = "content_block_delta" /\ a.i = c.block /\ a.k = "input_json_delta" /\ a.n = e.n
      BY Zenon DEF Ev
    <3> HIDE DEF a
    <3>3. u = Tell(h, a) /\ IsSeq(<<a>>)
      BY ToldOne
    <3>4. h.kind = "tool_use"
      BY <1>1, <2>5
    <3>5. ArgumentsMore(h, a, u)
      BY <1>1, <1>2, <1>3, <2>1, <2>5, <3>2, <3>3, <3>4, SayArguments
    <3> HIDE DEF u
    <3>6. t.single => g.single /\ e.i = g.n - 1
      BY <1>1, <2>2 DEF ArgumentsMore
    <3>7. t.single => a.i = e.i
      BY <1>1, <3>2, <3>6
    <3>8. t.single => g.single /\ SameTold(t, u)
      <4>1. ASSUME t.single PROVE SameTold(t, u)
        <5>1. a.i = e.i /\ a.n = e.n /\ SameTold(g, h)
          BY <1>1, <3>2, <3>6, <3>7, <4>1
        <5> QED BY <2>2, <3>5, <5>1 DEF ArgumentsMore, SameTold
      <4> QED BY <3>6, <4>1
    <3>9. HeardOn(h, u) /\ KeptPlace(h, u) /\ KeptPhase(h, u)
      BY <3>5 DEF ArgumentsMore
    <3>10. Follows(c, t, u)
      BY <1>5, <2>3, <3>8, <3>9
    <3> QED BY <3>1, <3>3, <3>10, EmitsPasses DEF t, u
  <2> QED BY <2>4, <2>5
<1> QED BY <1>6, <1>7

\* Responses to Messages passes on the end of the reply.
LEMMA R2MPassesEnd ==
  ASSUME NEW c, NEW e, NEW g, NEW h, R2MAt(c, g, h), MayFollow(g, e), e.t = "response.completed"
  PROVE  Passes(R2M(c, e), e, g, h)
<1> DEFINE t == Tell(g, e)
           d == [CloseBlock(c) EXCEPT !.terminal = TRUE]
           s == At("content_block_stop", c.block)
           x == IF c.open /\ ~c.stopped THEN <<s>> ELSE <<>>
           a == Ev("message_delta", 0, IF e.k = "" THEN "end_turn" ELSE e.k, 0, e.u)
           z == Plain("message_stop")
           k == Told(h, x)
           m == Tell(k, a)
           u == Told(h, x \o <<a, z>>)
<1>1. /\ Works(c) /\ c.name = "r2m" /\ ~c.terminal /\ Follows(c, g, h)
      /\ Sane(g) /\ Sane(h) /\ g.d = "responses" /\ h.d = "messages"
      /\ h.n \in Nat /\ h.open \in BOOLEAN /\ g.single \in BOOLEAN
      /\ c.block = h.n - 1 /\ h.open = c.open
      /\ h.open => h.n > 0
      /\ c.open => c.stopped = FALSE
      /\ g.single => SameTold(g, h)
  BY DEF R2MAt
<1>2. R2M(c, e) = R2MFinish(c, e)
  BY <1>1 DEF R2M
<1>3. R2MFinish(c, e) = Emits(d, x \o <<a, z>>)
  BY DEF R2MFinish
<1>4. d.name = "r2m" /\ d.terminal = TRUE
  BY <1>1 DEF Works, CloseBlock
<1>5. /\ s.t = "content_block_stop" /\ s.i = c.block /\ s.n = 0
      /\ z.t = "message_stop" /\ z.i = 0 /\ z.n = 0
  BY EventFields
<1>6. a.t = "message_delta" /\ a.i = 0 /\ a.n = 0
  BY Zenon DEF Ev
<1> HIDE DEF t, d, s, a, z
<1>7. /\ IsSeq(x) /\ (HeardOn(h, k) \/ k = h)
      /\ Sane(k) /\ k.d = "messages" /\ ~k.open /\ SameTold(h, k)
  <2>1. CASE c.open
    <3>1. x = <<s>> /\ k = Tell(h, s) /\ IsSeq(x)
      <4>1. x = <<s>>
        BY <1>1, <2>1
      <4> QED BY <4>1, ToldOne
    <3>2. s.i = h.n - 1 /\ s.i \in Nat /\ h.begun /\ h.open
      <4>1. h.n > 0 /\ h.open
        BY <1>1, <2>1
      <4>2. h.begun
        BY <1>1, <4>1 DEF Sane
      <4> QED BY <1>1, <1>5, <4>1, <4>2
    <3> HIDE DEF k, x
    <3>3. ShutNow(h, k)
      BY <1>1, <1>5, <3>1, <3>2, SayShut
    <3>4. HeardOn(h, k) /\ ~k.open /\ SameTold(h, k)
      BY <3>3 DEF ShutNow
    <3>5. Sane(k) /\ k.d = h.d
      BY <3>4 DEF HeardOn
    <3> QED BY <1>1, <3>1, <3>4, <3>5
  <2>2. CASE ~c.open
    <3>1. x = <<>>
      BY <2>2
    <3>2. k = h /\ IsSeq(x)
      BY <3>1, ToldNothing, NothingSaid
    <3> QED BY <1>1, <2>2, <3>2 DEF SameTold
  <2> QED BY <2>1, <2>2
<1>8. u = Tell(m, z) /\ IsSeq(x \o <<a, z>>)
  <2>1. IsSeq(x) /\ IsSeq(<<a, z>>)
    BY <1>7, ToldPair
  <2>2. u = Told(k, <<a, z>>)
    <3> HIDE DEF x
    <3> QED BY <2>1, ToldJoined
  <2> HIDE DEF x, k
  <2>3. IsSeq(x \o <<a, z>>)
    BY <2>1, Joined
  <2> QED BY <2>2, <2>3, ToldPair
<1> HIDE DEF k, x, u
<1>9. NothingNew(k, m)
  BY <1>6, <1>7, SayAside
<1>10. Sane(m) /\ m.d = "messages" /\ ~m.open
  BY <1>7, <1>9 DEF NothingNew, HeardOn, KeptPlace
<1> HIDE DEF m
<1>11. OverNow(m, u)
  BY <1>5, <1>8, <1>10, SayOver
<1>12. HeardOn(h, u) /\ SameTold(h, u)
  BY <1>1, <1>7, <1>9, <1>11 DEF OverNow, NothingNew, HeardOn, SameTold
<1>13. Terminal(e)
  BY DEF Terminal
<1>14. OverNow(g, t)
  BY <1>1, <1>13, HearEnd DEF t
<1>15. R2MFollows(d, t, u)
  BY <1>1, <1>4, <1>12, <1>14 DEF OverNow, R2MFollows, SameTold
<1>16. Follows(d, t, u)
  BY <1>1, <1>4, <1>12, <1>14, <1>15, StillFollows DEF OverNow
<1> QED BY <1>2, <1>3, <1>8, <1>16, EmitsPasses DEF t, u

\* Responses to Messages passes every event on (R2M).
LEMMA R2MPasses ==
  ASSUME NEW c, NEW e, NEW g, NEW h, Works(c), c.name = "r2m", Follows(c, g, h),
         MayFollow(g, e), ~R2M(c, e).err
  PROVE  Passes(R2M(c, e), e, g, h)
<1>1. CASE c.terminal
  <2>1. R2M(c, e) = Emits(c, <<>>)
    BY <1>1 DEF R2M
  <2> QED BY <1>1, <2>1, EndedFollows
<1>2. CASE ~c.terminal
  <2> DEFINE t == Tell(g, e)
  <2>1. R2MAt(c, g, h)
    BY <1>2, R2MHere
  <2>2. /\ Sane(g) /\ Sane(h) /\ g.d = "responses" /\ h.d = "messages" /\ (h.any => g.any)
        /\ g.begun \in BOOLEAN /\ g.begun = c.started /\ h.begun = c.started
        /\ g.single \in BOOLEAN
    BY <2>1 DEF R2MAt
  <2>3. /\ ResponsesGoOn(g, e) /\ e.i \in Nat /\ e.n \in Nat
        /\ e.t \in {"response.created", "response.in_progress", "response.output_item.added",
                    "response.content_part.added", "response.output_text.delta",
                    "response.function_call_arguments.delta", "response.output_text.done",
                    "response.content_part.done", "response.function_call_arguments.done",
                    "response.output_item.done", "response.completed", "response.incomplete",
                    "response.failed"}
    BY <2>2 DEF MayFollow, Lexicon
  <2> HIDE DEF t
  <2>4. CASE e.t = "response.created"
    <3> DEFINE d == [c EXCEPT !.started = TRUE]
               a == Plain("message_start")
    <3>1. /\ d.name = c.name /\ d.terminal = c.terminal /\ d.started = TRUE /\ d.open = c.open
          /\ d.stopped = c.stopped /\ d.kind = c.kind /\ d.block = c.block
      BY DEF Works
    <3>2. a.t = "message_start" /\ a.i = 0 /\ a.n = 0
      BY EventFields
    <3>3. BegunNow(g, t)
      BY <2>2, <2>4, HearBegin DEF t
    <3>4. R2M(c, e) = Emits(d, IF c.started THEN <<>> ELSE <<a>>)
      BY <1>2, <2>4 DEF R2M
    <3> HIDE DEF d, a
    <3>5. ASSUME NEW u, HeardOn(h, u) \/ u = h, KeptPlace(h, u), SameTold(h, u), u.begun = TRUE,
                 u.done = h.done
          PROVE  Follows(d, t, u)
      <4>1. /\ t.begun = TRUE /\ t.n = g.n /\ t.open = g.open /\ t.kind = g.kind /\ SameTold(g, t)
            /\ t.single = g.single /\ HeardOn(g, t)
            /\ u.n = h.n /\ u.open = h.open /\ u.kind = h.kind
        BY <3>3, <3>5 DEF BegunNow, KeptPlace
      <4>2. g.single => SameTold(t, u)
        BY <2>1, <3>5, <4>1 DEF SameTold, R2MAt
      <4>3. R2MFollows(d, t, u)
        BY <2>1, <3>1, <3>5, <4>1, <4>2 DEF R2MFollows, R2MAt
      <4>4. d.name = "r2m" /\ ~d.terminal /\ ~u.done
        BY <1>2, <2>1, <3>1, <3>5 DEF R2MAt
      <4> QED BY <3>1, <3>5, <4>1, <4>3, <4>4, StillFollows
    <3>6. CASE c.started
      <4>1. R2M(c, e) = Emits(d, <<>>)
        BY <3>4, <3>6
      <4>2. h.begun = TRUE
        BY <2>2, <3>6
      <4>3. Follows(d, t, h)
        BY <3>5, <4>2 DEF KeptPlace, SameTold
      <4> QED BY <4>1, <4>3, SilentPasses DEF t
    <3>7. CASE ~c.started
      <4> DEFINE u == Told(h, <<a>>)
      <4>1. R2M(c, e) = Emits(d, <<a>>)
        BY <3>4, <3>7
      <4>2. ~h.any
        BY <2>2, <2>3, <2>4, <3>7 DEF ResponsesGoOn
      <4>3. u = Tell(h, a) /\ IsSeq(<<a>>)
        BY ToldOne
      <4>4. BegunNow(h, u)
        BY <2>2, <3>2, <4>2, <4>3, SayStart
      <4> HIDE DEF u
      <4>5. Follows(d, t, u)
        BY <3>5, <4>4 DEF BegunNow
      <4> QED BY <4>1, <4>3, <4>5, EmitsPasses DEF t, u
    <3> QED BY <3>6, <3>7
  <2>5. CASE e.t \in {"response.output_item.added", "response.output_text.done",
                      "response.content_part.done", "response.output_item.done"}
    BY <2>1, <2>5, R2MPassesBlocks
  <2>6. CASE e.t \in {"response.output_text.delta", "response.function_call_arguments.delta"}
    BY <2>1, <2>6, R2MPassesDeltas
  <2>7. CASE e.t \in {"response.in_progress", "response.content_part.added",
                      "response.function_call_arguments.done"}
    <3>1. R2M(c, e) = Emits(c, <<>>)
      BY <1>2, <2>7 DEF R2M
    <3>2. Idle(e)
      BY <2>7 DEF Idle, Announces, Shuts, CarriesText, CarriesArguments, Names, Terminal
    <3>3. NothingNew(g, t)
      BY <2>2, <3>2, HearIdle DEF t
    <3>4. /\ HeardOn(g, t) /\ t.begun = g.begun /\ t.single = g.single /\ SameTold(g, t)
          /\ t.n = g.n /\ t.open = g.open /\ t.kind = g.kind
      BY <3>3 DEF NothingNew, KeptPlace, KeptPhase
    <3>5. Follows(c, t, h)
      BY <2>1, <3>4, R2MStill
    <3> QED BY <3>1, <3>5, SilentPasses DEF t
  <2>8. CASE e.t = "response.completed"
    BY <2>1, <2>8, R2MPassesEnd
  <2>9. CASE e.t \in {"response.incomplete", "response.failed"}
    <3>1. R2M(c, e) = Fails([c EXCEPT !.terminal = TRUE])
      BY <1>2, <2>9 DEF R2M
    <3> QED BY <3>1 DEF Fails
  <2> QED BY <2>3, <2>4, <2>5, <2>6, <2>7, <2>8, <2>9
<1> QED BY <1>1, <1>2

\* Closing what is open leaves everything else alone.
Winding(h, k) ==
  /\ Sane(k) /\ k.d = h.d /\ k.n = h.n /\ KeptPhase(h, k) /\ SameTold(h, k) /\ k.single = h.single

\* One call wound up.
LEMMA WindOne ==
  ASSUME NEW h, NEW k, NEW e, NEW t, t = Tell(k, e), Winding(h, k), h.d = "responses",
         e.i \in Nat, e.i < h.n, e.n = 0,
         e.t \in {"response.output_text.done", "response.content_part.done",
                  "response.output_item.done", "response.function_call_arguments.done"}
  PROVE  Winding(h, t)
<1>1. Sane(k) /\ k.d = "responses" /\ k.n = h.n
  BY DEF Winding
<1>2. CASE e.t = "response.function_call_arguments.done"
  <2>1. NothingNew(k, t)
    BY <1>1, <1>2, SayAside
  <2> QED BY <2>1 DEF NothingNew, Winding, HeardOn, KeptPlace, KeptPhase, SameTold
<1>3. CASE e.t # "response.function_call_arguments.done"
  <2>1. ShutNow(k, t)
    BY <1>1, <1>3, SayShut
  <2> QED BY <2>1 DEF ShutNow, Winding, HeardOn, KeptPhase, SameTold
<1> QED BY <1>2, <1>3

\* All calls wound up, one after the other.
LEMMA WindFlattened ==
  ASSUME NEW h, NEW k, NEW ss, IsSeq(ss), Winding(h, k),
         \A i \in 1 .. Len(ss) :
           IsSeq(ss[i]) /\ \A l : Winding(h, l) => Winding(h, Told(l, ss[i]))
  PROVE  IsSeq(FlattenSeq(ss)) /\ Winding(h, Told(k, FlattenSeq(ss)))
<1>1. Len(ss) \in Nat
  BY DEF IsSeq
<1>2. CASE Len(ss) = 0
  <2>1. FlattenSeq(ss) = <<>>
    BY <1>2, EmptyIs DEF FlattenSeq
  <2> QED BY <2>1, NothingSaid, ToldNothing
<1>3. CASE Len(ss) # 0
  <2> DEFINE g == CHOOSE f : FlattenedBy(ss, Len(ss), f)
  <2>1. FlattenedBy(ss, Len(ss), g)
    BY <1>1, FlattenedExists
  <2>2. FlattenSeq(ss) = g[Len(ss)]
    BY <1>3 DEF FlattenSeq, FlattenedBy
  <2> HIDE DEF g
  <2>3. \A i \in 1 .. Len(ss) : g[i] = IF i = 1 THEN ss[i] ELSE g[i - 1] \o ss[i]
    BY <2>1 DEF FlattenedBy
  <2> DEFINE S == {m \in Nat : m = 0 \/ (IsSeq(g[m]) /\ Winding(h, Told(k, g[m])))}
  <2>4. 0 \in S
    OBVIOUS
  <2>5. ASSUME NEW m \in Nat, m \in S, m < Len(ss) PROVE m + 1 \in S
    <3>1. m + 1 \in 1 .. Len(ss) /\ (m + 1) - 1 = m /\ (m + 1 = 1 <=> m = 0)
      BY <1>1, <2>5
    <3>2. IsSeq(ss[m + 1]) /\ \A l : Winding(h, l) => Winding(h, Told(l, ss[m + 1]))
      BY <3>1
    <3>3. CASE m = 0
      BY <2>3, <3>1, <3>2, <3>3
    <3>4. CASE m # 0
      <4>1. g[m + 1] = g[m] \o ss[m + 1]
        BY <2>3, <3>1, <3>4
      <4>2. IsSeq(g[m]) /\ Winding(h, Told(k, g[m]))
        BY <2>5, <3>4
      <4>3. IsSeq(g[m] \o ss[m + 1])
        BY <3>2, <4>2, Joined
      <4>4. Told(k, g[m] \o ss[m + 1]) = Told(Told(k, g[m]), ss[m + 1])
        BY <3>2, <4>2, ToldJoined
      <4>5. Winding(h, Told(Told(k, g[m]), ss[m + 1]))
        BY <3>2, <4>2
      <4>6. IsSeq(g[m + 1]) /\ Winding(h, Told(k, g[m + 1]))
        BY <4>1, <4>3, <4>4, <4>5
      <4> QED BY <4>6
    <3> QED BY <3>3, <3>4
  <2>6. S \in SUBSET Nat
    OBVIOUS
  <2> HIDE DEF S
  <2>7. \A i \in 0 .. Len(ss) : i \in S
    BY <1>1, <2>4, <2>5, <2>6, Induction
  <2>8. Len(ss) \in S
    BY <1>1, <2>7
  <2> QED BY <1>3, <2>2, <2>8 DEF S
<1> QED BY <1>2, <1>3

\* A converter between Chat and Responses.
C2RAt(c, g, h) ==
  /\ Works(c) /\ c.name = "c2r" /\ ~c.terminal /\ c.err = FALSE /\ Follows(c, g, h)
  /\ Sane(g) /\ Sane(h) /\ g.d = "chat" /\ h.d = "responses" /\ ~h.done
  /\ g.n \in Nat /\ h.n \in Nat /\ h.ids \in Seq(Nat) /\ h.args \in [Nat -> Seq(Nat)]
  /\ h.begun \in BOOLEAN
  /\ C2RFollows(c, g, h)

\* What a converter from Chat knows of its two readers.
LEMMA C2RHere ==
  ASSUME NEW c, NEW g, NEW h, Works(c), c.name = "c2r", ~c.terminal, Follows(c, g, h)
  PROVE  C2RAt(c, g, h)
<1>1. /\ Sane(g) /\ Sane(h) /\ g.d = "chat" /\ h.d = "responses" /\ ~h.done
      /\ C2RFollows(c, g, h)
  BY DEF Follows, From, To
<1>2. /\ g.n \in Nat /\ h.n \in Nat /\ h.ids \in Seq(Nat) /\ h.args \in [Nat -> Seq(Nat)]
      /\ h.begun \in BOOLEAN
  BY <1>1, SaneHas
<1>3. c.err = FALSE
  BY DEF Works
<1> QED BY <1>1, <1>2, <1>3 DEF C2RAt

\* Nothing of the content changes.
LEMMA C2RStill ==
  ASSUME NEW c, NEW d, NEW g, NEW h, NEW t, C2RAt(c, g, h), HeardOn(g, t), SameTold(g, t),
         t.n = g.n, g.done => t.done, d.name = c.name, d.terminal = c.terminal,
         d.calls = c.calls, d.message = c.message, d.next = c.next, d.started = c.started,
         d.finish \in FinishReasons => t.done
  PROVE  Follows(d, t, h)
<1>1. t.n = g.n /\ t.text = g.text /\ t.args = g.args
  BY DEF SameTold
<1>2. Plainly(t) <=> Plainly(g)
  BY <1>1 DEF Plainly
<1>3. C2RFollows(d, t, h)
  BY <1>1, <1>2 DEF C2RFollows, C2RAt
<1> QED BY <1>3, StillFollows DEF C2RAt

\* The end of a Chat reply, with everything still open closed (C2RFinish).
LEMMA C2RFinishFollows ==
  ASSUME NEW d, NEW g, NEW h, NEW t, C2RAt(d, g, h), HeardOn(g, t), SameTold(g, t), t.n = g.n,
         t.done, ~C2RFinish(d).err
  PROVE  LET x == C2RFinish(d) IN IsSeq(x.out) /\ Follows(x.c, t, Told(h, x.out))
<1> DEFINE a == At("response.output_text.done", d.message)
           b == At("response.content_part.done", d.message)
           z == At("response.output_item.done", d.message)
           text == IF d.message < 0 THEN <<>> ELSE <<a, b, z>>
           call(i) == <<At("response.function_call_arguments.done", d.calls[i]),
                        At("response.output_item.done", d.calls[i])>>
           ss == [i \in DOMAIN d.calls |-> call(i)]
           end == CASE d.finish = "stop" -> Ev("response.completed", 0, "end_turn", 0, d.usage)
                    [] d.finish = "tool_calls" ->
                         Ev("response.completed", 0, "tool_use", 0, d.usage)
                    [] OTHER -> Ev("response.incomplete", 0, d.finish, 0, d.usage)
           new == [d EXCEPT !.terminal = TRUE]
           k == Told(h, text)
           m == Told(k, FlattenSeq(ss))
           q == text \o FlattenSeq(ss)
           u == Told(h, q \o <<end>>)
<1>1. C2RFinish(d) = Emits(new, text \o FlattenSeq(ss) \o <<end>>)
  BY DEF C2RFinish, Fails
<1>2. /\ Works(d) /\ d.name = "c2r" /\ ~d.terminal /\ Follows(d, g, h)
      /\ Sane(g) /\ Sane(h) /\ h.d = "responses" /\ g.n \in Nat /\ h.n \in Nat
      /\ h.ids \in Seq(Nat) /\ h.ids = d.calls /\ Len(h.ids) = g.n
      /\ d.message \in -1 .. h.n - 1
  BY DEF C2RAt, C2RFollows
<1>3. /\ a.t = "response.output_text.done" /\ a.i = d.message /\ a.n = 0
      /\ b.t = "response.content_part.done" /\ b.i = d.message /\ b.n = 0
      /\ z.t = "response.output_item.done" /\ z.i = d.message /\ z.n = 0
  BY EventFields
<1>4. end.t \in {"response.completed", "response.incomplete"} /\ end.i = 0 /\ end.n = 0
  BY DEF Ev
<1>5. new.name = "c2r" /\ new.terminal = TRUE /\ new.calls = d.calls
  BY <1>2 DEF Works
<1> HIDE DEF a, b, z, end, new
<1>6. Winding(h, h)
  BY <1>2 DEF Winding, KeptPhase, SameTold
<1>7. IsSeq(text) /\ Winding(h, k)
  <2>1. CASE d.message < 0
    <3>1. text = <<>>
      BY <2>1
    <3>2. IsSeq(<<>>) /\ Told(h, <<>>) = h
      BY NothingSaid, ToldNothing
    <3> HIDE DEF text
    <3> QED BY <1>6, <3>1, <3>2
  <2>2. CASE ~(d.message < 0)
    <3>1. text = <<a, b, z>>
      BY <2>2
    <3>2. d.message \in Nat /\ d.message < h.n
      BY <1>2, <2>2
    <3> DEFINE v == Tell(h, a)
               w == Tell(v, b)
    <3>3. k = Tell(w, z) /\ IsSeq(text)
      <4>1. Told(h, <<a, b, z>>) = Tell(w, z) /\ IsSeq(<<a, b, z>>)
        BY ToldTriple
      <4> HIDE DEF w
      <4> QED BY <3>1, <4>1
    <3>4. Winding(h, v)
      BY <1>2, <1>3, <1>6, <3>2, WindOne
    <3> HIDE DEF v
    <3>5. Winding(h, w)
      BY <1>2, <1>3, <3>2, <3>4, WindOne
    <3> HIDE DEF w, k, text
    <3>6. Winding(h, k)
      BY <1>2, <1>3, <3>2, <3>3, <3>5, WindOne
    <3> QED BY <3>3, <3>6
  <2> QED BY <2>1, <2>2
<1>8. IsSeq(FlattenSeq(ss)) /\ Winding(h, m)
  <2>1. DOMAIN d.calls = 1 .. Len(d.calls) /\ Len(d.calls) \in Nat
    BY <1>2 DEF Works, IsSeq
  <2>2. IsSeq(ss) /\ Len(ss) = Len(d.calls) /\ \A i \in 1 .. Len(ss) : ss[i] = call(i)
    <3> DEFINE n == Len(d.calls)
               R == {call(i) : i \in 1 .. n}
    <3>1. ss = [i \in 1 .. n |-> call(i)]
      BY <2>1
    <3>2. \A i \in 1 .. n : call(i) \in R
      OBVIOUS
    <3>3. n \in Nat
      BY <2>1
    <3> HIDE DEF n, R, call, ss
    <3>4. ss \in Seq(R) /\ Len(ss) = n
      BY <3>1, <3>2, <3>3
    <3> QED BY <3>1, <3>4, SeqIsSeq DEF n
  <2>3. \A i \in 1 .. Len(d.calls) :
          IsSeq(call(i)) /\ \A l : Winding(h, l) => Winding(h, Told(l, call(i)))
    <3>1. ASSUME NEW i \in 1 .. Len(d.calls)
          PROVE  IsSeq(call(i)) /\ \A l : Winding(h, l) => Winding(h, Told(l, call(i)))
      <4> DEFINE x == At("response.function_call_arguments.done", d.calls[i])
                 y == At("response.output_item.done", d.calls[i])
      <4>1. d.calls[i] \in Nat /\ d.calls[i] < h.n
        <5>1. h.ids[i] < h.n
          BY <1>2, <3>1 DEF Sane
        <5>2. h.ids[i] \in Nat
          BY <1>2, <3>1, ElementOfSeq
        <5> QED BY <1>2, <5>1, <5>2
      <4>2. /\ x.t = "response.function_call_arguments.done" /\ x.i = d.calls[i] /\ x.n = 0
            /\ y.t = "response.output_item.done" /\ y.i = d.calls[i] /\ y.n = 0
        BY EventFields
      <4>3. call(i) = <<x, y>>
        OBVIOUS
      <4> HIDE DEF x, y, call
      <4>4. ASSUME NEW l, Winding(h, l) PROVE Winding(h, Told(l, <<x, y>>))
        <5> DEFINE v == Tell(l, x)
        <5>1. Winding(h, v)
          BY <1>2, <4>1, <4>2, <4>4, WindOne
        <5>2. Told(l, <<x, y>>) = Tell(v, y)
          BY ToldPair
        <5> HIDE DEF v
        <5> QED BY <1>2, <4>1, <4>2, <5>1, <5>2, WindOne
      <4>5. IsSeq(<<x, y>>)
        BY ToldPair
      <4> QED BY <4>3, <4>4, <4>5
    <3> QED BY <3>1
  <2> HIDE DEF ss, call, k
  <2> QED BY <1>7, <2>2, <2>3, WindFlattened
<1> HIDE DEF text, ss
<1>9. IsSeq(q) /\ Told(h, q) = m
  BY <1>7, <1>8, ToldJoined, Joined
<1> HIDE DEF q, m, k
<1>10. IsSeq(q \o <<end>>) /\ u = Tell(m, end)
  <2>1. IsSeq(<<end>>) /\ Told(m, <<end>>) = Tell(m, end)
    BY ToldOne
  <2> QED BY <1>9, <2>1, ToldJoined, Joined
<1> HIDE DEF u
<1>11. OverNow(m, u)
  <2>1. Sane(m) /\ m.d = "responses"
    BY <1>2, <1>8 DEF Winding
  <2> QED BY <1>4, <1>10, <2>1, SayOver
<1>12. HeardOn(h, u) /\ SameTold(h, u) /\ u.single = h.single
  BY <1>8, <1>11 DEF OverNow, Winding, HeardOn, SameTold
<1>13. C2RFollows(new, t, u)
  <2>1. t.n = g.n /\ t.text = g.text /\ t.args = g.args
    BY DEF SameTold
  <2>2. Plainly(t) <=> Plainly(g)
    BY <2>1 DEF Plainly
  <2>3. u.text = h.text /\ u.ids = h.ids /\ u.args = h.args
    BY <1>12 DEF SameTold
  <2> QED BY <1>5, <1>12, <2>1, <2>2, <2>3 DEF C2RFollows, C2RAt
<1>14. Follows(new, t, u)
  BY <1>2, <1>5, <1>12, <1>13, StillFollows
<1>15. C2RFinish(d).c = new /\ C2RFinish(d).out = q \o <<end>>
  BY <1>1 DEF Emits, q
<1> QED BY <1>10, <1>14, <1>15 DEF u

\* Three sequences joined are told one after the other.
LEMMA Thrice ==
  ASSUME NEW h, NEW a, NEW b, NEW z, IsSeq(a), IsSeq(b), IsSeq(z)
  PROVE  IsSeq(a \o b \o z) /\ Told(h, a \o b \o z) = Told(Told(Told(h, a), b), z)
<1>1. IsSeq(a \o b) /\ Told(h, a \o b) = Told(Told(h, a), b)
  BY Joined, ToldJoined
<1>2. IsSeq((a \o b) \o z) /\ Told(h, (a \o b) \o z) = Told(Told(h, a \o b), z)
  BY <1>1, Joined, ToldJoined
<1> QED BY <1>1, <1>2

\* The same with nothing before or after one event.
LEMMA ThriceOne ==
  ASSUME NEW h, NEW a, NEW b, IsSeq(a)
  PROVE  /\ IsSeq(a \o <<b>> \o <<>>) /\ Told(h, a \o <<b>> \o <<>>) = Tell(Told(h, a), b)
         /\ IsSeq(<<>> \o <<>> \o <<b>>) /\ Told(h, <<>> \o <<>> \o <<b>>) = Tell(h, b)
<1> DEFINE y == <<b>>
           z == <<>>
<1>1. IsSeq(y) /\ IsSeq(z) /\ \A k : Told(k, y) = Tell(k, b) /\ Told(k, z) = k
  BY ToldOne, NothingSaid, ToldNothing
<1> HIDE DEF y, z
<1>2. /\ IsSeq(a \o y \o z) /\ Told(h, a \o y \o z) = Told(Told(Told(h, a), y), z)
      /\ IsSeq(z \o z \o y) /\ Told(h, z \o z \o y) = Told(Told(Told(h, z), z), y)
  BY <1>1, Thrice
<1>3. /\ IsSeq(a \o y \o z) /\ Told(h, a \o y \o z) = Tell(Told(h, a), b)
      /\ IsSeq(z \o z \o y) /\ Told(h, z \o z \o y) = Tell(h, b)
  BY <1>1, <1>2
<1> QED BY <1>3 DEF y, z

\* What stands open before a reply has more than one item.
LEMMA PlainlyHears ==
  ASSUME NEW c, NEW g, NEW h, C2RAt(c, g, h), Plainly(g)
  PROVE  /\ h.single
         /\ h.n = 1 => h.open /\ h.kind = IF g.n = 1 THEN "function_call" ELSE "message"
         /\ h.n = 0 => ~h.open
  BY DEF C2RAt, C2RFollows, Sane

\* Chat to Responses passes on a token of text (ContentDelta).
LEMMA C2RText ==
  ASSUME NEW c, NEW e, NEW g, NEW h, C2RAt(c, g, h), MayFollow(g, e), e.t = "content"
  PROVE  Passes(ContentDelta(c, e), e, g, h)
<1> DEFINE t == Tell(g, e)
<1>1. /\ Works(c) /\ c.name = "c2r" /\ ~c.terminal /\ Follows(c, g, h)
      /\ Sane(g) /\ Sane(h) /\ g.d = "chat" /\ h.d = "responses" /\ ~h.done
      /\ g.n \in Nat /\ h.n \in Nat /\ h.begun \in BOOLEAN
      /\ h.text = g.text /\ h.ids = c.calls /\ Len(h.ids) = g.n
      /\ \A j \in 1 .. g.n : h.args[h.ids[j]] = g.args[j - 1]
      /\ c.finish \in FinishReasons => g.done
      /\ h.n = c.next /\ c.message \in -1 .. c.next - 1
      /\ h.n = IF c.message = -1 THEN g.n ELSE g.n + 1
      /\ c.started \in BOOLEAN /\ (c.started <=> g.n # 0)
      /\ h.begun <=> c.started \/ c.message # -1
      /\ h.any => h.begun
  BY DEF C2RAt, C2RFollows
<1>2. CarriesText(e) /\ e.n \in Nat
  BY DEF CarriesText, MayFollow
<1>3. TextMore(g, e, t)
  BY <1>1, <1>2, HearText
<1>4. ~g.done
  BY <1>2 DEF MayFollow, Content
<1> HIDE DEF t
<1>5. /\ HeardOn(g, t) /\ t.n = g.n /\ t.done = g.done /\ t.text = Append(g.text, e.n)
      /\ t.ids = g.ids /\ t.args = g.args
  BY <1>3 DEF TextMore, KeptPlace, KeptPhase
<1>6. g.text \in Seq(Nat) /\ t.text # <<>>
  <2>1. g.text \in Seq(Nat)
    BY <1>1, SaneHas
  <2> QED BY <1>2, <1>5, <2>1, Appended, EmptySeq
<1>7. Plainly(t) => Plainly(g) /\ g.n = 0
  BY <1>5, <1>6 DEF Plainly
<1>8. CASE c.message >= 0
  <2> DEFINE a == Ev("response.output_text.delta", c.message, "", e.n, FALSE)
             u == Told(h, <<>> \o <<a>>)
  <2>1. ContentDelta(c, e) = Emits(c, <<>> \o <<a>>)
    BY <1>8 DEF ContentDelta
  <2>2. a.t = "response.output_text.delta" /\ a.i = c.message /\ a.n = e.n
    BY Zenon DEF Ev
  <2> HIDE DEF a
  <2>3. u = Tell(h, a) /\ IsSeq(<<>> \o <<a>>)
    <3>1. IsSeq(<<>>) /\ IsSeq(<<a>>) /\ Told(h, <<>>) = h /\ Told(h, <<a>>) = Tell(h, a)
      BY NothingSaid, ToldNothing, ToldOne
    <3> QED BY <3>1, Joined, ToldJoined
  <2>4. a.i \in Nat /\ a.i < h.n /\ h.begun /\ c.message # -1
    BY <1>1, <1>8, <2>2
  <2>5. TextMore(h, a, u)
    BY <1>1, <1>2, <2>2, <2>3, <2>4, SayText
  <2> HIDE DEF u
  <2>6. /\ HeardOn(h, u) /\ u.n = h.n /\ u.open = h.open /\ u.kind = h.kind
        /\ u.begun = h.begun /\ u.done = h.done
        /\ u.single = (h.single /\ h.open /\ h.kind = "message" /\ a.i = h.n - 1)
        /\ u.text = Append(h.text, a.n) /\ u.ids = h.ids /\ u.args = h.args
    BY <2>5 DEF TextMore, KeptPlace, KeptPhase
  <2>7. Plainly(t) => u.single /\ u.open /\ u.kind = "message"
    <3>1. ASSUME Plainly(t) PROVE u.single /\ u.open /\ u.kind = "message"
      <4>1. Plainly(g) /\ g.n = 0
        BY <1>7, <3>1
      <4>2. h.n = 1
        BY <1>1, <2>4, <4>1
      <4>3. h.single /\ h.open /\ h.kind = "message"
        BY <4>1, <4>2, PlainlyHears
      <4>4. a.i = h.n - 1
        BY <2>4, <4>2
      <4> QED BY <2>6, <4>3, <4>4
    <3> QED BY <3>1
  <2>8. Plainly(t) => t.n = 0
    BY <1>5, <1>7
  <2>9. C2RFollows(c, t, u)
    <3>1. u.text = t.text /\ u.ids = c.calls /\ Len(u.ids) = t.n
      BY <1>1, <1>5, <2>2, <2>6
    <3>2. \A j \in 1 .. t.n : u.args[u.ids[j]] = t.args[j - 1]
      BY <1>1, <1>5, <2>6
    <3>3. /\ c.finish \in FinishReasons => t.done
          /\ u.n = c.next /\ c.message \in -1 .. c.next - 1
          /\ u.n = IF c.message = -1 THEN t.n ELSE t.n + 1
          /\ c.message = -1 <=> t.text = <<>>
          /\ c.started \in BOOLEAN /\ (c.started <=> t.n # 0)
          /\ u.begun <=> c.started \/ c.message # -1
          /\ u.any => u.begun
      BY <1>1, <1>5, <1>6, <2>4, <2>6
    <3> QED BY <2>7, <2>8, <3>1, <3>2, <3>3 DEF C2RFollows
  <2>10. Follows(c, t, u)
    BY <1>1, <1>5, <2>6, <2>9, StillFollows
  <2> QED BY <2>1, <2>3, <2>10, EmitsPasses DEF t, u
<1>9. CASE ~(c.message >= 0)
  <2> DEFINE d == [c EXCEPT !.message = c.next, !.next = @ + 1]
             b == Of("response.output_item.added", d.message, "message")
             p == At("response.content_part.added", d.message)
             a == Ev("response.output_text.delta", d.message, "", e.n, FALSE)
             k == Told(h, Preamble)
             l == Tell(k, b)
             m == Tell(l, p)
             out == Preamble \o <<b, p>> \o <<a>>
             u == Told(h, out)
  <2>1. ContentDelta(c, e) = Emits(d, out)
    BY <1>9, Zenon DEF ContentDelta
  <2>2. /\ d.name = c.name /\ d.terminal = c.terminal /\ d.calls = c.calls
        /\ d.finish = c.finish /\ d.started = c.started
        /\ d.message = h.n /\ d.next = h.n + 1
    BY <1>1 DEF Works
  <2>3. /\ b.t = "response.output_item.added" /\ b.i = d.message /\ b.k = "message" /\ b.n = 0
        /\ p.t = "response.content_part.added" /\ p.i = d.message /\ p.n = 0
    BY EventFields
  <2>20. a.t = "response.output_text.delta" /\ a.i = d.message /\ a.n = e.n
    BY Zenon DEF Ev
  <2> HIDE DEF a, b, p, d
  <2>4. IsSeq(out) /\ u = Tell(m, a)
    <3>1. IsSeq(<<b, p>>) /\ IsSeq(<<a>>) /\ Told(k, <<b, p>>) = m /\ Told(m, <<a>>) = Tell(m, a)
      BY ToldPair, ToldOne
    <3>2. IsSeq(Preamble)
      BY ToldPair DEF Preamble
    <3> HIDE DEF m
    <3> QED BY <3>1, <3>2, Thrice
  <2>5. BegunNow(h, k)
    BY <1>1, SayPreamble
  <2> HIDE DEF k
  <2>6. /\ Sane(k) /\ k.d = "responses" /\ k.n = h.n /\ k.open = h.open /\ ~k.done /\ k.begun = TRUE
        /\ k.text = h.text /\ k.ids = h.ids /\ k.args = h.args /\ k.single = h.single
    BY <1>1, <2>5 DEF BegunNow, HeardOn, KeptPlace, SameTold
  <2>7. OneAnnounced(k, b, l)
    BY <2>2, <2>3, <2>6, SayNew
  <2>8. ~Names(b)
    BY <2>3 DEF Names
  <2> HIDE DEF l
  <2>9. /\ Sane(l) /\ l.d = "responses" /\ l.n = h.n + 1 /\ l.open = TRUE /\ l.kind = "message"
        /\ ~l.done /\ l.begun = TRUE
        /\ l.text = h.text /\ l.ids = h.ids /\ l.args = h.args /\ l.single = (h.single /\ ~h.open)
    BY <2>3, <2>6, <2>7, <2>8 DEF OneAnnounced, HeardOn, KeptPhase
  <2>10. NothingNew(l, m)
    BY <1>1, <2>2, <2>3, <2>9, SayAside
  <2> HIDE DEF m
  <2>11. /\ Sane(m) /\ m.d = "responses" /\ m.n = h.n + 1 /\ m.open = TRUE /\ m.kind = "message"
         /\ ~m.done /\ m.begun = TRUE
         /\ m.text = h.text /\ m.ids = h.ids /\ m.args = h.args /\ m.single = (h.single /\ ~h.open)
    BY <2>9, <2>10 DEF NothingNew, HeardOn, KeptPhase, KeptPlace, SameTold
  <2>12. a.i \in Nat /\ a.i < m.n /\ a.i = m.n - 1 /\ a.n \in Nat
    BY <1>1, <1>2, <2>2, <2>20, <2>11
  <2> HIDE DEF u, out
  <2>13. TextMore(m, a, u)
    BY <2>20, <2>4, <2>11, <2>12, SayText
  <2>14. /\ HeardOn(m, u) /\ u.n = h.n + 1 /\ u.open = TRUE /\ u.kind = "message"
         /\ u.begun = TRUE /\ u.done = m.done
         /\ u.single = (h.single /\ ~h.open)
         /\ u.text = Append(h.text, e.n) /\ u.ids = h.ids /\ u.args = h.args
    <3>1. u.single = (m.single /\ m.open /\ m.kind = "message" /\ a.i = m.n - 1)
      BY <2>13 DEF TextMore
    <3>2. (h.single /\ ~h.open) \in BOOLEAN
      OBVIOUS
    <3>3. u.single = (h.single /\ ~h.open)
      BY <2>11, <2>12, <3>1, <3>2
    <3> QED BY <2>20, <2>11, <2>13, <3>3 DEF TextMore, KeptPlace, KeptPhase
  <2>15. HeardOn(h, u) /\ ~u.done
    BY <1>1, <2>11, <2>14 DEF HeardOn
  <2>16. c.message = -1 /\ h.n = g.n
    BY <1>1, <1>9
  <2>17. Plainly(t) => u.single
    <3>1. ASSUME Plainly(t) PROVE h.single /\ ~h.open
      BY <1>7, <2>16, <3>1, PlainlyHears
    <3> QED BY <2>14, <3>1
  <2>18. C2RFollows(d, t, u)
    <3>1. u.text = t.text /\ u.ids = d.calls /\ Len(u.ids) = t.n
      BY <1>1, <1>5, <2>2, <2>14
    <3>2. \A j \in 1 .. t.n : u.args[u.ids[j]] = t.args[j - 1]
      BY <1>1, <1>5, <2>14
    <3>3. d.message # -1
      BY <1>1, <2>2
    <3>4. /\ d.finish \in FinishReasons => t.done
          /\ u.n = d.next /\ d.message \in -1 .. d.next - 1
          /\ u.n = IF d.message = -1 THEN t.n ELSE t.n + 1
      BY <1>1, <1>5, <2>2, <2>14, <2>16, <3>3
    <3>5. /\ d.message = -1 <=> t.text = <<>>
          /\ d.started \in BOOLEAN /\ (d.started <=> t.n # 0)
          /\ u.begun <=> d.started \/ d.message # -1
          /\ u.any => u.begun
      BY <1>1, <1>5, <1>6, <2>2, <2>14, <3>3
    <3>6. Plainly(t) => t.n = 0
      BY <1>5, <1>7
    <3> QED BY <2>14, <2>17, <3>1, <3>2, <3>4, <3>5, <3>6 DEF C2RFollows
  <2>19. Follows(d, t, u)
    BY <1>1, <1>5, <2>2, <2>15, <2>18, StillFollows
  <2> QED BY <2>1, <2>4, <2>19, EmitsPasses DEF t, u
<1> QED BY <1>8, <1>9

\* A call is named, and an item announced for it.
LEMMA C2RNames ==
  ASSUME NEW c, NEW e, NEW g, NEW h, C2RAt(c, g, h), MayFollow(g, e), e.t = "tool_calls", Names(e)
  PROVE  Passes(ToolCallDelta(c, e), e, g, h)
<1> DEFINE t == Tell(g, e)
           d == [c EXCEPT !.started = TRUE, !.calls = Append(@, c.next), !.next = @ + 1]
           pre == IF c.started THEN <<>> ELSE Preamble
           b == Of("response.output_item.added", c.next, "function_call")
           k == Told(h, pre)
           out == pre \o <<b>> \o <<>>
           u == Told(h, out)
<1>1. /\ Works(c) /\ c.name = "c2r" /\ ~c.terminal /\ Follows(c, g, h)
      /\ Sane(g) /\ Sane(h) /\ g.d = "chat" /\ h.d = "responses" /\ ~h.done
      /\ g.n \in Nat /\ h.n \in Nat /\ h.begun \in BOOLEAN
      /\ h.text = g.text /\ h.ids = c.calls /\ Len(h.ids) = g.n /\ h.ids \in Seq(Nat)
      /\ \A j \in 1 .. g.n : h.args[h.ids[j]] = g.args[j - 1]
      /\ c.finish \in FinishReasons => g.done
      /\ h.n = c.next /\ c.message \in -1 .. c.next - 1
      /\ h.n = IF c.message = -1 THEN g.n ELSE g.n + 1
      /\ c.message = -1 <=> g.text = <<>>
      /\ c.started \in BOOLEAN /\ (c.started <=> g.n # 0)
      /\ h.begun <=> c.started \/ c.message # -1
      /\ h.any => h.begun
  BY DEF C2RAt, C2RFollows
<1>2. Announces(e) /\ e.i = g.n /\ e.n = 0 /\ ~g.done /\ e.k = "id"
  <2>1. Announces(e) /\ e.k = "id"
    BY DEF Names, Announces
  <2>2. e.i = g.n
    BY <1>1, <2>1, WherePlaced
  <2>3. e.n = 0 /\ ~g.done
    BY <2>1 DEF MayFollow, Content
  <2> QED BY <2>1, <2>2, <2>3
<1>3. OneAnnounced(g, e, t)
  BY <1>1, <1>2, HearAnnounce
<1> HIDE DEF t
<1>4. /\ HeardOn(g, t) /\ t.n = g.n + 1 /\ t.done = g.done /\ t.text = g.text
      /\ t.ids = Append(g.ids, g.n) /\ t.args = g.args
  BY <1>3 DEF OneAnnounced, KeptPhase
<1>5. ~(e.i < Len(c.calls)) /\ Len(c.calls) = e.i
  BY <1>1, <1>2
<1>6. /\ Append(c.calls, c.next) \in Seq(Nat) /\ Append(c.calls, c.next)[e.i + 1] = c.next
      /\ Len(Append(c.calls, c.next)) = g.n + 1
      /\ \A j \in 1 .. g.n : Append(c.calls, c.next)[j] = c.calls[j]
  BY <1>1, <1>2, <1>5, Appended
<1>7. /\ d.name = c.name /\ d.terminal = c.terminal /\ d.calls = Append(c.calls, c.next)
      /\ d.finish = c.finish /\ d.started = TRUE /\ d.message = c.message /\ d.next = h.n + 1
  BY <1>1 DEF Works
<1>8. ToolCallDelta(c, e) = Emits(d, out)
  <2> DEFINE known == e.i < Len(c.calls)
             x == [c EXCEPT !.started = TRUE,
                     !.calls = IF known THEN @ ELSE Append(@, c.next),
                     !.next = IF known THEN @ ELSE @ + 1]
             item == x.calls[e.i + 1]
             y == IF known THEN <<>>
                  ELSE <<Of("response.output_item.added", item, "function_call")>>
             z == IF e.n = 0 THEN <<>>
                  ELSE <<Ev("response.function_call_arguments.delta", item, "", e.n, FALSE)>>
  <2>1. x = d
    BY <1>5
  <2>2. item = c.next
    BY <1>6, <1>7, <2>1
  <2>3. y = <<b>> /\ z = <<>>
    BY <1>2, <1>5, <2>2
  <2>4. ToolCallDelta(c, e) = Emits(x, pre \o y \o z)
    BY <1>2, Zenon DEF ToolCallDelta
  <2> HIDE DEF x, y, z, d, b, pre
  <2> QED BY <2>1, <2>3, <2>4
<1>9. b.t = "response.output_item.added" /\ b.i = h.n /\ b.k = "function_call" /\ b.n = 0
  BY <1>1, EventFields
<1>10. Names(b)
  BY <1>9 DEF Names
<1> HIDE DEF b, d
<1>11. IsSeq(pre)
  BY NothingSaid, ToldPair DEF Preamble
<1>12. IsSeq(out) /\ u = Tell(k, b)
  BY <1>11, ThriceOne
<1>13. /\ Sane(k) /\ k.d = "responses" /\ k.n = h.n /\ k.open = h.open /\ ~k.done /\ k.begun = TRUE
       /\ k.text = h.text /\ k.ids = h.ids /\ k.args = h.args /\ k.single = h.single
  <2>1. CASE c.started
    <3>1. k = h
      BY <2>1, ToldNothing
    <3> QED BY <1>1, <2>1, <3>1
  <2>2. CASE ~c.started
    <3>1. k = Told(h, Preamble)
      BY <2>2
    <3> HIDE DEF k
    <3>2. BegunNow(h, k)
      BY <1>1, <3>1, SayPreamble
    <3> QED BY <1>1, <3>2 DEF BegunNow, HeardOn, KeptPlace, SameTold
  <2> QED BY <1>1, <2>1, <2>2
<1> HIDE DEF pre, k, out, u
<1>14. OneAnnounced(k, b, u)
  BY <1>9, <1>12, <1>13, SayNew
<1>15. /\ HeardOn(k, u) /\ u.n = h.n + 1 /\ u.open = TRUE /\ u.kind = "function_call" /\ ~u.done
       /\ u.begun = TRUE /\ u.single = (h.single /\ ~h.open)
       /\ u.text = h.text /\ u.ids = Append(h.ids, h.n) /\ u.args = h.args
  <2>1. u.single = (k.single /\ ~k.open)
    BY <1>14 DEF OneAnnounced
  <2>2. u.single = (h.single /\ ~h.open)
    BY <1>13, <2>1
  <2> QED BY <1>9, <1>10, <1>13, <1>14, <2>2 DEF OneAnnounced, KeptPhase
<1>16. HeardOn(h, u)
  BY <1>1, <1>13, <1>15 DEF HeardOn
<1>17. u.ids = d.calls /\ Len(u.ids) = t.n
  BY <1>1, <1>4, <1>6, <1>7, <1>15
<1>18. ASSUME NEW j \in 1 .. t.n PROVE u.args[u.ids[j]] = t.args[j - 1]
  <2>1. CASE j \in 1 .. g.n
    BY <1>1, <1>4, <1>6, <1>15, <2>1
  <2>2. CASE j \notin 1 .. g.n
    <3>1. j = g.n + 1 /\ j - 1 = g.n
      BY <1>1, <1>4, <2>2
    <3>2. u.ids[j] = h.n
      BY <1>1, <1>2, <1>6, <1>15, <3>1
    <3>3. h.args[h.n] = <<>>
      <4>1. \A i \in 1 .. Len(h.ids) : h.ids[i] < h.n
        BY <1>1 DEF Sane
      <4>2. \A i \in 1 .. Len(h.ids) : h.ids[i] # h.n
        BY <1>1, <4>1
      <4> QED BY <1>1, <4>2 DEF Sane
    <3>4. g.args[g.n] = <<>>
      <4>1. \A i \in 1 .. Len(g.ids) : g.ids[i] < g.n
        BY <1>1 DEF Sane
      <4>2. \A i \in 1 .. Len(g.ids) : g.ids[i] # g.n
        BY <1>1, <4>1
      <4> QED BY <1>1, <4>2 DEF Sane
    <3> QED BY <1>4, <1>15, <3>1, <3>2, <3>3, <3>4
  <2> QED BY <2>1, <2>2
<1>19. ASSUME Plainly(t) PROVE u.single /\ t.n = 1
  <2>1. t.n = 1 /\ g.n = 0 /\ g.text = <<>>
    BY <1>1, <1>4, <1>19 DEF Plainly
  <2>2. Plainly(g) /\ h.n = 0
    BY <1>1, <2>1 DEF Plainly
  <2>3. h.single /\ ~h.open
    BY <2>2, PlainlyHears
  <2> QED BY <1>15, <2>1, <2>3
<1>20. C2RFollows(d, t, u)
  <2>1. u.text = t.text
    BY <1>1, <1>4, <1>15
  <2>2. /\ d.finish \in FinishReasons => t.done
        /\ u.n = d.next /\ d.message \in -1 .. d.next - 1
        /\ u.n = IF d.message = -1 THEN t.n ELSE t.n + 1
    BY <1>1, <1>4, <1>7, <1>15
  <2>3. /\ d.message = -1 <=> t.text = <<>>
        /\ d.started \in BOOLEAN /\ (d.started <=> t.n # 0)
        /\ u.begun <=> d.started \/ d.message # -1
        /\ u.any => u.begun
    <3>1. d.message = -1 <=> t.text = <<>>
      BY <1>1, <1>4, <1>7
    <3>2. d.started = TRUE /\ t.n # 0 /\ u.begun = TRUE
      BY <1>1, <1>4, <1>7, <1>15
    <3> QED BY <3>1, <3>2
  <2> QED BY <1>15, <1>17, <1>18, <1>19, <2>1, <2>2, <2>3 DEF C2RFollows
<1>21. Follows(d, t, u)
  BY <1>1, <1>4, <1>7, <1>15, <1>16, <1>20, StillFollows
<1> QED BY <1>8, <1>12, <1>21, EmitsPasses DEF t, u

\* Arguments go to the item of their call.
LEMMA C2RArguments ==
  ASSUME NEW c, NEW e, NEW g, NEW h, C2RAt(c, g, h), MayFollow(g, e), e.t = "tool_calls",
         CarriesArguments(e)
  PROVE  Passes(ToolCallDelta(c, e), e, g, h)
<1> DEFINE t == Tell(g, e)
           item == c.calls[e.i + 1]
           d == [c EXCEPT !.started = TRUE]
           a == Ev("response.function_call_arguments.delta", item, "", e.n, FALSE)
           out == <<>> \o <<>> \o <<a>>
           u == Told(h, out)
<1>1. /\ Works(c) /\ c.name = "c2r" /\ ~c.terminal /\ Follows(c, g, h)
      /\ Sane(g) /\ Sane(h) /\ g.d = "chat" /\ h.d = "responses" /\ ~h.done
      /\ g.n \in Nat /\ h.n \in Nat /\ h.begun \in BOOLEAN
      /\ h.text = g.text /\ h.ids = c.calls /\ Len(h.ids) = g.n /\ h.ids \in Seq(Nat)
      /\ \A j \in 1 .. g.n : h.args[h.ids[j]] = g.args[j - 1]
      /\ c.finish \in FinishReasons => g.done
      /\ h.n = c.next /\ c.message \in -1 .. c.next - 1
      /\ h.n = IF c.message = -1 THEN g.n ELSE g.n + 1
      /\ c.message = -1 <=> g.text = <<>>
      /\ c.started \in BOOLEAN /\ (c.started <=> g.n # 0)
      /\ h.begun <=> c.started \/ c.message # -1
      /\ h.any => h.begun
  BY DEF C2RAt, C2RFollows
<1>2. e.n \in Nat /\ e.n # 0 /\ e.i \in Nat /\ e.i < g.n /\ ~g.done
  BY <1>1 DEF MayFollow, ChatGoesOn, Content, CarriesArguments
<1>3. ArgumentsMore(g, e, t)
  BY <1>1, HearArguments
<1> HIDE DEF t
<1>4. /\ HeardOn(g, t) /\ t.n = g.n /\ t.done = g.done /\ t.text = g.text
      /\ t.ids = g.ids /\ t.args = [g.args EXCEPT ![e.i] = Append(@, e.n)]
  BY <1>3 DEF ArgumentsMore, KeptPhase, KeptPlace
<1>5. e.i < Len(c.calls) /\ g.n # 0 /\ c.started = TRUE /\ h.begun /\ e.i + 1 \in 1 .. Len(h.ids)
  BY <1>1, <1>2
<1>6. /\ d.name = c.name /\ d.terminal = c.terminal /\ d.calls = c.calls
      /\ d.finish = c.finish /\ d.started = TRUE /\ d.message = c.message /\ d.next = c.next
  BY <1>1 DEF Works
<1>7. ToolCallDelta(c, e) = Emits(d, out)
  <2> DEFINE known == e.i < Len(c.calls)
             x == [c EXCEPT !.started = TRUE,
                     !.calls = IF known THEN @ ELSE Append(@, c.next),
                     !.next = IF known THEN @ ELSE @ + 1]
             it == x.calls[e.i + 1]
             w == IF c.started THEN <<>> ELSE Preamble
             y == IF known THEN <<>>
                  ELSE <<Of("response.output_item.added", it, "function_call")>>
             z == IF e.n = 0 THEN <<>>
                  ELSE <<Ev("response.function_call_arguments.delta", it, "", e.n, FALSE)>>
  <2>1. x = d
    <3>1. x = [c EXCEPT !.started = TRUE, !.calls = c.calls, !.next = c.next]
      BY <1>5
    <3> QED BY <1>1, <3>1 DEF Works
  <2>2. it = item
    BY <1>6, <2>1
  <2>3. w = <<>> /\ y = <<>> /\ z = <<a>>
    BY <1>2, <1>5, <2>2
  <2>4. ToolCallDelta(c, e) = Emits(x, w \o y \o z)
    BY <1>5, Zenon DEF ToolCallDelta
  <2> HIDE DEF x, y, z, d, a, w
  <2> QED BY <2>1, <2>3, <2>4
<1>8. a.t = "response.function_call_arguments.delta" /\ a.i = item /\ a.n = e.n
  BY Zenon DEF Ev
<1> HIDE DEF a, d
<1>9. IsSeq(out) /\ u = Tell(h, a)
  BY NothingSaid, ThriceOne
<1>10. a.i \in Nat /\ h.ids[e.i + 1] = a.i /\ item = a.i
  <2>1. h.ids[e.i + 1] \in Nat
    BY <1>1, <1>5, ElementOfSeq
  <2> QED BY <1>1, <1>8, <2>1
<1> HIDE DEF u, out, item
<1>11. \E j \in 1 .. Len(h.ids) : h.ids[j] = a.i
  BY <1>5, <1>10
<1>12. ArgumentsMore(h, a, u)
  BY <1>1, <1>2, <1>5, <1>8, <1>9, <1>10, <1>11, SayArguments
<1>13. /\ HeardOn(h, u) /\ u.n = h.n /\ u.open = h.open /\ u.kind = h.kind
       /\ u.begun = h.begun /\ u.done = h.done
       /\ u.text = h.text /\ u.ids = h.ids /\ u.args = [h.args EXCEPT ![a.i] = Append(@, e.n)]
       /\ u.single = (h.single /\ h.open /\ h.kind = "function_call" /\ a.i = h.n - 1)
  BY <1>8, <1>12 DEF ArgumentsMore, KeptPhase, KeptPlace
<1>14. ASSUME NEW j \in 1 .. t.n PROVE u.args[u.ids[j]] = t.args[j - 1]
  <2>1. /\ g.args \in [Nat -> Seq(Nat)] /\ h.args \in [Nat -> Seq(Nat)]
    BY <1>1, SaneHas
  <2>2. j \in 1 .. g.n /\ j \in 1 .. Len(h.ids) /\ j - 1 \in Nat
    BY <1>1, <1>4
  <2>3. h.ids[j] \in Nat
    BY <1>1, <2>2, ElementOfSeq
  <2>4. h.args[h.ids[j]] = g.args[j - 1]
    BY <1>1, <2>2
  <2>5. CASE j = e.i + 1
    <3>1. j - 1 = e.i /\ h.ids[j] = a.i
      BY <1>2, <1>10, <2>5
    <3>2. u.args[a.i] = Append(h.args[a.i], e.n)
      BY <1>10, <1>13, <2>1
    <3>3. t.args[e.i] = Append(g.args[e.i], e.n)
      BY <1>2, <1>4, <2>1
    <3> QED BY <1>13, <2>4, <3>1, <3>2, <3>3
  <2>6. CASE j # e.i + 1
    <3>1. j - 1 # e.i
      BY <1>2, <2>2, <2>6
    <3>2. h.ids[j] # a.i
      <4>1. \A m, k \in 1 .. Len(h.ids) : m < k => h.ids[m] < h.ids[k]
        BY <1>1 DEF Sane
      <4>2. j < e.i + 1 \/ e.i + 1 < j
        BY <1>2, <2>2, <2>6
      <4>3. h.ids[j] < h.ids[e.i + 1] \/ h.ids[e.i + 1] < h.ids[j]
        BY <1>5, <2>2, <4>1, <4>2
      <4> QED BY <1>10, <2>3, <4>3
    <3>3. u.args[h.ids[j]] = h.args[h.ids[j]]
      BY <1>13, <2>1, <2>3, <3>2
    <3>4. t.args[j - 1] = g.args[j - 1]
      BY <1>4, <2>1, <2>2, <3>1
    <3> QED BY <1>13, <2>4, <3>3, <3>4
  <2> QED BY <2>5, <2>6
<1>15. ASSUME Plainly(t)
       PROVE  /\ u.single
              /\ u.n = 1 => u.open /\ u.kind = IF t.n = 1 THEN "function_call" ELSE "message"
  <2>1. g.n = 1 /\ g.text = <<>> /\ t.n = 1
    BY <1>4, <1>5, <1>15 DEF Plainly
  <2>2. Plainly(g) /\ h.n = 1
    BY <1>1, <2>1 DEF Plainly
  <2>3. h.single /\ h.open /\ h.kind = "function_call"
    BY <2>1, <2>2, PlainlyHears
  <2>4. a.i = h.n - 1
    <3>1. \A m \in 1 .. Len(h.ids) : h.ids[m] < h.n
      BY <1>1 DEF Sane
    <3>2. a.i < h.n
      BY <1>5, <1>10, <3>1
    <3> QED BY <1>10, <2>2, <3>2
  <2> QED BY <1>13, <2>1, <2>3, <2>4
<1>16. C2RFollows(d, t, u)
  <2>1. u.text = t.text /\ u.ids = d.calls /\ Len(u.ids) = t.n
    BY <1>1, <1>4, <1>6, <1>13
  <2>2. /\ d.finish \in FinishReasons => t.done
        /\ u.n = d.next /\ d.message \in -1 .. d.next - 1
        /\ u.n = IF d.message = -1 THEN t.n ELSE t.n + 1
    BY <1>1, <1>4, <1>6, <1>13
  <2>3. /\ d.message = -1 <=> t.text = <<>>
        /\ d.started \in BOOLEAN /\ (d.started <=> t.n # 0)
        /\ u.begun <=> d.started \/ d.message # -1
        /\ u.any => u.begun
    BY <1>1, <1>4, <1>5, <1>6, <1>13
  <2> QED BY <1>14, <1>15, <2>1, <2>2, <2>3 DEF C2RFollows
<1>17. Follows(d, t, u)
  BY <1>1, <1>4, <1>6, <1>13, <1>16, StillFollows
<1> QED BY <1>7, <1>9, <1>17, EmitsPasses DEF t, u

\* Chat to Responses passes every event on (C2R).
LEMMA C2RPasses ==
  ASSUME NEW c, NEW e, NEW g, NEW h, Works(c), c.name = "c2r", Follows(c, g, h),
         MayFollow(g, e), ~C2R(c, e).err
  PROVE  Passes(C2R(c, e), e, g, h)
<1>1. CASE c.terminal
  <2>1. C2R(c, e) = Emits(c, <<>>)
    BY <1>1 DEF C2R
  <2> QED BY <1>1, <2>1, EndedFollows
<1>2. CASE ~c.terminal
  <2> DEFINE t == Tell(g, e)
  <2>1. C2RAt(c, g, h)
    BY <1>2, C2RHere
  <2>2. /\ Sane(g) /\ g.d = "chat" /\ c.err = FALSE /\ c.name = "c2r"
        /\ c.finish \in FinishReasons => g.done
    BY <1>2, <2>1 DEF C2RAt, C2RFollows
  <2>3. /\ ChatGoesOn(g, e)
        /\ e.t \in {"role", "content", "tool_calls", "refusal", "finish", "usage", "[DONE]", "error"}
    BY <2>2 DEF MayFollow, Lexicon
  <2> HIDE DEF t
  <2>4. ASSUME NEW d, d.name = c.name, d.terminal = c.terminal, d.calls = c.calls,
               d.message = c.message, d.next = c.next, d.started = c.started,
               d.finish \in FinishReasons => t.done, NothingNew(g, t) \/ OverNow(g, t)
        PROVE  Passes(Emits(d, <<>>), e, g, h)
    <3>1. HeardOn(g, t) /\ SameTold(g, t) /\ t.n = g.n /\ (g.done => t.done)
      BY <2>4 DEF NothingNew, OverNow, KeptPlace, KeptPhase
    <3>2. Follows(d, t, h)
      BY <2>1, <2>4, <3>1, C2RStill
    <3> QED BY <3>2, SilentPasses DEF t
  <2>5. ASSUME NEW d, C2RAt(d, g, h), C2R(c, e) = C2RFinish(d), t.done,
               NothingNew(g, t) \/ OverNow(g, t)
        PROVE  Passes(C2R(c, e), e, g, h)
    <3>1. HeardOn(g, t) /\ SameTold(g, t) /\ t.n = g.n
      BY <2>5 DEF NothingNew, OverNow, KeptPlace
    <3> DEFINE x == C2RFinish(d)
    <3>2. IsSeq(x.out) /\ Follows(x.c, t, Told(h, x.out))
      BY <2>5, <3>1, C2RFinishFollows
    <3> HIDE DEF x
    <3>3. C2R(c, e) = x
      BY <2>5 DEF x
    <3> QED BY <3>2, <3>3 DEF Passes, t
  <2>6. Terminal(e) \/ e.t = "finish" => OverNow(g, t)
    BY <2>2, HearEnd DEF t
  <2>7. e.t \in {"role", "usage"} => NothingNew(g, t)
    <3>1. e.t \in {"role", "usage"} => Idle(e)
      BY DEF Idle, Announces, Shuts, CarriesText, CarriesArguments, Names, Terminal
    <3> QED BY <2>2, <3>1, HearIdle DEF t
  <2>8. CASE e.t = "[DONE]"
    <3>1. C2R(c, e) = C2RFinish(c)
      BY <1>2, <2>2, <2>8 DEF C2R
    <3>2. OverNow(g, t)
      BY <2>6, <2>8 DEF Terminal
    <3> QED BY <2>1, <2>5, <3>1, <3>2 DEF OverNow
  <2>9. CASE e.t = "usage"
    <3> DEFINE d == [c EXCEPT !.usage = @ \/ e.u]
    <3>1. C2R(c, e) = IF c.finish = "" THEN Emits(d, <<>>) ELSE C2RFinish(d)
      BY <1>2, <2>2, <2>9 DEF C2R
    <3>2. /\ DOMAIN d = DOMAIN c /\ d.name = c.name /\ d.terminal = c.terminal /\ d.calls = c.calls
          /\ d.message = c.message /\ d.next = c.next /\ d.started = c.started
          /\ d.finish = c.finish /\ d.err = c.err /\ d.usage = (c.usage \/ e.u)
      BY DEF Works
    <3> HIDE DEF d
    <3>3. NothingNew(g, t) /\ t.done = g.done
      BY <2>7, <2>9 DEF NothingNew, KeptPhase
    <3>4. CASE c.finish = ""
      <4>1. Passes(Emits(d, <<>>), e, g, h)
        BY <2>2, <2>4, <3>2, <3>3
      <4> QED BY <3>1, <3>4, <4>1
    <3>5. CASE c.finish # ""
      <4>1. C2R(c, e) = C2RFinish(d)
        BY <3>1, <3>5
      <4>2. d.finish \in FinishReasons
        BY <4>1 DEF C2RFinish, Fails
      <4>3. g.done
        BY <2>2, <3>2, <4>2
      <4>4. HeardOn(g, g) /\ SameTold(g, g)
        BY <2>2, <4>3 DEF HeardOn, SameTold, Sane
      <4>5. Follows(d, g, h)
        BY <2>1, <3>2, <4>3, <4>4, C2RStill
      <4>6. (c.usage \/ e.u) \in BOOLEAN
        OBVIOUS
      <4>7. Works(d)
        BY <3>2, <4>6 DEF Works
      <4>8. C2RAt(d, g, h)
        BY <1>2, <3>2, <4>5, <4>7, C2RHere
      <4> QED BY <2>5, <3>3, <4>1, <4>3, <4>8
    <3> QED BY <3>4, <3>5
  <2>10. CASE e.t = "content"
    <3>1. C2R(c, e) = ContentDelta(c, e)
      BY <1>2, <2>2, <2>10 DEF C2R
    <3> QED BY <2>1, <2>10, <3>1, C2RText
  <2>11. CASE e.t = "tool_calls"
    <3>1. C2R(c, e) = ToolCallDelta(c, e)
      BY <1>2, <2>2, <2>11 DEF C2R
    <3>2. Names(e) \/ CarriesArguments(e)
      BY <2>3, <2>11 DEF ChatGoesOn, Names, CarriesArguments
    <3> QED BY <2>1, <2>11, <3>1, <3>2, C2RNames, C2RArguments
  <2>12. CASE e.t = "finish"
    <3> DEFINE d == [c EXCEPT !.finish = e.k]
    <3>1. C2R(c, e) = Emits(d, <<>>)
      BY <1>2, <2>2, <2>12 DEF C2R
    <3>2. /\ d.name = c.name /\ d.terminal = c.terminal /\ d.calls = c.calls
          /\ d.message = c.message /\ d.next = c.next /\ d.started = c.started
      BY DEF Works
    <3> HIDE DEF d
    <3>3. OverNow(g, t) /\ t.done
      BY <2>6, <2>12 DEF OverNow
    <3> QED BY <2>4, <3>1, <3>2, <3>3
  <2>13. CASE e.t = "refusal"
    <3>1. C2R(c, e) = Fails([c EXCEPT !.err = TRUE])
      BY <1>2, <2>2, <2>13 DEF C2R
    <3> QED BY <3>1 DEF Fails
  <2>14. CASE e.t \in {"role", "error"}
    <3>1. C2R(c, e) = Emits(c, <<>>)
      BY <1>2, <2>2, <2>14 DEF C2R
    <3>2. e.t = "error" => Terminal(e)
      BY DEF Terminal
    <3>3. NothingNew(g, t) \/ OverNow(g, t)
      BY <2>6, <2>7, <2>14, <3>2
    <3>4. g.done => t.done
      BY <3>3 DEF NothingNew, OverNow, KeptPhase
    <3>5. Passes(Emits(c, <<>>), e, g, h)
      BY <2>2, <2>4, <3>3, <3>4
    <3> QED BY <3>1, <3>5
  <2> QED BY <2>3, <2>8, <2>9, <2>10, <2>11, <2>12, <2>13, <2>14
<1> QED BY <1>1, <1>2

\* Whatever the converter.
LEMMA OnePasses ==
  ASSUME NEW c, NEW e, NEW g, NEW h, Works(c), Follows(c, g, h), MayFollow(g, e), ~Step(c, e).err
  PROVE  Passes(Step(c, e), e, g, h)
<1>1. CASE c.name = "m2r"
  BY <1>1, M2RPasses DEF Step
<1>2. CASE c.name = "r2m"
  BY <1>2, R2MPasses DEF Step
<1>3. CASE c.name = "c2r"
  BY <1>3, C2RPasses DEF Step
<1>4. CASE c.name = "r2c"
  BY <1>4, R2CPasses DEF Step
<1> QED BY <1>1, <1>2, <1>3, <1>4 DEF Works

---------------------------------------------------------------------------
(* A chunk through one converter, and through a pipeline, as it is read.   *)

\* What was not legal never becomes legal again.
LEMMA NotOk ==
  ASSUME NEW s, NEW e, s.ok = FALSE \/ ~MayFollow(s, e) PROVE Tell(s, e).ok = FALSE
BY TellSays

\* A stream found legal was legal all along.
LEMMA SaneThroughout ==
  ASSUME NEW s, NEW ev, NEW g, Len(ev) \in Nat, ToldAs(s, ev, g), Sane(s), Sane(Told(s, ev))
  PROVE  \A i \in 1 .. Len(ev) : MayFollow(g[i - 1], ev[i]) /\ Sane(g[i])
<1> DEFINE S == {m \in Nat : \/ g[m].ok = FALSE
                             \/ Sane(g[m]) /\ \A i \in 1 .. m : MayFollow(g[i - 1], ev[i]) /\ Sane(g[i])}
<1>1. 0 \in S
  BY DEF ToldAs
<1>2. ASSUME NEW m \in Nat, m \in S, m < Len(ev) PROVE m + 1 \in S
  <2>1. m + 1 \in 1 .. Len(ev) /\ (m + 1) - 1 = m /\ m + 1 \in Nat
        /\ \A i \in 1 .. m + 1 : i = m + 1 \/ i \in 1 .. m
    BY <1>2
  <2>2. g[m + 1] = Tell(g[m], ev[m + 1])
    BY <2>1 DEF ToldAs
  <2>4. CASE g[m].ok = FALSE \/ ~MayFollow(g[m], ev[m + 1])
    <3>1. g[m + 1].ok = FALSE
      BY <2>2, <2>4, NotOk
    <3> QED BY <2>1, <3>1
  <2>5. CASE ~(g[m].ok = FALSE) /\ MayFollow(g[m], ev[m + 1])
    <3>1. Sane(g[m]) /\ \A i \in 1 .. m : MayFollow(g[i - 1], ev[i]) /\ Sane(g[i])
      BY <1>2, <2>5
    <3>2. Sane(g[m + 1])
      BY <2>2, <2>5, <3>1, SaneOne
    <3>3. \A i \in 1 .. m + 1 : MayFollow(g[i - 1], ev[i]) /\ Sane(g[i])
      BY <2>1, <2>5, <3>1, <3>2
    <3> QED BY <2>1, <3>2, <3>3
  <2> QED BY <2>4, <2>5
<1>3. S \in SUBSET Nat
  OBVIOUS
<1> HIDE DEF S
<1>4. \A i \in 0 .. Len(ev) : i \in S
  BY <1>1, <1>2, <1>3, Induction
<1>5. Len(ev) \in S
  BY <1>4
<1>6. g[Len(ev)].ok = TRUE
  BY DEF ToldAs, Sane
<1> QED BY <1>5, <1>6 DEF S

\* What a chunk has become after some of its events.
Carried(c, e, h, r) ==
  /\ Works(r.c) /\ r.c.name = c.name /\ Spoken(To(c), r.out)
  /\ Follows(r.c, e, Told(h, r.out))

\* A chunk through one converter, event by event (WriteStep).
LEMMA ChunkPasses ==
  ASSUME NEW c, NEW s, NEW g, NEW h, Works(c), Spoken(From(c), s), Follows(c, g, h),
         Sane(Told(g, s)), ~WriteStep(c, s).err
  PROVE  Carried(c, Told(g, s), h, WriteStep(c, s))
<1>1. Len(s) \in Nat
  BY DEF Spoken, IsSeq
<1>2. PICK w : /\ WriteStep(c, s) = w[Len(s)] /\ w[0] = Emits(c, <<>>)
               /\ \A i \in 1 .. Len(s) : w[i] = Written(w[i - 1], s[i])
  BY <1>1, WrittenIs
<1>3. PICK f : ToldAs(g, s, f)
  BY <1>1, ToldIs
<1>4. \A i \in 1 .. Len(s) : MayFollow(f[i - 1], s[i])
  BY <1>1, <1>3, SaneThroughout DEF Follows
<1> DEFINE S == {m \in Nat : ~w[m].err => Carried(c, f[m], h, w[m])}
<1>5. 0 \in S
  <2>1. w[0].c = c /\ w[0].out = <<>> /\ f[0] = g
    BY <1>2, <1>3 DEF Emits, ToldAs
  <2>2. Spoken(To(c), <<>>) /\ Told(h, <<>>) = h
    BY SilentNothing, ToldNothing
  <2>3. Carried(c, f[0], h, w[0])
    BY <2>1, <2>2 DEF Carried
  <2> QED BY <2>3
<1>6. ASSUME NEW m \in Nat, m \in S, m < Len(s) PROVE m + 1 \in S
  <2>1. m + 1 \in 1 .. Len(s) /\ (m + 1) - 1 = m /\ m + 1 \in Nat
    BY <1>1, <1>6
  <2> DEFINE e == s[m + 1]
             r == w[m]
             x == Step(r.c, e)
  <2>2. w[m + 1] = Written(r, e) /\ f[m + 1] = Tell(f[m], e) /\ MayFollow(f[m], e)
    BY <1>2, <1>3, <1>4, <2>1 DEF ToldAs
  <2>3. MaySpeak(From(c), e)
    BY <2>1 DEF Spoken
  <2> HIDE DEF e
  <2>4. ASSUME ~w[m + 1].err PROVE Carried(c, f[m + 1], h, w[m + 1])
    <3>1. ~r.err /\ w[m + 1] = [c |-> x.c, out |-> r.out \o x.out, err |-> x.err] /\ ~x.err
      BY <2>2, <2>4 DEF Written
    <3>2. Carried(c, f[m], h, r)
      BY <1>6, <3>1
    <3>3. Works(r.c) /\ r.c.name = c.name /\ Spoken(To(c), r.out)
          /\ Follows(r.c, f[m], Told(h, r.out))
      BY <3>2 DEF Carried
    <3>4. From(r.c) = From(c) /\ To(r.c) = To(c)
      BY <3>3 DEF From, To
    <3> HIDE DEF r
    <3>5. Stepped(r.c, e, x)
      BY <2>3, <3>1, <3>3, <3>4, OneStep
    <3>6. Passes(x, e, f[m], Told(h, r.out))
      BY <2>2, <3>1, <3>3, OnePasses
    <3> HIDE DEF x
    <3>7. Works(x.c) /\ x.c.name = c.name /\ Spoken(To(c), x.out)
      BY <3>3, <3>4, <3>5 DEF Stepped
    <3>8. IsSeq(r.out) /\ IsSeq(x.out)
      BY <3>3, <3>7 DEF Spoken
    <3>9. Spoken(To(c), r.out \o x.out)
      BY <3>3, <3>7, <3>8, JoinedSays
    <3>10. Told(h, r.out \o x.out) = Told(Told(h, r.out), x.out)
      BY <3>8, ToldJoined
    <3>11. Follows(x.c, f[m + 1], Told(h, r.out \o x.out))
      BY <2>2, <3>6, <3>10 DEF Passes
    <3>12. w[m + 1].c = x.c /\ w[m + 1].out = r.out \o x.out
      <4> DEFINE y == w[m + 1]
      <4>1. y = [c |-> x.c, out |-> r.out \o x.out, err |-> x.err]
        BY <3>1
      <4> HIDE DEF y
      <4>2. y.c = x.c /\ y.out = r.out \o x.out
        BY <4>1
      <4> QED BY <4>2 DEF y
    <3> QED BY <3>7, <3>9, <3>11, <3>12 DEF Carried
  <2> QED BY <2>1, <2>4
<1>7. S \in SUBSET Nat
  OBVIOUS
<1> HIDE DEF S
<1>8. \A i \in 0 .. Len(s) : i \in S
  BY <1>1, <1>5, <1>6, <1>7, Induction
<1>9. Len(s) \in S
  BY <1>1, <1>8
<1>10. f[Len(s)] = Told(g, s)
  BY <1>3 DEF ToldAs
<1> QED BY <1>2, <1>9, <1>10 DEF S

\* A pipeline that has been given what g has read has put out what h has read.
Flows(cs, g, h) ==
  /\ Sane(g) /\ Sane(h)
  /\ cs = <<>> => h = g
  /\ Len(cs) = 1 => Follows(cs[1], g, h)
  /\ Len(cs) = 2 => \E m : Follows(cs[1], g, m) /\ Follows(cs[2], m, h)

\* A chunk through a pipeline of one converter.
LEMMA FlowsOne ==
  ASSUME NEW u, NEW cl, NEW a, NEW s, NEW g, NEW h, Pipe(u, cl, <<a>>), Spoken(u, s),
         Follows(a, g, h), Sane(Told(g, s)), ~WriteAll(<<a>>, s).err
  PROVE  LET w == WriteAll(<<a>>, s) IN Flows(w.c, Told(g, s), Told(h, w.out))
<1> DEFINE cs == <<a>>
           x == WriteStep(a, s)
           w == WriteAll(cs, s)
<1>1. Len(cs) = 1 /\ cs[1] = a /\ cs # <<>>
  OBVIOUS
<1>2. Works(a) /\ From(a) = u
  BY <1>1 DEF Pipe
<1>3. w = [c |-> <<x.c>>, out |-> IF x.err THEN <<>> ELSE x.out, err |-> x.err]
  <2>1. w = PassOn(Emits(cs, s), 1)
    BY <1>1, PassedIs
  <2>2. [cs EXCEPT ![1] = x.c] = <<x.c>>
    OBVIOUS
  <2>3. PassOn(Emits(cs, s), 1) =
          [c |-> [cs EXCEPT ![1] = x.c], out |-> IF x.err THEN <<>> ELSE x.out, err |-> x.err]
    BY <1>1 DEF PassOn, Emits
  <2> QED BY <2>1, <2>2, <2>3
<1> HIDE DEF w, x
<1>4. ~x.err /\ w.c = <<x.c>> /\ w.out = x.out
  BY <1>3 DEF w
<1>5. Carried(a, Told(g, s), h, x)
  BY <1>2, <1>4, ChunkPasses DEF x
<1>6. Follows(x.c, Told(g, s), Told(h, x.out))
  BY <1>5 DEF Carried
<1>7. Len(w.c) = 1 /\ w.c[1] = x.c /\ w.c # <<>>
  BY <1>4
<1>8. Sane(Told(h, x.out))
  BY <1>6 DEF Follows
<1>9. Flows(w.c, Told(g, s), Told(h, w.out))
  BY <1>4, <1>6, <1>7, <1>8 DEF Flows
<1> QED BY <1>9 DEF w, cs

\* A chunk through a pipeline of two.
LEMMA FlowsTwo ==
  ASSUME NEW u, NEW cl, NEW a, NEW b, NEW s, NEW g, NEW m, NEW h, Pipe(u, cl, <<a, b>>),
         Spoken(u, s), Follows(a, g, m), Follows(b, m, h), Sane(Told(g, s)),
         ~WriteAll(<<a, b>>, s).err
  PROVE  LET w == WriteAll(<<a, b>>, s) IN Flows(w.c, Told(g, s), Told(h, w.out))
<1> DEFINE cs == <<a, b>>
           x == WriteStep(a, s)
           y == WriteStep(b, x.out)
           w == WriteAll(cs, s)
<1>1. Len(cs) = 2 /\ cs[1] = a /\ cs[2] = b /\ cs # <<>>
  OBVIOUS
<1>2. /\ Works(a) /\ From(a) = u /\ Works(b)
      /\ a.name \in {"m2r", "c2r"} /\ b.name \in {"r2m", "r2c"}
  BY <1>1 DEF Pipe
<1>3. To(a) = "responses" /\ From(b) = "responses"
  BY <1>2 DEF To, From
<1> DEFINE v == PassOn(Emits(cs, s), 1)
<1>4. w = PassOn(v, 2)
  BY <1>1, PassedIs
<1>5. v = [c |-> <<x.c, b>>, out |-> IF x.err THEN <<>> ELSE x.out, err |-> x.err]
  <2>1. [cs EXCEPT ![1] = x.c] = <<x.c, b>>
    OBVIOUS
  <2>2. v = [c |-> [cs EXCEPT ![1] = x.c], out |-> IF x.err THEN <<>> ELSE x.out,
             err |-> x.err]
    BY <1>1 DEF PassOn, Emits
  <2> QED BY <2>1, <2>2
<1> HIDE DEF w, v, x
<1>6. ~v.err
  BY <1>4 DEF PassOn, w
<1>7. ~x.err /\ v.c = <<x.c, b>> /\ v.out = x.out /\ v.c[2] = b
  BY <1>5, <1>6
<1>8. w = [c |-> <<x.c, y.c>>, out |-> IF y.err THEN <<>> ELSE y.out, err |-> y.err]
  <2>1. [v.c EXCEPT ![2] = y.c] = <<x.c, y.c>>
    <3> HIDE DEF y
    <3> QED BY <1>7
  <2>2. w = [c |-> [v.c EXCEPT ![2] = y.c], out |-> IF y.err THEN <<>> ELSE y.out,
             err |-> y.err]
    BY <1>4, <1>6, <1>7 DEF PassOn
  <2> QED BY <2>1, <2>2
<1> HIDE DEF y
<1>9. ~y.err /\ w.c = <<x.c, y.c>> /\ w.out = y.out
  BY <1>8 DEF w
<1>10. Carried(a, Told(g, s), m, x)
  BY <1>2, <1>7, ChunkPasses DEF x
<1>11. /\ Works(x.c) /\ Spoken("responses", x.out) /\ Follows(x.c, Told(g, s), Told(m, x.out))
  BY <1>3, <1>10 DEF Carried
<1>12. Sane(Told(m, x.out))
  BY <1>11 DEF Follows
<1>13. Carried(b, Told(m, x.out), h, y)
  BY <1>2, <1>3, <1>9, <1>11, <1>12, ChunkPasses DEF y
<1>14. Follows(y.c, Told(m, x.out), Told(h, y.out))
  BY <1>13 DEF Carried
<1>15. Len(w.c) = 2 /\ w.c[1] = x.c /\ w.c[2] = y.c /\ w.c # <<>>
  BY <1>9
<1>16. Sane(Told(h, y.out))
  BY <1>14 DEF Follows
<1> DEFINE n == Told(m, x.out)
           k == Told(h, w.out)
<1>17. Follows(w.c[1], Told(g, s), n) /\ Follows(w.c[2], n, k) /\ Sane(k)
  BY <1>9, <1>11, <1>14, <1>15, <1>16
<1> HIDE DEF n, k
<1>18. Flows(w.c, Told(g, s), k)
  BY <1>15, <1>17 DEF Flows
<1> QED BY <1>18 DEF w, cs, k

\* A chunk through any of the pipelines (WriteAll).
LEMMA AllFlows ==
  ASSUME NEW u, NEW cl, NEW cs, NEW s, NEW g, NEW h, Pipe(u, cl, cs), Spoken(u, s),
         Flows(cs, g, h), Sane(Told(g, s)), ~WriteAll(cs, s).err
  PROVE  LET w == WriteAll(cs, s) IN Flows(w.c, Told(g, s), Told(h, w.out))
<1>1. CASE cs = <<>>
  <2>1. WriteAll(<<>>, s) = Emits(<<>>, s) /\ Len(<<>>) = 0
    <3>1. Len(<<>>) = 0
      OBVIOUS
    <3> QED BY <3>1, PassedIs
  <2>2. Emits(<<>>, s).c = <<>> /\ Emits(<<>>, s).out = s
    BY DEF Emits
  <2>3. h = g
    BY <1>1 DEF Flows
  <2>4. Flows(<<>>, Told(g, s), Told(g, s))
    BY <2>1 DEF Flows
  <2> QED BY <1>1, <2>1, <2>2, <2>3, <2>4
<1>2. CASE cs = <<cs[1]>>
  <2>1. PICK a : cs = <<a>> /\ a = cs[1]
    BY <1>2
  <2>2. Len(cs) = 1
    BY <2>1
  <2>3. Follows(a, g, h)
    BY <2>1, <2>2 DEF Flows
  <2> QED BY <2>1, <2>3, FlowsOne
<1>3. CASE cs = <<cs[1], cs[2]>>
  <2>1. PICK a, b : cs = <<a, b>> /\ a = cs[1] /\ b = cs[2]
    BY <1>3
  <2>2. Len(cs) = 2
    BY <2>1
  <2>3. PICK m : Follows(a, g, m) /\ Follows(b, m, h)
    BY <2>1, <2>2 DEF Flows
  <2> QED BY <2>1, <2>3, FlowsTwo
<1> QED BY <1>1, <1>2, <1>3 DEF Pipe

---------------------------------------------------------------------------
(* Picking elements.                                                       *)

PickedBy(s, at, m, g) ==
  g = [i \in 0 .. m |-> IF i = 0 THEN <<>>
                        ELSE IF i \in at THEN Append(g[i - 1], s[i]) ELSE g[i - 1]]

\* The function by which Picked is defined exists.
LEMMA PickedExists ==
  ASSUME NEW s, NEW at, NEW n \in Nat PROVE \E g : PickedBy(s, at, n, g)
<1> DEFINE S == {m \in Nat : \E g : PickedBy(s, at, m, g)}
<1>1. 0 \in S
  <2>1. PickedBy(s, at, 0, [i \in 0 .. 0 |-> <<>>])
    BY DEF PickedBy
  <2> QED BY <2>1
<1>2. ASSUME NEW m \in Nat, m \in S PROVE m + 1 \in S
  <2>1. PICK g : PickedBy(s, at, m, g)
    BY <1>2
  <2> DEFINE new == IF m + 1 \in at THEN Append(g[m], s[m + 1]) ELSE g[m]
             h == [i \in 0 .. m + 1 |-> IF i = m + 1 THEN new ELSE g[i]]
  <2>2. \A i \in 0 .. m : h[i] = g[i]
    OBVIOUS
  <2>3. ASSUME NEW i \in 0 .. m + 1
        PROVE  h[i] = IF i = 0 THEN <<>>
                      ELSE IF i \in at THEN Append(h[i - 1], s[i]) ELSE h[i - 1]
    <3>1. CASE i = m + 1
      <4>1. i # 0 /\ i - 1 = m /\ m \in 0 .. m
        BY <3>1
      <4>2. h[i] = new /\ h[m] = g[m]
        BY <2>2, <3>1, <4>1
      <4> HIDE DEF h
      <4> QED BY <3>1, <4>1, <4>2
    <3>2. CASE i # m + 1
      <4>1. i \in 0 .. m /\ (i # 0 => i - 1 \in 0 .. m)
        BY <3>2
      <4>2. g[i] = IF i = 0 THEN <<>>
                   ELSE IF i \in at THEN Append(g[i - 1], s[i]) ELSE g[i - 1]
        BY <2>1, <4>1 DEF PickedBy
      <4> HIDE DEF h
      <4> QED BY <2>2, <4>1, <4>2
    <3> QED BY <3>1, <3>2
  <2>4. h = [i \in 0 .. m + 1 |-> h[i]]
    OBVIOUS
  <2> HIDE DEF h
  <2>5. PickedBy(s, at, m + 1, h)
    BY <2>3, <2>4 DEF PickedBy
  <2> QED BY <2>5
<1>3. S \in SUBSET Nat
  OBVIOUS
<1> HIDE DEF S
<1>4. \A i \in 0 .. n : i \in S
  BY <1>1, <1>2, <1>3, Induction
<1> QED BY <1>4 DEF S

PickedAs(s, at, g) ==
  /\ Picked(s, at) = g[Len(s)] /\ g[0] = <<>>
  /\ \A i \in 1 .. Len(s) : g[i] = IF i \in at THEN Append(g[i - 1], s[i]) ELSE g[i - 1]

\* Picked is what has been picked after the last element.
LEMMA PickedIs == ASSUME NEW s, NEW at, Len(s) \in Nat PROVE \E g : PickedAs(s, at, g)
<1> DEFINE g == CHOOSE f : PickedBy(s, at, Len(s), f)
<1>1. PickedBy(s, at, Len(s), g)
  BY PickedExists
<1>2. Picked(s, at) = g[Len(s)]
  BY DEF Picked, PickedBy
<1> HIDE DEF g
<1>3. g[0] = <<>>
  BY <1>1 DEF PickedBy
<1>4. ASSUME NEW i \in 1 .. Len(s)
      PROVE  g[i] = IF i \in at THEN Append(g[i - 1], s[i]) ELSE g[i - 1]
  <2>1. i \in 0 .. Len(s) /\ i # 0
    OBVIOUS
  <2> QED BY <1>1, <2>1 DEF PickedBy
<1>5. PickedAs(s, at, g)
  BY <1>2, <1>3, <1>4 DEF PickedAs
<1> QED BY <1>5

\* Nothing is picked of nothing.
LEMMA PickedNothing == ASSUME NEW s, NEW at, Len(s) = 0 PROVE Picked(s, at) = <<>>
  BY PickedIs DEF PickedAs

\* One more element is picked or not.
LEMMA PickedLast ==
  ASSUME NEW s, NEW t, NEW a, NEW b, Len(s) \in Nat, Len(t) = Len(s) + 1,
         \A i \in 1 .. Len(s) : t[i] = s[i] /\ (i \in a <=> i \in b)
  PROVE  Picked(t, b) = IF Len(t) \in b THEN Append(Picked(s, a), t[Len(t)]) ELSE Picked(s, a)
<1>1. Len(t) \in Nat /\ Len(t) \in 1 .. Len(t) /\ Len(t) - 1 = Len(s)
      /\ \A i \in 1 .. Len(s) : i \in 1 .. Len(t)
  OBVIOUS
<1>2. PICK g : PickedAs(s, a, g)
  BY PickedIs
<1>3. PICK h : PickedAs(t, b, h)
  BY <1>1, PickedIs
<1> DEFINE S == {m \in Nat : g[m] = h[m]}
<1>4. 0 \in S
  BY <1>2, <1>3 DEF PickedAs
<1>5. ASSUME NEW m \in Nat, m \in S, m < Len(s) PROVE m + 1 \in S
  <2>1. m + 1 \in 1 .. Len(s) /\ m + 1 \in 1 .. Len(t) /\ (m + 1) - 1 = m /\ m + 1 \in Nat
    BY <1>1, <1>5
  <2>2. g[m + 1] = IF m + 1 \in a THEN Append(g[m], s[m + 1]) ELSE g[m]
    BY <1>2, <2>1 DEF PickedAs
  <2>3. h[m + 1] = IF m + 1 \in b THEN Append(h[m], t[m + 1]) ELSE h[m]
    BY <1>3, <2>1 DEF PickedAs
  <2>4. g[m] = h[m]
    BY <1>5
  <2>5. g[m + 1] = h[m + 1]
    BY <2>1, <2>2, <2>3, <2>4
  <2> QED BY <2>1, <2>5
<1>6. S \in SUBSET Nat
  OBVIOUS
<1> HIDE DEF S
<1>7. \A i \in 0 .. Len(s) : i \in S
  BY <1>4, <1>5, <1>6, Induction
<1>8. g[Len(s)] = h[Len(s)]
  BY <1>7 DEF S
<1>9. h[Len(t)] = IF Len(t) \in b THEN Append(h[Len(s)], t[Len(t)]) ELSE h[Len(s)]
  BY <1>1, <1>3 DEF PickedAs
<1> QED BY <1>2, <1>3, <1>8, <1>9 DEF PickedAs

\* What is picked is of the elements' type.
LEMMA PickedTyped == ASSUME NEW A, NEW s \in Seq(A), NEW at PROVE Picked(s, at) \in Seq(A)
<1> DEFINE P == {t \in Seq(A) : Picked(t, at) \in Seq(A)}
<1>1. <<>> \in P
  <2>1. <<>> \in Seq(A) /\ Len(<<>>) = 0
    OBVIOUS
  <2>2. Picked(<<>>, at) = <<>>
    BY <2>1, PickedNothing
  <2> QED BY <2>1, <2>2
<1>2. ASSUME NEW t \in Seq(A), NEW x \in A, t \in P PROVE Append(t, x) \in P
  <2> DEFINE u == Append(t, x)
  <2>1. u \in Seq(A) /\ Len(u) = Len(t) + 1 /\ Len(t) \in Nat /\ u[Len(u)] = x
        /\ \A i \in 1 .. Len(t) : u[i] = t[i]
    BY Appended
  <2> HIDE DEF u
  <2>2. Picked(u, at) = IF Len(u) \in at THEN Append(Picked(t, at), x) ELSE Picked(t, at)
    BY <2>1, PickedLast
  <2>3. Picked(t, at) \in Seq(A)
    BY <1>2
  <2>4. Append(Picked(t, at), x) \in Seq(A)
    BY <2>3, Appended
  <2>5. u \in P
    BY <2>1, <2>2, <2>3, <2>4
  <2> QED BY <2>5 DEF u
<1> HIDE DEF P
<1>3. s \in P
  BY <1>1, <1>2, SeqInduction
<1> QED BY <1>3 DEF P

---------------------------------------------------------------------------
(* What the upstream has sent.                                             *)

Pieces == [kind : {"text", "call", "other"}, tokens : Seq(Nat)]
ReplyRecords ==
  [stage : {"start", "body", "usage", "stop", "ended"}, items : Seq(Pieces),
   open : BOOLEAN, tokens : Nat, whole : BOOLEAN, usage : BOOLEAN, short : BOOLEAN]

TokensOf(r) == [j \in DOMAIN r.items |-> r.items[j].tokens]
TextItems(r) == {j \in DOMAIN r.items : r.items[j].kind = "text"}
CallItems(r)  == {j \in DOMAIN r.items : r.items[j].kind = "call"}
Texts(r) == Picked(TokensOf(r), TextItems(r))
Arguments(r) == Picked(TokensOf(r), CallItems(r))
PlaceOf(u, r) == IF u = "chat" THEN Cardinality(CallItems(r)) ELSE Len(r.items)

\* The views of what has been sent, as functions of the reply.
LEMMA SentIs ==
  /\ TextSent = FlattenSeq(Texts(src)) /\ CallsSent = Arguments(src) /\ Calls = CallItems(src)
  /\ Index = PlaceOf(up, src)
  BY DEF TextSent, CallsSent, Calls, Index, TokensSent, Texts, Arguments, TextItems, CallItems,
         TokensOf, PlaceOf

\* A reply seen without its last piece.
LEMMA LastPiece ==
  ASSUME NEW r, NEW q, NEW x \in Pieces, r.items \in Seq(Pieces), q.items = Append(r.items, x)
  PROVE  /\ Texts(q) = IF x.kind = "text" THEN Append(Texts(r), x.tokens) ELSE Texts(r)
         /\ Arguments(q) = IF x.kind = "call" THEN Append(Arguments(r), x.tokens) ELSE Arguments(r)
         /\ CallItems(q) = IF x.kind = "call" THEN CallItems(r) \cup {Len(r.items) + 1} ELSE CallItems(r)
         /\ Texts(r) \in Seq(Seq(Nat)) /\ Arguments(r) \in Seq(Seq(Nat)) /\ IsFiniteSet(CallItems(r))
         /\ Len(r.items) + 1 \notin CallItems(r) /\ Len(r.items) \in Nat
         /\ Len(q.items) = Len(r.items) + 1 /\ x.tokens \in Seq(Nat)
<1> DEFINE n == Len(r.items)
           s == TokensOf(r)
           t == TokensOf(q)
<1>1. /\ q.items \in Seq(Pieces) /\ Len(q.items) = n + 1 /\ n \in Nat
      /\ DOMAIN q.items = 1 .. n + 1 /\ DOMAIN r.items = 1 .. n
      /\ \A i \in 1 .. n : q.items[i] = r.items[i]
      /\ q.items[n + 1] = x
  BY Appended
<1>2. \A i \in 1 .. n : r.items[i] \in Pieces
  BY <1>1, ElementOfSeq
<1>3. s = [j \in 1 .. n |-> r.items[j].tokens] /\ t = [j \in 1 .. n + 1 |-> q.items[j].tokens]
  BY <1>1 DEF TokensOf
<1>4. x.tokens \in Seq(Nat) /\ \A j \in 1 .. n : r.items[j].tokens \in Seq(Nat)
  BY <1>2 DEF Pieces
<1> HIDE DEF n, s, t
<1>5. s \in Seq(Seq(Nat)) /\ Len(s) = n /\ \A j \in 1 .. n : s[j] = r.items[j].tokens
  <2>1. s \in [1 .. n -> Seq(Nat)]
    BY <1>3, <1>4
  <2> QED BY <1>1, <1>3, <2>1, LenProperties
<1>6. Len(t) = n + 1 /\ \A j \in 1 .. n + 1 : t[j] = q.items[j].tokens
  <2> DEFINE R == {q.items[j].tokens : j \in 1 .. n + 1}
  <2>1. t \in [1 .. n + 1 -> R] /\ n + 1 \in Nat
    BY <1>1, <1>3
  <2>2. t \in Seq(R) /\ Len(t) = n + 1
    <3> HIDE DEF R
    <3> QED BY <2>1, LenProperties
  <2> QED BY <1>3, <2>2
<1>7. \A i \in 1 .. n : t[i] = s[i]
  <2>1. \A i \in 1 .. n : i \in 1 .. n + 1
    BY <1>1
  <2> QED BY <1>1, <1>5, <1>6, <2>1
<1>8. t[n + 1] = x.tokens /\ n + 1 \in 1 .. n + 1
  BY <1>1, <1>6
<1>9. Texts(q) = IF x.kind = "text" THEN Append(Texts(r), x.tokens) ELSE Texts(r)
  <2>1. \A i \in 1 .. n : i \in TextItems(r) <=> i \in TextItems(q)
    BY <1>1 DEF TextItems
  <2>2. n + 1 \in TextItems(q) <=> x.kind = "text"
    BY <1>1 DEF TextItems
  <2>3. Picked(t, TextItems(q)) = IF n + 1 \in TextItems(q) THEN Append(Picked(s, TextItems(r)), t[n + 1])
                                ELSE Picked(s, TextItems(r))
    BY <1>1, <1>5, <1>6, <1>7, <2>1, PickedLast
  <2> QED BY <1>8, <2>2, <2>3 DEF Texts, s, t
<1>10. Arguments(q) = IF x.kind = "call" THEN Append(Arguments(r), x.tokens) ELSE Arguments(r)
  <2>1. \A i \in 1 .. n : i \in CallItems(r) <=> i \in CallItems(q)
    BY <1>1 DEF CallItems
  <2>2. n + 1 \in CallItems(q) <=> x.kind = "call"
    BY <1>1 DEF CallItems
  <2>3. Picked(t, CallItems(q)) = IF n + 1 \in CallItems(q) THEN Append(Picked(s, CallItems(r)), t[n + 1])
                                ELSE Picked(s, CallItems(r))
    BY <1>1, <1>5, <1>6, <1>7, <2>1, PickedLast
  <2> QED BY <1>8, <2>2, <2>3 DEF Arguments, s, t
<1>11. CallItems(q) = IF x.kind = "call" THEN CallItems(r) \cup {n + 1} ELSE CallItems(r)
  BY <1>1 DEF CallItems
<1>12. Texts(r) \in Seq(Seq(Nat)) /\ Arguments(r) \in Seq(Seq(Nat))
  BY <1>5, PickedTyped DEF Texts, Arguments, s
<1>13. IsFiniteSet(CallItems(r)) /\ n + 1 \notin CallItems(r)
  <2>1. CallItems(r) \subseteq 1 .. n /\ IsFiniteSet(1 .. n) /\ n + 1 \notin 1 .. n
    BY <1>1, FS_Interval DEF CallItems
  <2> QED BY <2>1, FS_Subset
<1> QED BY <1>1, <1>4, <1>9, <1>10, <1>11, <1>12, <1>13 DEF n

---------------------------------------------------------------------------
(* How a reply grows.                                                      *)

\* Nothing joined changes nothing.
LEMMA JoinNone == ASSUME NEW A, NEW s \in Seq(A) PROVE s \o <<>> = s
  BY SeqIsSeq, JoinNothing

\* What is appended last is appended to what is joined.
LEMMA JoinLast ==
  ASSUME NEW A, NEW s \in Seq(A), NEW t \in Seq(A), NEW x \in A
  PROVE  s \o Append(t, x) = Append(s \o t, x)
<1> DEFINE u == Append(t, x)
           v == s \o t
           l == s \o u
           r == Append(v, x)
<1>1. u \in Seq(A) /\ v \in Seq(A)
  BY AppendProperties, ConcatProperties
<1>2. /\ Len(u) = Len(t) + 1 /\ Len(s) \in Nat /\ Len(t) \in Nat
      /\ \A i \in 1 .. Len(t) : u[i] = t[i]
      /\ u[Len(t) + 1] = x
  BY Appended
<1>3. Len(v) = Len(s) + Len(t) /\ \A i \in 1 .. Len(v) : v[i] = IF i <= Len(s) THEN s[i] ELSE t[i - Len(s)]
  BY ConcatProperties, <1>2
<1> HIDE DEF u, v
<1>4. /\ l \in Seq(A) /\ Len(l) = Len(s) + Len(u)
      /\ \A i \in 1 .. Len(l) : l[i] = IF i <= Len(s) THEN s[i] ELSE u[i - Len(s)]
  BY <1>1, ConcatProperties
<1>5. /\ r \in Seq(A) /\ Len(r) = Len(v) + 1
      /\ \A i \in 1 .. Len(v) : r[i] = v[i]
      /\ r[Len(v) + 1] = x
  BY <1>1, Appended
<1> HIDE DEF l, r
<1>6. Len(l) = Len(r) /\ Len(l) = Len(s) + Len(t) + 1
  BY <1>2, <1>3, <1>4, <1>5
<1>7. ASSUME NEW i \in 1 .. Len(l) PROVE l[i] = r[i]
  <2>1. CASE i <= Len(s)
    BY <1>2, <1>3, <1>4, <1>5, <2>1
  <2>2. CASE i > Len(s) /\ i <= Len(s) + Len(t)
    <3>1. i - Len(s) \in 1 .. Len(t) /\ i \in 1 .. Len(v)
      BY <1>2, <1>3, <2>2
    <3> QED BY <1>2, <1>3, <1>4, <1>5, <2>2, <3>1
  <2>3. CASE i > Len(s) + Len(t)
    <3>1. i = Len(s) + Len(t) + 1 /\ i - Len(s) = Len(t) + 1
      BY <1>2, <1>6, <2>3
    <3> QED BY <1>2, <1>3, <1>4, <1>5, <2>3, <3>1
  <2> QED BY <1>2, <2>1, <2>2, <2>3
<1>8. l = r
  BY <1>4, <1>5, <1>6, <1>7, SeqEqual
<1> QED BY <1>8 DEF l, r, u, v

\* Nothing has been said yet in a piece that is added.
LEMMA PieceAdded ==
  ASSUME NEW r, NEW q, NEW x, r.items \in Seq(Pieces), x \in Pieces, x.tokens = <<>>,
         q.items = Append(r.items, x)
  PROVE  /\ FlattenSeq(Texts(q)) = FlattenSeq(Texts(r))
         /\ Arguments(q) = IF x.kind = "call" THEN Append(Arguments(r), <<>>) ELSE Arguments(r)
         /\ PlaceOf("chat", q) = IF x.kind = "call" THEN PlaceOf("chat", r) + 1 ELSE PlaceOf("chat", r)
         /\ Len(q.items) = Len(r.items) + 1 /\ q.items \in Seq(Pieces)
         /\ q.items[Len(q.items)] = x /\ q.items # <<>>
<1>1. /\ Texts(q) = IF x.kind = "text" THEN Append(Texts(r), x.tokens) ELSE Texts(r)
      /\ Arguments(q) = IF x.kind = "call" THEN Append(Arguments(r), x.tokens) ELSE Arguments(r)
      /\ CallItems(q) = IF x.kind = "call" THEN CallItems(r) \cup {Len(r.items) + 1} ELSE CallItems(r)
      /\ Texts(r) \in Seq(Seq(Nat)) /\ IsFiniteSet(CallItems(r))
      /\ Len(r.items) + 1 \notin CallItems(r) /\ Len(r.items) \in Nat
      /\ Len(q.items) = Len(r.items) + 1 /\ x.tokens \in Seq(Nat)
  BY LastPiece
<1>2. FlattenSeq(Append(Texts(r), x.tokens)) = FlattenSeq(Texts(r)) \o x.tokens
  BY <1>1, FlattenLast
<1>3. FlattenSeq(Texts(r)) \in Seq(Nat)
  BY <1>1, FlattenTyped
<1>4. FlattenSeq(Texts(r)) \o <<>> = FlattenSeq(Texts(r))
  BY <1>3, JoinNone
<1>5. FlattenSeq(Texts(q)) = FlattenSeq(Texts(r))
  BY <1>1, <1>2, <1>4
<1>6. Cardinality(CallItems(r) \cup {Len(r.items) + 1}) = Cardinality(CallItems(r)) + 1
  BY <1>1, FS_AddElement
<1>7. PlaceOf("chat", q) = IF x.kind = "call" THEN PlaceOf("chat", r) + 1 ELSE PlaceOf("chat", r)
  BY <1>1, <1>6 DEF PlaceOf
<1>8. q.items \in Seq(Pieces) /\ q.items[Len(q.items)] = x /\ q.items # <<>>
  <2>1. Len(q.items) # 0 /\ Len(<<>>) = 0
    BY <1>1
  <2>2. q.items \in Seq(Pieces) /\ q.items[Len(r.items) + 1] = x
    BY Appended
  <2> QED BY <1>1, <2>1, <2>2
<1> QED BY <1>1, <1>5, <1>7, <1>8

\* A token is added to the last piece.
TextGrown(r, q, n) ==
  FlattenSeq(Texts(q)) = Append(FlattenSeq(Texts(r)), n) /\ Arguments(q) = Arguments(r)
CallGrown(r, q, n) ==
  /\ FlattenSeq(Texts(q)) = FlattenSeq(Texts(r))
  /\ \E a \in Seq(Seq(Nat)), x \in Seq(Nat) :
       Arguments(r) = Append(a, x) /\ Arguments(q) = Append(a, Append(x, n))

\* The reply after one more token in its last piece.
OneToken(r, q, n) ==
  /\ r.items \in Seq(Pieces) /\ r.items # <<>> /\ q.items \in Seq(Pieces)
  /\ Len(q.items) = Len(r.items)
  /\ \A i \in 1 .. Len(r.items) : i # Len(r.items) => q.items[i] = r.items[i]
  /\ q.items[Len(r.items)].kind = r.items[Len(r.items)].kind
  /\ q.items[Len(r.items)].tokens = Append(r.items[Len(r.items)].tokens, n)

\* A token added to the last piece adds it to the text or to the last call.
LEMMA TokenAdded ==
  ASSUME NEW r, NEW q, NEW n \in Nat, OneToken(r, q, n), NEW last, last = Len(r.items)
  PROVE  /\ r.items[last].kind = "text" => TextGrown(r, q, n)
         /\ r.items[last].kind = "call" => CallGrown(r, q, n)
         /\ CallItems(q) = CallItems(r)
<1>0. /\ r.items \in Seq(Pieces) /\ r.items # <<>> /\ q.items \in Seq(Pieces)
      /\ Len(q.items) = last
      /\ \A i \in 1 .. last : i # last => q.items[i] = r.items[i]
      /\ q.items[last].kind = r.items[last].kind
      /\ q.items[last].tokens = Append(r.items[last].tokens, n)
  BY DEF OneToken
<1>1. PICK f \in Seq(Pieces), x \in Pieces : r.items = Append(f, x) /\ last = Len(f) + 1
  BY <1>0, LastOne
<1> DEFINE a == [items |-> f]
           y == q.items[last]
<1>2. a.items = f
  OBVIOUS
<1>3. x.tokens \in Seq(Nat) /\ x.kind \in {"text", "call", "other"}
  BY <1>1 DEF Pieces
<1>4. Append(x.tokens, n) \in Seq(Nat)
  BY <1>3, AppendProperties
<1> HIDE DEF a
<1>7. /\ Len(f) \in Nat /\ r.items[last] = x
      /\ \A i \in 1 .. Len(f) : r.items[i] = f[i]
  BY <1>1, Appended
<1>5. last \in 1 .. last /\ last = Len(f) + 1
  BY <1>1, <1>7
<1>6. y \in Pieces /\ y.kind = x.kind /\ y.tokens = Append(x.tokens, n)
  BY <1>0, <1>5, <1>7, ElementOfSeq
<1> HIDE DEF y
<1>8. /\ Append(f, y) \in Seq(Pieces) /\ Len(Append(f, y)) = last
      /\ Append(f, y)[last] = y
      /\ \A i \in 1 .. Len(f) : Append(f, y)[i] = f[i]
  BY <1>1, <1>6, Appended
<1>10. q.items = Append(f, y)
  <2>1. ASSUME NEW i \in 1 .. last PROVE q.items[i] = Append(f, y)[i]
    <3>1. CASE i = last
      BY <1>8, <3>1 DEF y
    <3>2. CASE i # last
      <4>1. i \in 1 .. Len(f)
        BY <1>5, <1>7, <3>2
      <4> QED BY <1>0, <1>7, <1>8, <3>2, <4>1
    <3> QED BY <3>1, <3>2
  <2> QED BY <1>0, <1>8, <2>1, SeqEqual
<1>11. /\ Texts(r) = IF x.kind = "text" THEN Append(Texts(a), x.tokens) ELSE Texts(a)
       /\ Arguments(r) = IF x.kind = "call" THEN Append(Arguments(a), x.tokens) ELSE Arguments(a)
       /\ CallItems(r) = IF x.kind = "call" THEN CallItems(a) \cup {Len(f) + 1} ELSE CallItems(a)
       /\ Texts(a) \in Seq(Seq(Nat)) /\ Arguments(a) \in Seq(Seq(Nat))
  BY <1>1, <1>2, LastPiece
<1>12. /\ Texts(q) = IF x.kind = "text" THEN Append(Texts(a), y.tokens) ELSE Texts(a)
       /\ Arguments(q) = IF x.kind = "call" THEN Append(Arguments(a), y.tokens) ELSE Arguments(a)
       /\ CallItems(q) = IF x.kind = "call" THEN CallItems(a) \cup {Len(f) + 1} ELSE CallItems(a)
  <2>1. a.items \in Seq(Pieces) /\ q.items = Append(a.items, y) /\ y \in Pieces
    BY <1>1, <1>2, <1>6, <1>10
  <2>2. /\ Texts(q) = IF y.kind = "text" THEN Append(Texts(a), y.tokens) ELSE Texts(a)
        /\ Arguments(q) = IF y.kind = "call" THEN Append(Arguments(a), y.tokens) ELSE Arguments(a)
        /\ CallItems(q) = IF y.kind = "call" THEN CallItems(a) \cup {Len(a.items) + 1} ELSE CallItems(a)
    BY <2>1, LastPiece
  <2> QED BY <1>2, <1>6, <2>2
<1>13. ASSUME x.kind = "text" PROVE TextGrown(r, q, n)
  <2> DEFINE T == Texts(a)
  <2>1. /\ T \in Seq(Seq(Nat)) /\ Texts(r) = Append(T, x.tokens)
        /\ Texts(q) = Append(T, Append(x.tokens, n))
    BY <1>6, <1>11, <1>12, <1>13
  <2> HIDE DEF T
  <2>2. ASSUME NEW u \in Seq(Nat) PROVE FlattenSeq(Append(T, u)) = FlattenSeq(T) \o u
    BY <2>1, FlattenLast
  <2>3. FlattenSeq(T) \in Seq(Nat)
    BY <2>1, FlattenTyped
  <2>4. ASSUME NEW u \in Seq(Nat) PROVE FlattenSeq(T) \o Append(u, n) = Append(FlattenSeq(T) \o u, n)
    <3> DEFINE F == FlattenSeq(T)
    <3>1. F \in Seq(Nat)
      BY <2>3
    <3> HIDE DEF F
    <3>2. F \o Append(u, n) = Append(F \o u, n)
      BY <3>1, JoinLast
    <3> QED BY <3>2 DEF F
  <2>5. FlattenSeq(Texts(r)) = FlattenSeq(T) \o x.tokens
    BY <1>3, <2>1, <2>2
  <2>6. FlattenSeq(Texts(q)) = FlattenSeq(T) \o Append(x.tokens, n)
    BY <1>4, <2>1, <2>2
  <2>7. FlattenSeq(Texts(q)) = Append(FlattenSeq(Texts(r)), n)
    BY <1>3, <2>4, <2>5, <2>6
  <2> QED BY <1>11, <1>12, <1>13, <2>7 DEF TextGrown
<1>14. ASSUME x.kind = "call" PROVE CallGrown(r, q, n)
  <2>1. Texts(q) = Texts(r)
    BY <1>11, <1>12, <1>14
  <2>2. Arguments(r) = Append(Arguments(a), x.tokens) /\ Arguments(q) = Append(Arguments(a), Append(x.tokens, n))
    BY <1>6, <1>11, <1>12, <1>14
  <2> QED BY <1>3, <1>11, <2>1, <2>2 DEF CallGrown
<1> QED BY <1>7, <1>11, <1>12, <1>13, <1>14

\* The arguments of the calls, in the order of the calls.
ArgsOf(s) == [j \in 1 .. Len(s.ids) |-> s.args[s.ids[j]]]

\* The arguments in order are those of the calls.
LEMMA SameArgs == ASSUME NEW s, NEW t, SameTold(s, t) PROVE ArgsOf(t) = ArgsOf(s)
  BY DEF SameTold, ArgsOf

\* One list of tokens for each call.
LEMMA ArgsTyped ==
  ASSUME NEW s, Sane(s) PROVE ArgsOf(s) \in Seq(Seq(Nat)) /\ Len(ArgsOf(s)) = Len(s.ids)
<1>1. s.ids \in Seq(Nat) /\ s.args \in [Nat -> Seq(Nat)] /\ Len(s.ids) \in Nat
  BY SaneHas
<1>2. \A j \in 1 .. Len(s.ids) : s.ids[j] \in Nat
  BY <1>1, ElementOfSeq
<1>3. ArgsOf(s) \in [1 .. Len(s.ids) -> Seq(Nat)]
  BY <1>1, <1>2 DEF ArgsOf
<1> DEFINE a == ArgsOf(s)
           n == Len(s.ids)
<1>4. a \in [1 .. n -> Seq(Nat)] /\ n \in Nat
  BY <1>1, <1>3
<1> HIDE DEF a, n
<1>5. a \in Seq(Seq(Nat)) /\ Len(a) = n
  BY <1>4, LenProperties
<1> QED BY <1>5 DEF a, n

\* A call that has just been named has no arguments.
LEMMA ArgsNamed ==
  ASSUME NEW s, NEW t, Sane(s), Sane(t), t.ids = Append(s.ids, s.n), t.args = s.args
  PROVE  ArgsOf(t) = Append(ArgsOf(s), <<>>)
<1> DEFINE n == Len(s.ids)
<1>1. s.ids \in Seq(Nat) /\ s.args \in [Nat -> Seq(Nat)] /\ n \in Nat /\ s.n \in Nat
  BY SaneHas
<1>2. /\ Len(t.ids) = n + 1 /\ t.ids[n + 1] = s.n
      /\ \A j \in 1 .. n : t.ids[j] = s.ids[j]
  <2> DEFINE l == s.ids
             p == s.n
  <2>1. l \in Seq(Nat) /\ p \in Nat /\ t.ids = Append(l, p) /\ n = Len(l)
    BY <1>1
  <2> HIDE DEF l, p, n
  <2>2. /\ Len(t.ids) = n + 1 /\ t.ids[n + 1] = p
        /\ \A j \in 1 .. n : t.ids[j] = l[j]
    BY <2>1, Appended
  <2> QED BY <2>2 DEF l, p
<1>3. s.args[s.n] = <<>>
  <2>1. \A j \in 1 .. n : s.ids[j] # s.n
    <3>1. \A j \in 1 .. n : s.ids[j] < s.n /\ s.ids[j] \in Nat
      BY <1>1, ElementOfSeq DEF Sane
    <3> QED BY <1>1, <3>1
  <2> QED BY <1>1, <2>1 DEF Sane
<1>4. ArgsOf(s) \in Seq(Seq(Nat)) /\ Len(ArgsOf(s)) = n /\ ArgsOf(t) \in Seq(Seq(Nat))
      /\ Len(ArgsOf(t)) = n + 1
  BY <1>2, ArgsTyped
<1>5. \A j \in 1 .. n : ArgsOf(s)[j] = s.args[s.ids[j]]
  BY DEF ArgsOf
<1>6. \A j \in 1 .. n + 1 : ArgsOf(t)[j] = s.args[t.ids[j]]
  BY <1>2 DEF ArgsOf
<1> DEFINE a == ArgsOf(s)
           b == ArgsOf(t)
<1> HIDE DEF a, b, n
<1>7. /\ Append(a, <<>>) \in Seq(Seq(Nat)) /\ Len(Append(a, <<>>)) = n + 1
      /\ \A j \in 1 .. n : Append(a, <<>>)[j] = a[j]
      /\ Append(a, <<>>)[n + 1] = <<>>
  <2>1. <<>> \in Seq(Nat) /\ a \in Seq(Seq(Nat)) /\ Len(a) = n
    BY <1>4 DEF a
  <2> DEFINE x == <<>>
  <2> HIDE DEF x
  <2>2. /\ Append(a, x) \in Seq(Seq(Nat)) /\ Len(Append(a, x)) = n + 1
        /\ \A j \in 1 .. n : Append(a, x)[j] = a[j]
        /\ Append(a, x)[n + 1] = x
    BY <2>1, Appended DEF x
  <2> QED BY <2>2 DEF x
<1>8. ASSUME NEW j \in 1 .. n + 1 PROVE b[j] = Append(a, <<>>)[j]
  <2>1. CASE j = n + 1
    BY <1>2, <1>3, <1>6, <1>7, <2>1 DEF b
  <2>2. CASE j \in 1 .. n
    BY <1>2, <1>5, <1>6, <1>7, <2>2 DEF a, b
  <2>3. j = n + 1 \/ j \in 1 .. n
    <3>1. n \in Nat
      BY <1>1
    <3> QED BY <3>1
  <2> QED BY <2>1, <2>2, <2>3
<1>9. b = Append(a, <<>>)
  <2>1. b \in Seq(Seq(Nat)) /\ Len(b) = n + 1
    BY <1>4 DEF b
  <2> QED BY <1>7, <1>8, <2>1, SeqEqual
<1> QED BY <1>9 DEF a, b

\* A token more for the last call.
ArgsGrew(s, t, i, x) == t.ids = s.ids /\ t.args = [s.args EXCEPT ![i] = Append(@, x)]

ArgsEnd(s, a, z) == a \in Seq(Seq(Nat)) /\ z \in Seq(Nat) /\ ArgsOf(s) = Append(a, z)
ArgsLonger(t, a, z, x) == ArgsOf(t) = Append(a, Append(z, x))

\* A token added to the last call's arguments.
LEMMA ArgsMore ==
  ASSUME NEW s, NEW t, NEW i, NEW x \in Nat, NEW a, NEW z, Sane(s), Sane(t),
         ArgsGrew(s, t, i, x), Len(s.ids) > 0, i = s.ids[Len(s.ids)], ArgsEnd(s, a, z)
  PROVE  ArgsLonger(t, a, z, x)
<1>17. a \in Seq(Seq(Nat)) /\ z \in Seq(Nat) /\ ArgsOf(s) = Append(a, z)
  BY DEF ArgsEnd
<1> DEFINE n == Len(s.ids)
<1>16. t.ids = s.ids /\ t.args = [s.args EXCEPT ![i] = Append(@, x)]
  BY DEF ArgsGrew
<1>1. s.ids \in Seq(Nat) /\ s.args \in [Nat -> Seq(Nat)] /\ n \in Nat /\ n > 0
  BY SaneHas
<1>2. /\ Len(a) + 1 = n /\ Len(a) \in Nat /\ ArgsOf(s)[n] = z
      /\ \A j \in 1 .. Len(a) : ArgsOf(s)[j] = a[j]
  BY <1>17, Appended, ArgsTyped
<1>14. n \in Nat /\ n > 0 /\ Len(a) + 1 = n /\ Len(a) \in Nat
  BY <1>1, <1>2
<1>15. n \in 1 .. n /\ \A j \in 1 .. Len(a) : j \in 1 .. n /\ j < n
  BY <1>14
<1>3. i \in Nat /\ \A j \in 1 .. n : s.ids[j] \in Nat
  <2>1. \A j \in 1 .. n : s.ids[j] \in Nat
    BY <1>1, ElementOfSeq
  <2> QED BY <1>15, <2>1
<1>4. \A j \in 1 .. Len(a) : s.ids[j] # i
  <2>1. ASSUME NEW j \in 1 .. Len(a) PROVE s.ids[j] # i
    <3>1. j \in 1 .. n /\ n \in 1 .. n /\ j < n
      BY <1>15
    <3>2. s.ids[j] < s.ids[n] /\ s.ids[j] \in Nat /\ s.ids[n] \in Nat
      BY <1>3, <3>1 DEF Sane
    <3> QED BY <3>2
  <2> QED BY <2>1
<1>5. t.args[i] = Append(s.args[i], x) /\ \A j \in Nat : j # i => t.args[j] = s.args[j]
  BY <1>1, <1>3, <1>16
<1>6. s.args[i] = z
  BY <1>1, <1>2 DEF ArgsOf
<1>7. ASSUME NEW j \in 1 .. Len(a) PROVE ArgsOf(t)[j] = a[j]
  <2>1. j \in 1 .. n /\ s.ids[j] # i /\ s.ids[j] \in Nat
    BY <1>3, <1>4, <1>15
  <2>2. ArgsOf(t)[j] = t.args[s.ids[j]] /\ ArgsOf(s)[j] = s.args[s.ids[j]]
    BY <1>16, <2>1 DEF ArgsOf
  <2> QED BY <1>2, <1>5, <2>1, <2>2
<1>8. ArgsOf(t)[n] = Append(z, x)
  <2>1. n \in 1 .. Len(t.ids)
    BY <1>1, <1>16
  <2>2. ArgsOf(t)[n] = t.args[t.ids[n]]
    BY <1>16, <2>1 DEF ArgsOf
  <2> QED BY <1>5, <1>6, <1>16, <2>2
<1>9. ArgsOf(t) \in Seq(Seq(Nat)) /\ Len(ArgsOf(t)) = n
  BY <1>16, ArgsTyped
<1> DEFINE y == Append(z, x)
           b == ArgsOf(t)
<1>10. y \in Seq(Nat)
  BY <1>17, AppendProperties
<1> HIDE DEF y, b, n
<1>11. /\ Append(a, y) \in Seq(Seq(Nat)) /\ Len(Append(a, y)) = n
       /\ \A j \in 1 .. Len(a) : Append(a, y)[j] = a[j]
       /\ Append(a, y)[n] = y
  <2>1. /\ Append(a, y) \in Seq(Seq(Nat)) /\ Len(Append(a, y)) = Len(a) + 1
        /\ \A j \in 1 .. Len(a) : Append(a, y)[j] = a[j]
        /\ Append(a, y)[Len(a) + 1] = y
    BY <1>10, <1>17, Appended
  <2> QED BY <1>2, <2>1
<1>12. ASSUME NEW j \in 1 .. n PROVE b[j] = Append(a, y)[j]
  <2>1. CASE j = n
    BY <1>8, <1>11, <2>1 DEF b, y
  <2>2. CASE j \in 1 .. Len(a)
    BY <1>7, <1>11, <2>2 DEF b
  <2> QED BY <1>2, <2>1, <2>2
<1>13. b = Append(a, y)
  <2>1. b \in Seq(Seq(Nat)) /\ Len(b) = n
    BY <1>9 DEF b
  <2> QED BY <1>11, <1>12, <2>1, SeqEqual
<1> QED BY <1>13 DEF b, y, ArgsLonger

---------------------------------------------------------------------------
(* A reader of everything the upstream has sent.                           *)

Shown(u, kind) ==
  CASE u = "messages" -> CASE kind = "text" -> "text" [] kind = "call" -> "tool_use"
                           [] OTHER -> "thinking"
    [] OTHER -> CASE kind = "text" -> "message" [] kind = "call" -> "function_call"
                  [] OTHER -> "reasoning"

\* It has read what has been sent.
Says(s, u, r) ==
  /\ Sane(s) /\ s.d = u
  /\ s.n = PlaceOf(u, r) /\ s.text = FlattenSeq(Texts(r)) /\ ArgsOf(s) = Arguments(r)
  /\ u = "responses" => s.single

\* It is where the upstream is.
Stands(s, u, r) ==
  /\ r.open \in BOOLEAN /\ (r.open => r.stage \in {"body", "ended"})
  /\ r.stage = "start" => ~s.any
  /\ r.stage = "body" => ~s.done /\ (u # "chat" => s.begun)
  /\ r.stage = "body" /\ r.open =>
       /\ r.items # <<>>
       /\ u # "chat" => s.open /\ s.kind = Shown(u, r.items[Len(r.items)].kind)
  /\ u # "chat" /\ r.stage # "ended" /\ ~r.open => ~s.open

InStep(s, u, r) == Says(s, u, r) /\ Stands(s, u, r)

\* Nothing is said of the pieces.
LEMMA SaysAside ==
  ASSUME NEW s, NEW t, NEW u, NEW r, NEW q, Says(s, u, r), Sane(t), t.d = s.d, t.n = s.n,
         SameTold(s, t), t.single = s.single, q.items = r.items
  PROVE  Says(t, u, q)
<1>1. ArgsOf(t) = ArgsOf(s)
  BY SameArgs
<1>2. TokensOf(q) = TokensOf(r) /\ CallItems(q) = CallItems(r) /\ TextItems(q) = TextItems(r)
  BY DEF TokensOf, CallItems, TextItems
<1>3. Texts(q) = Texts(r) /\ Arguments(q) = Arguments(r) /\ PlaceOf(u, q) = PlaceOf(u, r)
  BY <1>2 DEF Texts, Arguments, PlaceOf
<1> QED BY <1>1, <1>3 DEF Says, SameTold

\* Events of the upstream that say nothing, and those that end it.
LEMMA SendAside ==
  ASSUME NEW s, NEW e, NEW t, t = Tell(s, e), Sane(s), e.i \in Nat, e.n \in Nat,
         \/ s.d = "messages" /\ e.t = "ping"
         \/ s.d = "chat" /\ e.t = "refusal"
  PROVE  NothingNew(s, t)
<1>1. Idle(e)
  BY DEF Idle, Announces, Shuts, CarriesText, CarriesArguments, Names, Terminal
<1>2. ~Content(e)
  BY <1>1 DEF Idle, Content
<1>3. MayFollow(s, e)
  BY <1>1, <1>2 DEF MayFollow, Idle, Lexicon, MessagesGoOn, ChatGoesOn
<1> QED BY <1>1, <1>3, HearIdle

\* A failure may be said at any time before the end.
LEMMA SendFailure ==
  ASSUME NEW s, NEW e, NEW t, t = Tell(s, e), Sane(s), e.i \in Nat, e.n \in Nat,
         e.t = IF s.d = "responses" THEN "response.failed" ELSE "error"
  PROVE  OverNow(s, t)
<1>1. ~Announces(e) /\ ~CarriesText(e) /\ ~CarriesArguments(e) /\ ~Names(e)
  BY DEF Announces, CarriesText, CarriesArguments, Names
<1>2. ~Content(e)
  BY <1>1 DEF Content
<1>3. s.d \in Dialects
  BY DEF Sane
<1>4. MayFollow(s, e)
  BY <1>1, <1>2, <1>3 DEF MayFollow, Lexicon, MessagesGoOn, ResponsesGoOn, ChatGoesOn, Dialects
<1>5. Terminal(e)
  BY DEF Terminal
<1> QED BY <1>4, <1>5, HearEnd

\* One event more has been read, and says what has been added.
LEMMA SaysMore ==
  ASSUME NEW s, NEW t, NEW u, NEW r, NEW q, Says(s, u, r), Sane(t), t.d = s.d,
         t.n = PlaceOf(u, q), t.text = FlattenSeq(Texts(q)), ArgsOf(t) = Arguments(q),
         u = "responses" => t.single
  PROVE  Says(t, u, q)
  BY DEF Says

\* A new piece is announced, but for the pieces that Chat does not announce.
LEMMA AnnounceSays ==
  ASSUME NEW s, NEW e, NEW t, NEW u, NEW r, NEW q, NEW x, Says(s, u, r), OneAnnounced(s, e, t),
         r.items \in Seq(Pieces), x \in Pieces, x.tokens = <<>>, q.items = Append(r.items, x),
         Names(e) <=> x.kind = "call", u = "responses" => ~s.open,
         u = "chat" => x.kind = "call"
  PROVE  Says(t, u, q)
<1>1. /\ FlattenSeq(Texts(q)) = FlattenSeq(Texts(r))
      /\ Arguments(q) = IF x.kind = "call" THEN Append(Arguments(r), <<>>) ELSE Arguments(r)
      /\ PlaceOf("chat", q) = IF x.kind = "call" THEN PlaceOf("chat", r) + 1 ELSE PlaceOf("chat", r)
      /\ Len(q.items) = Len(r.items) + 1
  <2>1. /\ FlattenSeq(Texts(q)) = FlattenSeq(Texts(r))
        /\ PlaceOf("chat", q) = IF x.kind = "call" THEN PlaceOf("chat", r) + 1 ELSE PlaceOf("chat", r)
        /\ Len(q.items) = Len(r.items) + 1
    BY PieceAdded
  <2>2. Arguments(q) = IF x.kind = "call" THEN Append(Arguments(r), <<>>) ELSE Arguments(r)
    BY PieceAdded
  <2> QED BY <2>1, <2>2
<1>2. /\ Sane(s) /\ s.n = PlaceOf(u, r) /\ s.text = FlattenSeq(Texts(r)) /\ ArgsOf(s) = Arguments(r)
      /\ u = "responses" => s.single
  BY DEF Says
<1>3. /\ Sane(t) /\ t.d = s.d /\ t.single = (s.single /\ ~s.open) /\ t.n = s.n + 1
      /\ t.text = s.text /\ t.args = s.args
      /\ t.ids = IF Names(e) THEN Append(s.ids, s.n) ELSE s.ids
  BY DEF OneAnnounced, HeardOn
<1>4. t.n = PlaceOf(u, q)
  BY <1>1, <1>2, <1>3 DEF PlaceOf
<1>5. ArgsOf(t) = Arguments(q)
  <2>1. CASE x.kind = "call"
    <3>1. ArgsOf(t) = Append(ArgsOf(s), <<>>)
      <4>1. t.ids = Append(s.ids, s.n)
        BY <1>3, <2>1
      <4> QED BY <1>2, <1>3, <4>1, ArgsNamed
    <3> QED BY <1>1, <1>2, <2>1, <3>1
  <2>2. CASE x.kind # "call"
    <3>1. ArgsOf(t) = ArgsOf(s)
      BY <1>3, <2>2 DEF ArgsOf
    <3> QED BY <1>1, <1>2, <2>2, <3>1
  <2> QED BY <2>1, <2>2
<1>6. t.text = FlattenSeq(Texts(q)) /\ (u = "responses" => t.single)
  BY <1>1, <1>2, <1>3
<1> QED BY <1>3, <1>4, <1>5, <1>6, SaysMore

\* A piece that Chat does not announce adds nothing to what is told.
LEMMA UnannouncedSays ==
  ASSUME NEW s, NEW t, NEW r, NEW q, NEW x, Says(s, "chat", r), Sane(t), t.d = s.d, t.n = s.n,
         SameTold(s, t), r.items \in Seq(Pieces), x \in Pieces, x.tokens = <<>>,
         x.kind # "call", q.items = Append(r.items, x)
  PROVE  Says(t, "chat", q)
<1>1. /\ FlattenSeq(Texts(q)) = FlattenSeq(Texts(r)) /\ Arguments(q) = Arguments(r)
      /\ PlaceOf("chat", q) = PlaceOf("chat", r)
  BY PieceAdded
<1>2. ArgsOf(t) = ArgsOf(s)
  BY SameArgs
<1> QED BY <1>1, <1>2 DEF Says, SameTold

\* A token of the text.
LEMMA TextSays ==
  ASSUME NEW s, NEW e, NEW t, NEW u, NEW r, NEW q, Says(s, u, r), TextMore(s, e, t),
         TextGrown(r, q, e.n), CallItems(q) = CallItems(r), Len(q.items) = Len(r.items),
         u = "responses" => s.open /\ s.kind = "message" /\ e.i = s.n - 1
  PROVE  Says(t, u, q)
<1>1. /\ Sane(t) /\ t.d = s.d /\ t.n = s.n
      /\ t.single = (s.single /\ s.open /\ s.kind = "message" /\ e.i = s.n - 1)
      /\ t.text = Append(s.text, e.n) /\ t.ids = s.ids /\ t.args = s.args
  BY DEF TextMore, HeardOn, KeptPlace
<1>2. /\ Sane(s) /\ s.n = PlaceOf(u, r) /\ s.text = FlattenSeq(Texts(r)) /\ ArgsOf(s) = Arguments(r)
      /\ u = "responses" => s.single
  BY DEF Says
<1>3. ArgsOf(t) = ArgsOf(s)
  BY <1>1 DEF ArgsOf
<1>4. PlaceOf(u, q) = PlaceOf(u, r)
  BY DEF PlaceOf
<1>5. u = "responses" => t.single
  BY <1>1, <1>2, SaneHas
<1>6. ArgsOf(t) = Arguments(q) /\ t.text = FlattenSeq(Texts(q))
  BY <1>1, <1>2, <1>3 DEF TextGrown
<1> QED BY <1>1, <1>2, <1>4, <1>5, <1>6, SaysMore

\* A token of the last call's arguments.
LEMMA ArgumentsSays ==
  ASSUME NEW s, NEW e, NEW t, NEW u, NEW r, NEW q, Says(s, u, r), ArgumentsMore(s, e, t),
         CallGrown(r, q, e.n), CallItems(q) = CallItems(r), Len(q.items) = Len(r.items), e.n \in Nat,
         Len(s.ids) > 0, e.i = s.ids[Len(s.ids)],
         u = "responses" => s.open /\ s.kind = "function_call" /\ e.i = s.n - 1
  PROVE  Says(t, u, q)
<1>1. /\ Sane(t) /\ t.d = s.d /\ t.n = s.n
      /\ t.single = (s.single /\ s.open /\ s.kind = "function_call" /\ e.i = s.n - 1)
      /\ t.text = s.text /\ t.ids = s.ids /\ t.args = [s.args EXCEPT ![e.i] = Append(@, e.n)]
  BY DEF ArgumentsMore, HeardOn, KeptPlace
<1>2. /\ Sane(s) /\ s.n = PlaceOf(u, r) /\ s.text = FlattenSeq(Texts(r)) /\ ArgsOf(s) = Arguments(r)
      /\ u = "responses" => s.single
  BY DEF Says
<1>3. PICK a \in Seq(Seq(Nat)), z \in Seq(Nat) :
        Arguments(r) = Append(a, z) /\ Arguments(q) = Append(a, Append(z, e.n))
  BY DEF CallGrown
<1>4. ArgsOf(t) = Arguments(q)
  <2> DEFINE i == e.i
             x == e.n
  <2>1. /\ i = s.ids[Len(s.ids)] /\ x \in Nat /\ t.args = [s.args EXCEPT ![i] = Append(@, x)]
        /\ Arguments(q) = Append(a, Append(z, x))
    BY <1>1, <1>3
  <2> HIDE DEF i, x
  <2>2. ArgsEnd(s, a, z)
    BY <1>2, <1>3 DEF ArgsEnd
  <2>4. Sane(s) /\ Sane(t) /\ t.ids = s.ids
    BY <1>1, <1>2
  <2>5. ArgsGrew(s, t, i, x) /\ i = s.ids[Len(s.ids)] /\ x \in Nat
    BY <1>1, <2>1 DEF ArgsGrew
  <2>3. ArgsLonger(t, a, z, x)
    BY <2>2, <2>4, <2>5, ArgsMore
  <2> QED BY <2>1, <2>3 DEF ArgsLonger
<1>5. PlaceOf(u, q) = PlaceOf(u, r)
  BY DEF PlaceOf
<1>6. u = "responses" => t.single
  BY <1>1, <1>2, SaneHas
<1>7. t.text = FlattenSeq(Texts(q))
  BY <1>1, <1>2 DEF CallGrown
<1> QED BY <1>1, <1>2, <1>4, <1>5, <1>6, <1>7, SaysMore

\* A reply goes on: the reader of the wire goes on with it.
GoesWith(s, events, q) == IsSeq(events) /\ InStep(Told(s, events), up, q)

\* The types of a reader that fits the reply.
LEMMA FitsHas ==
  ASSUME NEW s, NEW u, NEW r, InStep(s, u, r)
  PROVE  /\ Says(s, u, r) /\ Stands(s, u, r) /\ Sane(s) /\ s.d = u /\ s.n = PlaceOf(u, r)
         /\ s.begun \in BOOLEAN /\ s.done \in BOOLEAN /\ s.open \in BOOLEAN /\ s.any \in BOOLEAN
         /\ s.n \in Nat /\ (s.open => s.n > 0)
<1>1. Says(s, u, r) /\ Stands(s, u, r) /\ Sane(s) /\ s.d = u /\ s.n = PlaceOf(u, r)
  BY DEF InStep, Says
<1>2. s.open => s.n > 0
  BY <1>1 DEF Sane
<1> QED BY <1>1, <1>2, SaneHas

\* The reader fits the reply after its beginning.
LEMMA BeginsFits ==
  ASSUME SrcInv, NEW s, InStep(s, up, src), src.stage = "start", NEW q, q.items = src.items,
         q.open = src.open, q.stage = "body"
  PROVE  GoesWith(s, Begins, q)
<1>1. /\ Says(s, up, src) /\ Stands(s, up, src) /\ Sane(s) /\ s.d = up
  BY FitsHas
<1>2. ~s.any /\ ~s.done /\ ~src.open /\ src.open \in BOOLEAN /\ (up # "chat" => ~s.open)
  BY <1>1 DEF Stands, Sane
<1>3. CASE up = "messages"
  <2> DEFINE e == Plain("message_start")
             f == Plain("ping")
             t == Tell(s, e)
             v == Tell(t, f)
  <2>1. e.t = "message_start" /\ e.i = 0 /\ e.n = 0 /\ f.t = "ping" /\ f.i = 0 /\ f.n = 0
    BY EventFields
  <2>2. Begins = <<e, f>>
    BY <1>3 DEF Begins
  <2> HIDE DEF e, f
  <2>3. IsSeq(Begins) /\ Told(s, Begins) = v
    BY <2>2, ToldPair
  <2>4. BegunNow(s, t)
    BY <1>1, <1>2, <1>3, <2>1, SayStart
  <2> HIDE DEF t
  <2>5. Sane(t) /\ t.d = "messages"
    BY <1>1, <1>3, <2>4 DEF BegunNow, HeardOn
  <2>6. NothingNew(t, v)
    BY <2>1, <2>5, SendAside
  <2> HIDE DEF v
  <2>7. /\ Sane(v) /\ v.d = s.d /\ v.n = s.n /\ SameTold(s, v) /\ v.single = s.single
        /\ v.begun = TRUE /\ v.done = s.done /\ v.open = s.open
    BY <2>4, <2>6 DEF BegunNow, NothingNew, HeardOn, KeptPlace, KeptPhase, SameTold
  <2>8. Says(v, up, q)
    BY <1>1, <2>7, SaysAside
  <2>9. Stands(v, up, q)
    BY <1>2, <1>3, <2>7 DEF Stands
  <2> QED BY <2>3, <2>8, <2>9 DEF GoesWith, InStep
<1>4. CASE up = "responses"
  <2> DEFINE v == Told(s, Preamble)
  <2>1. Begins = Preamble
    BY <1>4 DEF Begins
  <2>2. IsSeq(Preamble) /\ BegunNow(s, v)
    BY <1>1, <1>2, <1>4, SayPreamble
  <2> HIDE DEF v
  <2>3. /\ Sane(v) /\ v.d = s.d /\ v.n = s.n /\ SameTold(s, v) /\ v.single = s.single
        /\ v.begun = TRUE /\ v.done = s.done /\ v.open = s.open
    BY <2>2 DEF BegunNow, HeardOn, KeptPlace
  <2>4. Says(v, up, q)
    BY <1>1, <2>3, SaysAside
  <2>5. Stands(v, up, q)
    BY <1>2, <1>4, <2>3 DEF Stands
  <2> QED BY <2>1, <2>2, <2>4, <2>5 DEF GoesWith, InStep, v
<1>5. CASE up = "chat"
  <2> DEFINE e == Plain("role")
             v == Tell(s, e)
  <2>1. e.t = "role" /\ e.i = 0 /\ e.n = 0
    BY EventFields
  <2>2. Begins = <<e>>
    BY <1>5 DEF Begins
  <2> HIDE DEF e
  <2>3. IsSeq(Begins) /\ Told(s, Begins) = v
    BY <2>2, ToldOne
  <2>4. NothingNew(s, v)
    <3>1. e.i \in Nat /\ e.n \in Nat /\ s.d = "chat"
      BY <1>1, <1>5, <2>1
    <3> QED BY <1>1, <2>1, <3>1, SayAside
  <2> HIDE DEF v
  <2>5. /\ Sane(v) /\ v.d = s.d /\ v.n = s.n /\ SameTold(s, v) /\ v.single = s.single
        /\ v.done = s.done
    BY <2>4 DEF NothingNew, HeardOn, KeptPlace, KeptPhase
  <2>6. Says(v, up, q)
    BY <1>1, <2>5, SaysAside
  <2>7. Stands(v, up, q)
    BY <1>2, <1>5, <2>5 DEF Stands
  <2> QED BY <2>3, <2>6, <2>7 DEF GoesWith, InStep
<1> QED BY <1>3, <1>4, <1>5 DEF SrcInv, Dialects

\* A piece is opened.
LEMMA OpeningFits ==
  ASSUME SrcInv, NEW s, InStep(s, up, src), src.stage = "body", ~src.open, src.items \in Seq(Pieces),
         NEW kind \in {"text", "call", "other"}, NEW q, NEW x, x \in Pieces, x.kind = kind,
         x.tokens = <<>>, q.items = Append(src.items, x), q.open = TRUE, q.stage = "body"
  PROVE  GoesWith(s, Opening(kind), q)
<1>1. /\ Says(s, up, src) /\ Stands(s, up, src) /\ Sane(s) /\ s.d = up /\ s.n = PlaceOf(up, src)
      /\ s.n \in Nat
  BY FitsHas
<1>2. ~s.done /\ (up # "chat" => s.begun /\ ~s.open)
  BY <1>1 DEF Stands
<1>3. Index = s.n
  BY <1>1, SentIs
<1>4. q.items # <<>> /\ q.items[Len(q.items)] = x
  BY PieceAdded
<1>5. CASE up = "messages"
  <2> DEFINE e == Of("content_block_start", Index, Shown("messages", kind))
             v == Tell(s, e)
  <2>1. /\ e.t = "content_block_start" /\ e.i = s.n /\ e.n = 0 /\ e.k = Shown("messages", kind)
    BY <1>3, EventFields
  <2>2. Opening(kind) = <<e>>
    BY <1>5 DEF Opening, Shown
  <2> HIDE DEF e
  <2>3. IsSeq(Opening(kind)) /\ Told(s, Opening(kind)) = v
    BY <2>2, ToldOne
  <2>4. OneAnnounced(s, e, v)
    BY <1>1, <1>2, <1>5, <2>1, SayNew
  <2> HIDE DEF v
  <2>5. Names(e) <=> x.kind = "call"
    BY <2>1 DEF Names, Shown
  <2>6. Says(v, up, q)
    BY <1>1, <1>5, <2>4, <2>5, AnnounceSays
  <2>7. v.begun = s.begun /\ v.done = s.done /\ v.open = TRUE /\ v.kind = Shown("messages", kind)
    BY <2>1, <2>4 DEF OneAnnounced, KeptPhase
  <2>8. Stands(v, up, q)
    BY <1>2, <1>4, <1>5, <2>7 DEF Stands
  <2> QED BY <2>3, <2>6, <2>8 DEF GoesWith, InStep
<1>6. CASE up = "responses"
  <2> DEFINE e == Of("response.output_item.added", Index, Shown("responses", kind))
             f == At("response.content_part.added", Index)
             t == Tell(s, e)
             v == Tell(t, f)
  <2>1. /\ e.t = "response.output_item.added" /\ e.i = s.n /\ e.n = 0
        /\ e.k = Shown("responses", kind)
        /\ f.t = "response.content_part.added" /\ f.i = s.n /\ f.n = 0
    BY <1>3, EventFields
  <2>2. Opening(kind) = <<e>> \o (IF kind = "text" THEN <<f>> ELSE <<>>)
    BY <1>6 DEF Opening, Shown
  <2> HIDE DEF e, f
  <2>3. OneAnnounced(s, e, t)
    BY <1>1, <1>2, <1>6, <2>1, SayNew
  <2> HIDE DEF t
  <2>4. Names(e) <=> x.kind = "call"
    BY <2>1 DEF Names, Shown
  <2>5. Says(t, up, q)
    BY <1>1, <1>2, <1>6, <2>3, <2>4, AnnounceSays
  <2>6. /\ t.begun = s.begun /\ t.done = s.done /\ t.open = TRUE
        /\ t.kind = Shown("responses", kind) /\ Sane(t) /\ t.d = "responses"
    BY <1>1, <1>6, <2>1, <2>3 DEF OneAnnounced, KeptPhase, HeardOn
  <2>7. Stands(t, up, q)
    BY <1>2, <1>4, <1>6, <2>6 DEF Stands, Shown
  <2>8. CASE kind # "text"
    <3>1. IsSeq(<<e>>) /\ <<e>> \o <<>> = <<e>>
      BY ToldOne, JoinNothing
    <3>2. Opening(kind) = <<e>>
      BY <2>2, <2>8, <3>1
    <3>3. Told(s, <<e>>) = t
      BY ToldOne DEF t
    <3> QED BY <2>5, <2>7, <3>1, <3>2, <3>3 DEF GoesWith, InStep
  <2>9. CASE kind = "text"
    <3>1. Opening(kind) = <<e, f>>
      BY <2>2, <2>9, PairIs
    <3>2. IsSeq(Opening(kind)) /\ Told(s, Opening(kind)) = v
      BY <3>1, ToldPair DEF t
    <3>3. NothingNew(t, v)
      <4>1. f.i \in Nat /\ f.n \in Nat
        BY <1>1, <2>1
      <4> QED BY <2>1, <2>6, <4>1, SayAside
    <3> HIDE DEF v
    <3>4. /\ Sane(v) /\ v.d = t.d /\ v.n = t.n /\ SameTold(t, v) /\ v.single = t.single
          /\ v.done = t.done /\ v.begun = t.begun /\ v.open = t.open /\ v.kind = t.kind
      BY <3>3 DEF NothingNew, HeardOn, KeptPlace, KeptPhase
    <3>5. Says(v, up, q)
      BY <2>5, <3>4, SaysAside
    <3>6. Stands(v, up, q)
      BY <2>7, <2>6, <3>4, <1>6 DEF Stands
    <3> QED BY <3>2, <3>5, <3>6 DEF GoesWith, InStep
  <2> QED BY <2>8, <2>9
<1>7. CASE up = "chat"
  <2>1. CASE kind = "call"
    <3> DEFINE e == Of("tool_calls", Index, "id")
               v == Tell(s, e)
    <3>1. /\ e.t = "tool_calls" /\ e.i = s.n /\ e.n = 0 /\ e.k = "id"
      BY <1>3, EventFields
    <3>2. Opening(kind) = <<e>>
      BY <1>7, <2>1 DEF Opening
    <3> HIDE DEF e
    <3>3. IsSeq(Opening(kind)) /\ Told(s, Opening(kind)) = v
      BY <3>2, ToldOne
    <3>4. OneAnnounced(s, e, v)
      BY <1>1, <1>2, <1>7, <3>1, SayNew
    <3> HIDE DEF v
    <3>5. Names(e)
      BY <3>1 DEF Names
    <3>6. Says(v, up, q)
      BY <1>1, <1>7, <2>1, <3>4, <3>5, AnnounceSays
    <3>7. v.done = s.done
      BY <3>4 DEF OneAnnounced, KeptPhase
    <3>8. Stands(v, up, q)
      BY <1>2, <1>4, <1>7, <3>7 DEF Stands
    <3> QED BY <3>3, <3>6, <3>8 DEF GoesWith, InStep
  <2>2. CASE kind = "text"
    <3>1. Opening(kind) = <<>> /\ IsSeq(<<>>) /\ Told(s, <<>>) = s
      BY <1>7, <2>2, ToldNothing, NothingSaid DEF Opening
    <3>2. Says(s, up, q)
      <4>1. x.kind # "call" /\ SameTold(s, s)
        BY <2>2 DEF SameTold
      <4> QED BY <1>1, <1>7, <4>1, UnannouncedSays
    <3>3. Stands(s, up, q)
      BY <1>2, <1>4, <1>7 DEF Stands
    <3> QED BY <3>1, <3>2, <3>3 DEF GoesWith, InStep
  <2>3. CASE kind = "other"
    <3> DEFINE e == Plain("refusal")
               v == Tell(s, e)
    <3>1. /\ e.t = "refusal" /\ e.i \in Nat /\ e.n \in Nat
      BY EventFields
    <3>2. Opening(kind) = <<e>>
      BY <1>7, <2>3 DEF Opening
    <3> HIDE DEF e
    <3>3. IsSeq(Opening(kind)) /\ Told(s, Opening(kind)) = v
      BY <3>2, ToldOne
    <3>4. NothingNew(s, v)
      BY <1>1, <1>7, <3>1, SendAside
    <3> HIDE DEF v
    <3>5. /\ Sane(v) /\ v.d = s.d /\ v.n = s.n /\ SameTold(s, v) /\ v.done = s.done
      BY <3>4 DEF NothingNew, HeardOn, KeptPlace, KeptPhase
    <3>6. Says(v, up, q)
      BY <1>1, <1>7, <2>3, <3>5, UnannouncedSays
    <3>7. Stands(v, up, q)
      BY <1>2, <1>4, <1>7, <3>5 DEF Stands
    <3> QED BY <3>3, <3>6, <3>7 DEF GoesWith, InStep
  <2> QED BY <2>1, <2>2, <2>3
<1> QED BY <1>5, <1>6, <1>7 DEF SrcInv, Dialects

\* What a token changes in the reply.
TokenTo(r, q, kind, n) ==
  /\ kind = "text" => TextGrown(r, q, n)
  /\ kind = "call" => CallGrown(r, q, n)
  /\ CallItems(q) = CallItems(r) /\ Len(q.items) = Len(r.items) /\ q.items # <<>>
  /\ q.items[Len(q.items)].kind = kind

\* A call has been named before it gets its arguments.
LEMMA LastNamed ==
  ASSUME NEW s, NEW u, NEW r, NEW q, NEW n, Says(s, u, r), CallGrown(r, q, n)
  PROVE  Len(s.ids) \in Nat /\ Len(s.ids) > 0
<1>1. PICK a \in Seq(Seq(Nat)), z \in Seq(Nat) : Arguments(r) = Append(a, z)
  BY DEF CallGrown
<1>2. Sane(s) /\ ArgsOf(s) = Append(a, z)
  BY <1>1 DEF Says
<1>3. Len(ArgsOf(s)) = Len(a) + 1 /\ Len(a) \in Nat
  BY <1>1, <1>2, Appended
<1> QED BY <1>2, <1>3, ArgsTyped

\* The reader fits the reply after a token.
LEMMA DeltaFits ==
  ASSUME SrcInv, NEW s, InStep(s, up, src), src.stage = "body", src.open,
         NEW kind, kind \in {"text", "call"}, src.items[Len(src.items)].kind = kind,
         NEW n \in Nat, n # 0, NEW q, TokenTo(src, q, kind, n), q.open = TRUE, q.stage = "body"
  PROVE  GoesWith(s, Delta(kind, n), q)
<1>1. /\ Says(s, up, src) /\ Stands(s, up, src) /\ Sane(s) /\ s.d = up /\ s.n = PlaceOf(up, src)
      /\ s.n \in Nat /\ (s.open => s.n > 0)
  BY FitsHas
<1>2. ~s.done /\ (up # "chat" => s.begun /\ s.open /\ s.kind = Shown(up, kind))
  BY <1>1 DEF Stands
<1>3. Index = s.n
  BY <1>1, SentIs
<1>4. /\ CallItems(q) = CallItems(src) /\ Len(q.items) = Len(src.items) /\ q.items # <<>>
      /\ q.items[Len(q.items)].kind = kind
  BY DEF TokenTo
<1>5. ASSUME NEW e, e.n = n, NEW v, v = Tell(s, e), kind = "text", TextMore(s, e, v),
             up = "responses" => s.open /\ s.kind = "message" /\ e.i = s.n - 1
      PROVE  InStep(v, up, q)
  <2>1. TextGrown(src, q, e.n)
    BY <1>5 DEF TokenTo
  <2>2. Says(v, up, q)
    BY <1>1, <1>4, <1>5, <2>1, TextSays
  <2>3. v.begun = s.begun /\ v.done = s.done /\ v.open = s.open /\ v.kind = s.kind
    BY <1>5 DEF TextMore, KeptPlace, KeptPhase
  <2>4. Stands(v, up, q)
    BY <1>2, <1>4, <2>3 DEF Stands
  <2> QED BY <2>2, <2>4 DEF InStep
<1>6. ASSUME NEW e, e.n = n, NEW v, v = Tell(s, e), kind = "call", ArgumentsMore(s, e, v),
             e.i = s.ids[Len(s.ids)],
             up = "responses" => s.open /\ s.kind = "function_call" /\ e.i = s.n - 1
      PROVE  InStep(v, up, q)
  <2>1. CallGrown(src, q, e.n) /\ e.n \in Nat
    BY <1>6 DEF TokenTo
  <2>2. Len(s.ids) > 0
    BY <1>1, <2>1, LastNamed
  <2>3. Says(v, up, q)
    BY <1>1, <1>4, <1>6, <2>1, <2>2, ArgumentsSays
  <2>4. v.begun = s.begun /\ v.done = s.done /\ v.open = s.open /\ v.kind = s.kind
    BY <1>6 DEF ArgumentsMore, KeptPlace, KeptPhase
  <2>5. Stands(v, up, q)
    BY <1>2, <1>4, <2>4 DEF Stands
  <2> QED BY <2>3, <2>5 DEF InStep
<1>7. CASE up = "messages"
  <2> DEFINE k == IF kind = "text" THEN "text_delta" ELSE "input_json_delta"
             e == Ev("content_block_delta", Index - 1, k, n, FALSE)
             v == Tell(s, e)
  <2>1. e.t = "content_block_delta" /\ e.i = s.n - 1 /\ e.n = n /\ e.k = k
    <3>1. e.t = "content_block_delta" /\ e.i = Index - 1 /\ e.n = n /\ e.k = k
      BY Zenon DEF Ev
    <3> QED BY <1>3, <3>1
  <2>2. Delta(kind, n) = <<e>>
    BY <1>7 DEF Delta
  <2> HIDE DEF e
  <2>3. IsSeq(Delta(kind, n)) /\ Told(s, Delta(kind, n)) = v
    BY <2>2, ToldOne
  <2>4. e.i \in Nat
    BY <1>1, <1>2, <1>7, <2>1
  <2>5. CASE kind = "text"
    <3>1. TextMore(s, e, v)
      BY <1>1, <1>2, <1>7, <2>1, <2>4, <2>5, SayText DEF Shown
    <3> HIDE DEF v
    <3> QED BY <1>5, <1>7, <2>1, <2>3, <2>5, <3>1 DEF GoesWith, v
  <2>6. CASE kind = "call"
    <3>1. ArgumentsMore(s, e, v)
      BY <1>1, <1>2, <1>7, <2>1, <2>4, <2>6, SayArguments DEF Shown
    <3>2. e.i = s.ids[Len(s.ids)]
      BY <1>1, <1>2, <1>7, <2>1, <2>6 DEF Sane, CallOpen, Shown
    <3> HIDE DEF v
    <3> QED BY <1>6, <1>7, <2>1, <2>3, <2>6, <3>1, <3>2 DEF GoesWith, v
  <2> QED BY <2>5, <2>6
<1>8. CASE up = "responses"
  <2> DEFINE y == IF kind = "text" THEN "response.output_text.delta"
                  ELSE "response.function_call_arguments.delta"
             b == ""
             e == Ev(y, Index - 1, b, n, FALSE)
             v == Tell(s, e)
  <2>1. Delta(kind, n) = <<e>>
    BY <1>8 DEF Delta
  <2> HIDE DEF b
  <2>2. e.t = y /\ e.i = s.n - 1 /\ e.n = n
    <3>1. e.t = y /\ e.i = Index - 1 /\ e.n = n
      BY Zenon DEF Ev
    <3> QED BY <1>3, <3>1
  <2> HIDE DEF e
  <2>3. IsSeq(Delta(kind, n)) /\ Told(s, Delta(kind, n)) = v
    BY <2>1, ToldOne
  <2>4. e.i \in Nat /\ e.i < s.n
    BY <1>1, <1>2, <1>8, <2>2
  <2>5. CASE kind = "text"
    <3>1. TextMore(s, e, v)
      BY <1>1, <1>2, <1>8, <2>2, <2>4, <2>5, SayText
    <3>2. s.open /\ s.kind = "message" /\ e.i = s.n - 1
      BY <1>2, <1>8, <2>2, <2>5 DEF Shown
    <3> HIDE DEF v
    <3> QED BY <1>5, <2>2, <2>3, <2>5, <3>1, <3>2 DEF GoesWith, v
  <2>6. CASE kind = "call"
    <3>1. s.open /\ s.kind = "function_call" /\ e.i = s.n - 1
      BY <1>2, <1>8, <2>2, <2>6 DEF Shown
    <3>2. Len(s.ids) > 0 /\ e.i = s.ids[Len(s.ids)] /\ Len(s.ids) \in Nat
      <4>1. Len(s.ids) > 0 /\ s.n - 1 = s.ids[Len(s.ids)]
        BY <1>1, <1>8, <3>1 DEF Sane, CallOpen
      <4> QED BY <1>1, <3>1, <4>1, SaneHas
    <3>3. ArgumentsMore(s, e, v)
      <4>1. \E j \in 1 .. Len(s.ids) : s.ids[j] = e.i
        BY <3>2
      <4> QED BY <1>1, <1>2, <1>8, <2>2, <2>4, <2>6, <4>1, SayArguments
    <3> HIDE DEF v
    <3> QED BY <1>6, <2>2, <2>3, <2>6, <3>1, <3>2, <3>3 DEF GoesWith, v
  <2> QED BY <2>5, <2>6
<1>9. CASE up = "chat"
  <2>1. CASE kind = "text"
    <3> DEFINE b == ""
               e == Ev("content", 0, b, n, FALSE)
               v == Tell(s, e)
    <3>1. Delta(kind, n) = <<e>>
      BY <1>9, <2>1 DEF Delta
    <3> HIDE DEF b
    <3>2. e.t = "content" /\ e.i = 0 /\ e.n = n
      BY Zenon DEF Ev
    <3> HIDE DEF e
    <3>3. IsSeq(Delta(kind, n)) /\ Told(s, Delta(kind, n)) = v
      BY <3>1, ToldOne
    <3>4. TextMore(s, e, v)
      <4>1. e.i \in Nat /\ e.n \in Nat
        BY <3>2
      <4> QED BY <1>1, <1>2, <1>9, <3>2, <4>1, SayText
    <3> HIDE DEF v
    <3> QED BY <1>5, <1>9, <2>1, <3>2, <3>3, <3>4 DEF GoesWith, v
  <2>2. CASE kind = "call"
    <3> DEFINE b == ""
               e == Ev("tool_calls", Index - 1, b, n, FALSE)
               v == Tell(s, e)
    <3>1. Delta(kind, n) = <<e>>
      BY <1>9, <2>2 DEF Delta
    <3> HIDE DEF b
    <3>2. e.t = "tool_calls" /\ e.i = s.n - 1 /\ e.n = n /\ e.k = b
      <4>1. e.t = "tool_calls" /\ e.i = Index - 1 /\ e.n = n /\ e.k = b
        BY Zenon DEF Ev
      <4> QED BY <1>3, <4>1
    <3>3. CarriesArguments(e)
      <4>1. e.k = ""
        BY Zenon, <3>2 DEF b
      <4> HIDE DEF e
      <4> QED BY Zenon, <3>2, <4>1 DEF CarriesArguments
    <3> HIDE DEF e
    <3>4. IsSeq(Delta(kind, n)) /\ Told(s, Delta(kind, n)) = v
      BY <3>1, ToldOne
    <3>5. Len(s.ids) > 0 /\ Len(s.ids) \in Nat
      BY <1>1, <2>2, LastNamed DEF TokenTo
    <3>6. Len(s.ids) = s.n /\ \A j \in 1 .. s.n : s.ids[j] = j - 1
      BY <1>1, <1>9 DEF Sane
    <3>7. s.n > 0 /\ e.i \in Nat /\ e.i < s.n /\ e.i = s.ids[Len(s.ids)]
      <4>1. s.n > 0
        BY <3>5, <3>6
      <4>2. s.n \in 1 .. s.n
        BY <1>1, <4>1
      <4> QED BY <1>1, <3>2, <3>6, <4>1, <4>2
    <3>8. ArgumentsMore(s, e, v)
      <4>1. e.n \in Nat /\ e.n # 0
        BY <3>2
      <4> QED BY <1>1, <1>2, <1>9, <3>2, <3>3, <3>7, <4>1, SayArguments
    <3> HIDE DEF v
    <3> QED BY <1>6, <1>9, <2>2, <3>2, <3>4, <3>7, <3>8 DEF GoesWith, v
  <2> QED BY <2>1, <2>2
<1> QED BY <1>7, <1>8, <1>9 DEF SrcInv, Dialects

\* A reader that has read one more event, and nothing of the pieces in it.
LEMMA OneFits ==
  ASSUME NEW s, NEW e, NEW q, InStep(s, up, src), q.items = src.items,
         Sane(Tell(s, e)), Tell(s, e).d = s.d, Tell(s, e).n = s.n, SameTold(s, Tell(s, e)),
         Tell(s, e).single = s.single, Stands(Tell(s, e), up, q)
  PROVE  GoesWith(s, <<e>>, q)
<1> DEFINE v == Tell(s, e)
           w == <<e>>
<1>1. IsSeq(w) /\ Told(s, w) = v
  BY ToldOne
<1>2. Says(s, up, src)
  BY DEF InStep
<1>3. Sane(v) /\ v.d = s.d /\ v.n = s.n /\ SameTold(s, v) /\ v.single = s.single /\ Stands(v, up, q)
  OBVIOUS
<1> HIDE DEF v, w
<1>4. Says(v, up, q)
  BY <1>2, <1>3, SaysAside
<1>5. GoesWith(s, w, q)
  BY <1>1, <1>3, <1>4 DEF GoesWith, InStep
<1> QED BY <1>5 DEF w

\* A piece is closed.
ClosedNow(s, v) ==
  /\ Sane(v) /\ v.d = s.d /\ v.n = s.n /\ SameTold(s, v) /\ v.single = s.single
  /\ v.begun = s.begun /\ v.done = s.done /\ v.open = FALSE

\* A closing event closes a Responses item.
LEMMA ShutsNow ==
  ASSUME NEW s, NEW e, Sane(s), s.d = "responses", s.n > 0, e.i = s.n - 1, e.n = 0,
         e.t \in {"response.output_text.done", "response.content_part.done",
                  "response.output_item.done"}
  PROVE  ClosedNow(s, Tell(s, e))
<1> DEFINE v == Tell(s, e)
<1>1. e.i \in Nat /\ e.n \in Nat /\ e.i < s.n
  BY SaneHas
<1>2. ShutNow(s, v)
  BY <1>1, SayShut
<1> HIDE DEF v
<1>3. ClosedNow(s, v)
  BY <1>2 DEF ShutNow, ClosedNow, HeardOn, KeptPhase
<1> QED BY <1>3 DEF v

\* What is closed stays closed.
LEMMA ClosedThen ==
  ASSUME NEW s, NEW t, NEW v, ClosedNow(s, t), ClosedNow(t, v) PROVE ClosedNow(s, v)
  BY DEF ClosedNow, SameTold

\* A reader closed fits a reply closed.
LEMMA ClosedFits ==
  ASSUME NEW s, NEW v, NEW q, NEW events, InStep(s, up, src), src.stage = "body",
         ClosedNow(s, v) \/ (up = "chat" /\ v = s), IsSeq(events), Told(s, events) = v,
         q.items = src.items, q.open = FALSE, q.stage = "body"
  PROVE  GoesWith(s, events, q)
<1>1. Says(s, up, src) /\ Stands(s, up, src) /\ Sane(s)
  BY FitsHas
<1>2. ~s.done /\ (up # "chat" => s.begun)
  BY <1>1 DEF Stands
<1>3. CASE ClosedNow(s, v)
  <2>1. Says(v, up, q)
    BY <1>1, <1>3, SaysAside DEF ClosedNow
  <2>2. Stands(v, up, q)
    BY <1>2, <1>3 DEF Stands, ClosedNow
  <2> QED BY <2>1, <2>2 DEF GoesWith, InStep
<1>4. CASE up = "chat" /\ v = s
  <2>1. Says(s, up, q)
    <3>1. SameTold(s, s)
      BY DEF SameTold
    <3> QED BY <1>1, <3>1, SaysAside
  <2>2. Stands(s, up, q)
    BY <1>2, <1>4 DEF Stands
  <2> QED BY <1>4, <2>1, <2>2 DEF GoesWith, InStep
<1> QED BY <1>3, <1>4

\* The reader fits the reply after a piece has been closed.
LEMMA ClosingFits ==
  ASSUME SrcInv, NEW s, InStep(s, up, src), src.stage = "body", src.open,
         NEW kind, kind = src.items[Len(src.items)].kind, NEW q, q.items = src.items,
         q.open = FALSE, q.stage = "body"
  PROVE  GoesWith(s, Closing(kind), q)
<1>1. /\ Says(s, up, src) /\ Stands(s, up, src) /\ Sane(s) /\ s.d = up /\ s.n = PlaceOf(up, src)
      /\ s.n \in Nat /\ (s.open => s.n > 0)
  BY FitsHas
<1>2. up # "chat" => s.begun /\ s.open /\ s.n > 0
  BY <1>1 DEF Stands
<1>3. Index = s.n
  BY <1>1, SentIs
<1>4. CASE up = "messages"
  <2> DEFINE e == At("content_block_stop", Index - 1)
             v == Tell(s, e)
  <2>1. e.t = "content_block_stop" /\ e.i = s.n - 1 /\ e.n = 0
    BY <1>3, EventFields
  <2>2. Closing(kind) = <<e>>
    BY <1>4 DEF Closing
  <2> HIDE DEF e
  <2>3. IsSeq(Closing(kind)) /\ Told(s, Closing(kind)) = v
    BY <2>2, ToldOne
  <2>4. e.i \in Nat /\ e.n \in Nat
    BY <1>1, <1>2, <1>4, <2>1
  <2>5. ShutNow(s, v)
    BY <1>1, <1>2, <1>4, <2>1, <2>4, SayShut
  <2> HIDE DEF v
  <2>6. ClosedNow(s, v)
    BY <2>5 DEF ShutNow, ClosedNow, HeardOn, KeptPhase
  <2> QED BY <2>3, <2>6, ClosedFits
<1>5. CASE up = "responses"
  <2> DEFINE a == At("response.output_text.done", Index - 1)
             b == At("response.content_part.done", Index - 1)
             f == At("response.function_call_arguments.done", Index - 1)
             z == At("response.output_item.done", Index - 1)
  <2>1. /\ a.t = "response.output_text.done" /\ a.i = s.n - 1 /\ a.n = 0
        /\ b.t = "response.content_part.done" /\ b.i = s.n - 1 /\ b.n = 0
        /\ f.t = "response.function_call_arguments.done" /\ f.i = s.n - 1 /\ f.n = 0
        /\ z.t = "response.output_item.done" /\ z.i = s.n - 1 /\ z.n = 0
    <3>1. a.t = "response.output_text.done" /\ a.i = Index - 1 /\ a.n = 0
      BY EventFields
    <3>2. b.t = "response.content_part.done" /\ b.i = Index - 1 /\ b.n = 0
      BY EventFields
    <3>3. f.t = "response.function_call_arguments.done" /\ f.i = Index - 1 /\ f.n = 0
      BY EventFields
    <3>4. z.t = "response.output_item.done" /\ z.i = Index - 1 /\ z.n = 0
      BY EventFields
    <3> HIDE DEF a, b, f, z
    <3> QED BY <1>3, <3>1, <3>2, <3>3, <3>4
  <2>2. Closing(kind) = (CASE kind = "text" -> <<a, b>> [] kind = "call" -> <<f>> [] OTHER -> <<>>)
                        \o <<z>>
    BY <1>5 DEF Closing
  <2> HIDE DEF a, b, f, z
  <2>3. Sane(s) /\ s.d = "responses" /\ s.n > 0
    BY <1>1, <1>2, <1>5
  <2>4. CASE kind = "text"
    <3> DEFINE t == Tell(s, a)
               w == Tell(t, b)
               v == Tell(w, z)
    <3>1. Closing(kind) = <<a, b, z>>
      BY <2>2, <2>4, TripleIs
    <3>2. IsSeq(Closing(kind)) /\ Told(s, Closing(kind)) = v
      BY <3>1, ToldTriple
    <3>3. ClosedNow(s, t)
      BY <2>1, <2>3, ShutsNow
    <3> HIDE DEF t
    <3>4. Sane(t) /\ t.d = "responses" /\ t.n = s.n
      BY <2>3, <3>3 DEF ClosedNow
    <3>5. ClosedNow(t, w)
      BY <2>1, <2>3, <3>4, ShutsNow
    <3> HIDE DEF w
    <3>6. Sane(w) /\ w.d = "responses" /\ w.n = s.n
      BY <3>4, <3>5 DEF ClosedNow
    <3>7. ClosedNow(w, v)
      BY <2>1, <2>3, <3>6, ShutsNow
    <3> HIDE DEF v
    <3>8. ClosedNow(s, v)
      BY <3>3, <3>5, <3>7, ClosedThen
    <3> QED BY <3>2, <3>8, ClosedFits
  <2>5. CASE kind = "call"
    <3> DEFINE t == Tell(s, f)
               v == Tell(t, z)
    <3>1. Closing(kind) = <<f, z>>
      BY <2>2, <2>5, PairIs
    <3>2. IsSeq(Closing(kind)) /\ Told(s, Closing(kind)) = v
      BY <3>1, ToldPair
    <3>3. NothingNew(s, t)
      <4>1. f.i \in Nat /\ f.n \in Nat
        BY <1>1, <2>1, <2>3
      <4> QED BY <2>1, <2>3, <4>1, SayAside
    <3> HIDE DEF t
    <3>4. Sane(t) /\ t.d = "responses" /\ t.n = s.n
      BY <2>3, <3>3 DEF NothingNew, HeardOn, KeptPlace
    <3>5. ClosedNow(t, v)
      BY <2>1, <2>3, <3>4, ShutsNow
    <3> HIDE DEF v
    <3>6. ClosedNow(s, v)
      BY <3>3, <3>5 DEF ClosedNow, NothingNew, HeardOn, KeptPlace, KeptPhase, SameTold
    <3> QED BY <3>2, <3>6, ClosedFits
  <2>6. CASE kind \notin {"text", "call"}
    <3> DEFINE v == Tell(s, z)
    <3>1. Closing(kind) = <<z>>
      <4>1. <<>> \o <<z>> = <<z>>
        OBVIOUS
      <4> QED BY <2>2, <2>6, <4>1
    <3>2. IsSeq(Closing(kind)) /\ Told(s, Closing(kind)) = v
      BY <3>1, ToldOne
    <3>3. ClosedNow(s, v)
      BY <2>1, <2>3, ShutsNow
    <3> HIDE DEF v
    <3> QED BY <3>2, <3>3, ClosedFits
  <2> QED BY <2>4, <2>5, <2>6
<1>6. CASE up = "chat"
  <2>1. Closing(kind) = <<>> /\ IsSeq(<<>>) /\ Told(s, <<>>) = s
    BY <1>6, ToldNothing, NothingSaid DEF Closing
  <2>2. IsSeq(Closing(kind)) /\ Told(s, Closing(kind)) = s
    BY <2>1
  <2> QED BY <1>6, <2>2, ClosedFits
<1> QED BY <1>4, <1>5, <1>6 DEF SrcInv, Dialects

\* The end, and what comes before it.
LEMMA AsideFits ==
  ASSUME NEW s, NEW e, NEW q, InStep(s, up, src), q.items = src.items, q.open = FALSE, ~src.open,
         src.stage \in {"body", "usage", "stop"}, q.stage = "stop", e.i \in Nat, e.n \in Nat,
         \/ up = "messages" /\ e.t = "message_delta"
         \/ up = "chat" /\ e.t = "usage"
  PROVE  GoesWith(s, <<e>>, q)
<1> DEFINE v == Tell(s, e)
<1>1. /\ Says(s, up, src) /\ Stands(s, up, src) /\ Sane(s) /\ s.d = up
  BY FitsHas
<1>2. up # "chat" => ~s.open
  BY <1>1 DEF Stands
<1>3. NothingNew(s, v)
  BY <1>1, <1>2, SayAside
<1> HIDE DEF v
<1>4. /\ Sane(v) /\ v.d = s.d /\ v.n = s.n /\ SameTold(s, v) /\ v.single = s.single
      /\ v.open = s.open
  BY <1>3 DEF NothingNew, HeardOn, KeptPlace
<1>5. Stands(v, up, q)
  BY <1>2, <1>4 DEF Stands
<1> QED BY <1>4, <1>5, OneFits DEF v

\* The reader fits the reply after its end.
LEMMA OverFits ==
  ASSUME NEW s, NEW e, NEW q, InStep(s, up, src), q.items = src.items, q.open = FALSE,
         q.stage \in {"usage", "ended"}, q.stage = "usage" => up = "chat", ~src.open,
         src.stage \in {"body", "stop"}, e.i \in Nat, e.n \in Nat,
         \/ up = "messages" /\ e.t = "message_stop"
         \/ up = "responses" /\ e.t \in {"response.completed", "response.incomplete"}
         \/ up = "chat" /\ e.t \in {"finish", "[DONE]"}
  PROVE  GoesWith(s, <<e>>, q)
<1> DEFINE v == Tell(s, e)
<1>1. /\ Says(s, up, src) /\ Stands(s, up, src) /\ Sane(s) /\ s.d = up
  BY FitsHas
<1>2. up # "chat" => ~s.open
  BY <1>1 DEF Stands
<1>3. OverNow(s, v)
  BY <1>1, <1>2, SayOver
<1> HIDE DEF v
<1>4. /\ Sane(v) /\ v.d = s.d /\ v.n = s.n /\ SameTold(s, v) /\ v.single = s.single
  BY <1>3 DEF OverNow, HeardOn, KeptPlace
<1>5. Stands(v, up, q)
  BY DEF Stands
<1> QED BY <1>4, <1>5, OneFits DEF v

\* The reader fits the reply after a failure reported in it.
LEMMA FailureFits ==
  ASSUME NEW s, NEW e, NEW q, InStep(s, up, src), q.items = src.items, q.open = src.open,
         q.stage = "ended", e.i \in Nat, e.n \in Nat,
         e.t = IF up = "responses" THEN "response.failed" ELSE "error"
  PROVE  GoesWith(s, <<e>>, q)
<1> DEFINE v == Tell(s, e)
<1>1. /\ Says(s, up, src) /\ Stands(s, up, src) /\ Sane(s) /\ s.d = up
  BY FitsHas
<1>2. src.open \in BOOLEAN
  BY <1>1 DEF Stands
<1>3. OverNow(s, v)
  BY <1>1, SendFailure
<1> HIDE DEF v
<1>4. /\ Sane(v) /\ v.d = s.d /\ v.n = s.n /\ SameTold(s, v) /\ v.single = s.single
  BY <1>3 DEF OverNow, HeardOn, KeptPlace
<1>5. Stands(v, up, q)
  BY <1>2 DEF Stands
<1> QED BY <1>4, <1>5, OneFits DEF v

\* No word of the usage.
LEMMA SilenceFits ==
  ASSUME NEW s, NEW q, InStep(s, up, src), up = "chat", q.items = src.items, q.open = FALSE,
         q.stage = "stop"
  PROVE  GoesWith(s, <<>>, q)
<1>1. Says(s, up, src) /\ Sane(s) /\ SameTold(s, s)
  BY FitsHas DEF SameTold
<1>2. Says(s, up, q)
  BY <1>1, SaysAside
<1>3. Stands(s, up, q)
  BY DEF Stands
<1> QED BY <1>2, <1>3, ToldNothing, NothingSaid DEF GoesWith, InStep

ReplyInv == src \in ReplyRecords

\* The upstream sends something: the reader of the wire goes on.
SaidNow(s) ==
  \E events : /\ unread' = unread \o events
              /\ GoesWith(s, events, src') /\ src' \in ReplyRecords

SaysOn(s) == SrcInv /\ ReplyInv /\ InStep(s, up, src)

\* Each step of the upstream says what it does: the beginning,
LEMMA StartSays == ASSUME NEW s, SaysOn(s), UpstreamStarts PROVE SaidNow(s)
<1> DEFINE q == [src EXCEPT !.stage = "body"]
<1>1. src \in ReplyRecords /\ src.stage = "start" /\ unread' = unread \o Begins /\ src' = q
  BY DEF SaysOn, ReplyInv, UpstreamStarts, Sends
<1>2. /\ q.items = src.items /\ q.open = src.open /\ q.stage = "body" /\ q \in ReplyRecords
  BY <1>1 DEF ReplyRecords
<1> HIDE DEF q
<1>3. GoesWith(s, Begins, q)
  BY <1>1, <1>2, BeginsFits DEF SaysOn
<1> QED BY <1>1, <1>2, <1>3 DEF SaidNow

\* a piece opened,
LEMMA OpenSays == ASSUME NEW s, SaysOn(s), UpstreamOpens PROVE SaidNow(s)
<1>1. src \in ReplyRecords /\ src.stage = "body" /\ src.open = FALSE /\ src.items \in Seq(Pieces)
  BY DEF SaysOn, ReplyInv, UpstreamOpens, ReplyRecords
<1>2. PICK kind \in {"text", "call", "other"} :
        Sends(Opening(kind),
              [src EXCEPT !.items = Append(@, [kind |-> kind, tokens |-> <<>>]),
                          !.open = TRUE])
  BY DEF UpstreamOpens
<1> DEFINE x == [kind |-> kind, tokens |-> <<>>]
           q == [src EXCEPT !.items = Append(@, x), !.open = TRUE]
<1>3. unread' = unread \o Opening(kind) /\ src' = q
  BY <1>2 DEF Sends
<1>4. x \in Pieces /\ x.kind = kind /\ x.tokens = <<>>
  BY <1>2 DEF Pieces
<1> HIDE DEF x
<1>5. Append(src.items, x) \in Seq(Pieces)
  BY <1>1, <1>4, Appended
<1>6. q.items = Append(src.items, x) /\ q.open = TRUE /\ q.stage = "body"
  BY <1>1 DEF ReplyRecords
<1>7. q \in ReplyRecords
  BY <1>1, <1>5 DEF ReplyRecords
<1> HIDE DEF q
<1>8. GoesWith(s, Opening(kind), q)
  BY <1>1, <1>2, <1>4, <1>6, OpeningFits DEF SaysOn
<1> QED BY <1>3, <1>7, <1>8 DEF SaidNow

\* a token,
LEMMA DeltaSays == ASSUME NEW s, SaysOn(s), UpstreamSendsDelta PROVE SaidNow(s)
<1> DEFINE last == Len(src.items)
           n == src.tokens + 1
           q == [src EXCEPT !.items[last].tokens = Append(@, n), !.tokens = @ + 1]
           kind == src.items[last].kind
<1>1. /\ src \in ReplyRecords /\ src.stage = "body" /\ src.open = TRUE /\ src.items \in Seq(Pieces)
      /\ src.tokens \in Nat /\ kind # "other"
  BY DEF SaysOn, ReplyInv, UpstreamSendsDelta, ReplyRecords
<1>2. unread' = unread \o Delta(kind, n) /\ src' = q
  BY DEF UpstreamSendsDelta, Sends
<1>3. src.items # <<>>
  BY <1>1 DEF SaysOn, InStep, Stands
<1>4. last \in 1 .. Len(src.items) /\ last \in Nat
  <2> DEFINE it == src.items
  <2>1. it \in Seq(Pieces) /\ it # <<>>
    BY <1>1, <1>3
  <2> HIDE DEF it
  <2>2. Len(it) \in Nat /\ Len(it) # 0
    BY <2>1, EmptySeq
  <2> QED BY <2>2 DEF it
<1>5. src.items[last] \in Pieces
  BY <1>1, <1>4, ElementOfSeq
<1>6. kind \in {"text", "call"}
  BY <1>1, <1>5 DEF Pieces
<1>7. n \in Nat /\ n # 0
  BY <1>1
<1> HIDE DEF n, kind
<1>8. q.open = TRUE /\ q.stage = "body" /\ q.items = [src.items EXCEPT ![last].tokens = Append(@, n)]
  BY <1>1 DEF ReplyRecords
<1>9. q.tokens = src.tokens + 1 /\ q.whole = src.whole /\ q.usage = src.usage /\ q.short = src.short
  BY <1>1 DEF ReplyRecords
<1> DEFINE it == src.items
           jt == [it EXCEPT ![last].tokens = Append(@, n)]
           old == it[last].tokens
<1>10. /\ it \in Seq(Pieces) /\ last \in 1 .. Len(it) /\ it[last] \in Pieces /\ it[last].tokens = old
       /\ old \in Seq(Nat)
  BY <1>1, <1>4, <1>5 DEF Pieces
<1>11. Append(old, n) \in Seq(Nat)
  BY <1>7, <1>10, Appended
<1> HIDE DEF it, last
<1> DEFINE y == [it[last] EXCEPT !.tokens = Append(@, n)]
<1>12. y \in Pieces /\ y.kind = it[last].kind /\ y.tokens = Append(old, n)
  BY <1>10, <1>11 DEF Pieces
<1>13. jt = [it EXCEPT ![last] = y]
  BY <1>10
<1> HIDE DEF y, old
<1>14. /\ jt \in Seq(Pieces) /\ Len(jt) = Len(it) /\ jt[last] = y
       /\ \A i \in 1 .. Len(it) : i # last => jt[i] = it[i]
  <2>1. \A i \in 1 .. Len(it) : [it EXCEPT ![last] = y][i] = IF i = last THEN y ELSE it[i]
    BY <1>10, ExceptSeq
  <2>2. [it EXCEPT ![last] = y] \in Seq(Pieces) /\ Len([it EXCEPT ![last] = y]) = Len(it)
    BY <1>10, <1>12, ExceptSeq
  <2> HIDE DEF jt
  <2> QED BY <1>10, <1>13, <2>1, <2>2
<1>15. q.items = jt
  BY <1>8 DEF it
<1>16. q \in ReplyRecords
  <2> DEFINE k == src.tokens + 1
  <2>1. q = [src EXCEPT !.items = jt, !.tokens = k]
    BY <1>1 DEF it, ReplyRecords
  <2>2. k \in Nat /\ jt \in Seq(Pieces) /\ src \in ReplyRecords
    BY <1>1, <1>14
  <2> HIDE DEF q, jt, k
  <2>3. [src EXCEPT !.items = jt, !.tokens = k] \in ReplyRecords
    BY <2>2 DEF ReplyRecords
  <2> QED BY <2>1, <2>3
<1> HIDE DEF q, jt
<1>17. it # <<>> /\ last = Len(it) /\ Len(jt) = last /\ it = src.items /\ kind = it[last].kind
  BY <1>3, <1>14 DEF it, last, kind
<1>18. /\ it[last].kind = "text" => TextGrown(src, q, n)
       /\ it[last].kind = "call" => CallGrown(src, q, n)
       /\ CallItems(q) = CallItems(src)
  <2>1. /\ src.items \in Seq(Pieces) /\ src.items # <<>> /\ last = Len(src.items)
        /\ q.items \in Seq(Pieces) /\ Len(q.items) = last
    BY <1>10, <1>14, <1>15, <1>17
  <2>2. \A i \in 1 .. last : i # last => q.items[i] = src.items[i]
    BY <1>14, <1>15, <1>17
  <2>3. /\ q.items[last].kind = src.items[last].kind
        /\ q.items[last].tokens = Append(src.items[last].tokens, n)
    BY <1>12, <1>14, <1>15, <1>17 DEF old
  <2>4. /\ src.items[last].kind = "text" => TextGrown(src, q, n)
        /\ src.items[last].kind = "call" => CallGrown(src, q, n)
        /\ CallItems(q) = CallItems(src)
    <3>1. OneToken(src, q, n)
      BY <2>1, <2>2, <2>3 DEF OneToken
    <3> QED BY <1>7, <2>1, <3>1, TokenAdded
  <2> QED BY <1>17, <2>4
<1>19. Len(q.items) = Len(src.items) /\ q.items # <<>> /\ q.items[Len(q.items)].kind = kind
  <2>1. jt # <<>>
    BY <1>4, <1>14, <1>17, EmptySeq
  <2> QED BY <1>12, <1>14, <1>15, <1>17, <2>1
<1>20. TokenTo(src, q, kind, n)
  BY <1>17, <1>18, <1>19 DEF TokenTo
<1>21. src.items[Len(src.items)].kind = kind
  BY <1>17
<1>22. GoesWith(s, Delta(kind, n), q)
  BY <1>1, <1>6, <1>7, <1>8, <1>20, <1>21, DeltaFits DEF SaysOn
<1> QED BY <1>2, <1>16, <1>22 DEF SaidNow, q, kind, n, last, jt, it

\* a piece closed,
LEMMA CloseSays == ASSUME NEW s, SaysOn(s), UpstreamCloses PROVE SaidNow(s)
<1> DEFINE q == [src EXCEPT !.open = FALSE]
           kind == src.items[Len(src.items)].kind
<1>1. /\ src \in ReplyRecords /\ src.stage = "body" /\ src.open = TRUE
      /\ unread' = unread \o Closing(kind) /\ src' = q
  BY DEF SaysOn, ReplyInv, UpstreamCloses, Sends, ReplyRecords
<1>2. q.items = src.items /\ q.open = FALSE /\ q.stage = "body" /\ q \in ReplyRecords
  BY <1>1 DEF ReplyRecords
<1> HIDE DEF q
<1>3. GoesWith(s, Closing(kind), q)
  BY <1>1, <1>2, ClosingFits DEF SaysOn
<1> QED BY <1>1, <1>2, <1>3 DEF SaidNow

\* the stop reason,
LEMMA ConcludeSays == ASSUME NEW s, SaysOn(s), UpstreamConcludes PROVE SaidNow(s)
<1>1. /\ src \in ReplyRecords /\ src.stage = "body" /\ src.open = FALSE /\ InStep(s, up, src)
      /\ up \in Dialects
  BY DEF SaysOn, ReplyInv, UpstreamConcludes, ReplyRecords, SrcInv
<1>2. PICK long \in BOOLEAN :
        CASE up = "messages" ->
               Sends(<<Ev("message_delta", 0, Reason(long), 0, TRUE)>>,
                     [src EXCEPT !.stage = "stop", !.usage = TRUE])
          [] up = "chat" ->
               Sends(<<Of("finish", 0, Reason(long))>>, [src EXCEPT !.stage = "usage"])
          [] up = "responses" ->
               Sends(<<IF long THEN Ev("response.incomplete", 0, "max_output_tokens", 0, TRUE)
                       ELSE Ev("response.completed", 0, "", 0, TRUE)>>,
                     [src EXCEPT !.stage = "ended", !.whole = TRUE, !.usage = TRUE,
                                 !.short = long])
  BY DEF UpstreamConcludes
<1>3. CASE up = "messages"
  <2> DEFINE e == Ev("message_delta", 0, Reason(long), 0, TRUE)
             q == [src EXCEPT !.stage = "stop", !.usage = TRUE]
  <2>1. unread' = unread \o <<e>> /\ src' = q
    BY <1>2, <1>3 DEF Sends
  <2>2. q.items = src.items /\ q.open = FALSE /\ q.stage = "stop" /\ q \in ReplyRecords
    BY <1>1 DEF ReplyRecords
  <2>3. e.t = "message_delta" /\ e.i = 0 /\ e.n = 0
    BY Zenon DEF Ev
  <2> HIDE DEF e, q
  <2>4. GoesWith(s, <<e>>, q)
    <3>1. src.stage \in {"body", "usage", "stop"} /\ ~src.open /\ e.i \in Nat /\ e.n \in Nat
      BY <1>1, <2>3
    <3>2. \/ up = "messages" /\ e.t = "message_delta"
          \/ up = "chat" /\ e.t = "usage"
      BY <1>3, <2>3
    <3> QED BY <1>1, <2>2, <3>1, <3>2, AsideFits
  <2> QED BY <2>1, <2>2, <2>4 DEF SaidNow
<1>4. CASE up = "chat"
  <2> DEFINE e == Of("finish", 0, Reason(long))
             q == [src EXCEPT !.stage = "usage"]
  <2>1. unread' = unread \o <<e>> /\ src' = q
    BY <1>2, <1>4 DEF Sends
  <2>2. q.items = src.items /\ q.open = FALSE /\ q.stage = "usage" /\ q \in ReplyRecords
    BY <1>1 DEF ReplyRecords
  <2>3. e.t = "finish" /\ e.i = 0 /\ e.n = 0
    BY EventFields
  <2> HIDE DEF e, q
  <2>4. GoesWith(s, <<e>>, q)
    <3>1. /\ q.stage \in {"usage", "ended"} /\ (q.stage = "usage" => up = "chat") /\ ~src.open
          /\ src.stage \in {"body", "stop"} /\ e.i \in Nat /\ e.n \in Nat
      BY <1>1, <1>4, <2>2, <2>3
    <3>2. \/ up = "messages" /\ e.t = "message_stop"
          \/ up = "responses" /\ e.t \in {"response.completed", "response.incomplete"}
          \/ up = "chat" /\ e.t \in {"finish", "[DONE]"}
      BY <1>1, <1>4, <2>2, <2>3
    <3> QED BY <1>1, <2>2, <3>1, <3>2, OverFits
  <2> QED BY <2>1, <2>2, <2>4 DEF SaidNow
<1>5. CASE up = "responses"
  <2> DEFINE a == Ev("response.incomplete", 0, "max_output_tokens", 0, TRUE)
             b == Ev("response.completed", 0, "", 0, TRUE)
             e == IF long THEN a ELSE b
             q == [src EXCEPT !.stage = "ended", !.whole = TRUE, !.usage = TRUE,
                              !.short = long]
  <2>1. unread' = unread \o <<e>> /\ src' = q
    BY <1>2, <1>5 DEF Sends
  <2>2. q.items = src.items /\ q.open = FALSE /\ q.stage = "ended" /\ q \in ReplyRecords
    BY <1>1 DEF ReplyRecords
  <2>3. a.t = "response.incomplete" /\ a.i = 0 /\ a.n = 0
    BY Zenon DEF Ev
  <2>4. b.t = "response.completed" /\ b.i = 0 /\ b.n = 0
    BY Zenon DEF Ev
  <2> HIDE DEF a, b
  <2>5. e.t \in {"response.completed", "response.incomplete"} /\ e.i = 0 /\ e.n = 0
    BY <2>3, <2>4
  <2> HIDE DEF e, q
  <2>6. GoesWith(s, <<e>>, q)
    <3>1. /\ q.stage \in {"usage", "ended"} /\ (q.stage = "usage" => up = "chat") /\ ~src.open
          /\ src.stage \in {"body", "stop"} /\ e.i \in Nat /\ e.n \in Nat
      BY <1>1, <1>5, <2>2, <2>5
    <3>2. \/ up = "messages" /\ e.t = "message_stop"
          \/ up = "responses" /\ e.t \in {"response.completed", "response.incomplete"}
          \/ up = "chat" /\ e.t \in {"finish", "[DONE]"}
      BY <1>1, <1>5, <2>2, <2>5
    <3> QED BY <1>1, <2>2, <3>1, <3>2, OverFits
  <2> QED BY <2>1, <2>2, <2>6 DEF SaidNow
<1> QED BY <1>1, <1>3, <1>4, <1>5 DEF Dialects

\* the usage of a Chat reply,
LEMMA UsageSays == ASSUME NEW s, SaysOn(s), UpstreamReportsUsage PROVE SaidNow(s)
<1>1. /\ src \in ReplyRecords /\ src.stage = "usage" /\ up = "chat" /\ InStep(s, up, src)
  BY DEF SaysOn, ReplyInv, UpstreamReportsUsage, SrcInv, Staged
<1>2. src.open = FALSE
  BY <1>1 DEF InStep, Stands
<1>3. CASE Sends(<<Ev("usage", 0, "", 0, TRUE)>>,
                 [src EXCEPT !.stage = "stop", !.usage = TRUE, !.whole = TRUE])
  <2> DEFINE e == Ev("usage", 0, "", 0, TRUE)
             q == [src EXCEPT !.stage = "stop", !.usage = TRUE, !.whole = TRUE]
  <2>1. unread' = unread \o <<e>> /\ src' = q
    BY <1>3 DEF Sends
  <2>2. q.items = src.items /\ q.open = FALSE /\ q.stage = "stop" /\ q \in ReplyRecords
    BY <1>1, <1>2 DEF ReplyRecords
  <2>3. e.t = "usage" /\ e.i = 0 /\ e.n = 0
    BY Zenon DEF Ev
  <2> HIDE DEF e, q
  <2>4. GoesWith(s, <<e>>, q)
    <3>1. src.stage \in {"body", "usage", "stop"} /\ ~src.open /\ e.i \in Nat /\ e.n \in Nat
      BY <1>1, <1>2, <2>3
    <3>2. \/ up = "messages" /\ e.t = "message_delta"
          \/ up = "chat" /\ e.t = "usage"
      BY <1>1, <2>3
    <3> QED BY <1>1, <2>2, <3>1, <3>2, AsideFits
  <2> QED BY <2>1, <2>2, <2>4 DEF SaidNow
<1>4. CASE Sends(<<>>, [src EXCEPT !.stage = "stop"])
  <2> DEFINE q == [src EXCEPT !.stage = "stop"]
  <2>1. unread' = unread \o <<>> /\ src' = q
    BY <1>4 DEF Sends
  <2>2. q.items = src.items /\ q.open = FALSE /\ q.stage = "stop" /\ q \in ReplyRecords
    BY <1>1, <1>2 DEF ReplyRecords
  <2> HIDE DEF q
  <2>3. GoesWith(s, <<>>, q)
    BY <1>1, <2>2, SilenceFits
  <2> QED BY <2>1, <2>2, <2>3 DEF SaidNow
<1> QED BY <1>3, <1>4 DEF UpstreamReportsUsage

\* the end,
LEMMA EndSays == ASSUME NEW s, SaysOn(s), UpstreamEnds PROVE SaidNow(s)
<1> DEFINE t == IF up = "chat" THEN "[DONE]" ELSE "message_stop"
           e == Plain(t)
           q == [src EXCEPT !.stage = "ended", !.whole = TRUE]
<1>1. /\ src \in ReplyRecords /\ src.stage = "stop" /\ up \in {"messages", "chat"} /\ InStep(s, up, src)
      /\ unread' = unread \o <<e>> /\ src' = q
  BY DEF SaysOn, ReplyInv, UpstreamEnds, Sends, SrcInv, Staged
<1>2. src.open = FALSE
  BY <1>1 DEF InStep, Stands
<1>3. q.items = src.items /\ q.open = FALSE /\ q.stage = "ended" /\ q \in ReplyRecords
  BY <1>1, <1>2 DEF ReplyRecords
<1>4. e.t = t /\ e.i = 0 /\ e.n = 0
  <2> HIDE DEF t
  <2> QED BY EventFields
<1> HIDE DEF e, q
<1>5. /\ up = "messages" => e.t = "message_stop"
      /\ up = "chat" => e.t = "[DONE]"
  BY <1>4
<1>6. GoesWith(s, <<e>>, q)
  <2>1. /\ q.stage \in {"usage", "ended"} /\ (q.stage = "usage" => up = "chat") /\ ~src.open
        /\ src.stage \in {"body", "stop"} /\ e.i \in Nat /\ e.n \in Nat
    BY <1>1, <1>2, <1>3, <1>4, <1>5
  <2>2. \/ up = "messages" /\ e.t = "message_stop"
        \/ up = "responses" /\ e.t \in {"response.completed", "response.incomplete"}
        \/ up = "chat" /\ e.t \in {"finish", "[DONE]"}
    BY <1>1, <1>2, <1>3, <1>4, <1>5
  <2> QED BY <1>1, <1>3, <2>1, <2>2, OverFits
<1> QED BY <1>1, <1>3, <1>6 DEF SaidNow

\* and a failure.
LEMMA FailSays == ASSUME NEW s, SaysOn(s), UpstreamFails PROVE SaidNow(s)
<1>1. PICK k :
        Sends(<<IF up = "responses" THEN Of("response.failed", 0, k) ELSE Plain("error")>>,
              [src EXCEPT !.stage = "ended"])
  BY DEF UpstreamFails
<1> DEFINE a == Of("response.failed", 0, k)
           b == Plain("error")
           e == IF up = "responses" THEN a ELSE b
           q == [src EXCEPT !.stage = "ended"]
<1>2. /\ src \in ReplyRecords /\ InStep(s, up, src) /\ unread' = unread \o <<e>> /\ src' = q
  BY <1>1 DEF SaysOn, ReplyInv, Sends
<1>3. q.items = src.items /\ q.open = src.open /\ q.stage = "ended" /\ q \in ReplyRecords
  BY <1>2 DEF ReplyRecords
<1>4. a.t = "response.failed" /\ a.i = 0 /\ a.n = 0
  BY EventFields
<1>5. b.t = "error" /\ b.i = 0 /\ b.n = 0
  BY EventFields
<1> HIDE DEF a, b
<1>6. e.t = (IF up = "responses" THEN "response.failed" ELSE "error") /\ e.i = 0 /\ e.n = 0
  BY <1>4, <1>5
<1> HIDE DEF e, q
<1>7. GoesWith(s, <<e>>, q)
  BY <1>2, <1>3, <1>6, FailureFits
<1> QED BY <1>2, <1>3, <1>7 DEF SaidNow

---------------------------------------------------------------------------
(* What has been told stays told.                                          *)

Longer(a, b) == Len(a) <= Len(b) /\ \A i \in 1 .. Len(a) : b[i] = a[i]

Extends(s, t) ==
  /\ t.d = s.d /\ s.n <= t.n /\ Longer(s.text, t.text) /\ Longer(s.ids, t.ids)
  /\ \A i \in Nat : Longer(s.args[i], t.args[i])
  /\ (s.begun => t.begun) /\ (s.done => t.done) /\ (t.single => s.single)

\* Longer is an order.
LEMMA LongerSame == ASSUME NEW a, Len(a) \in Nat PROVE Longer(a, a)
  BY DEF Longer

\* One more element is longer.
LEMMA LongerLast == ASSUME NEW a \in Seq(Nat), NEW x \in Nat PROVE Longer(a, Append(a, x))
  BY Appended DEF Longer

\* Longer than what is longer.
LEMMA LongerOn ==
  ASSUME NEW a, NEW b, NEW c, Len(a) \in Nat, Len(b) \in Nat, Len(c) \in Nat,
         Longer(a, b), Longer(b, c)
  PROVE  Longer(a, c)
<1>1. Len(a) <= Len(c)
  BY DEF Longer
<1>2. ASSUME NEW i \in 1 .. Len(a) PROVE c[i] = a[i]
  <2>1. i \in 1 .. Len(b)
    BY DEF Longer
  <2> QED BY <2>1 DEF Longer
<1> QED BY <1>1, <1>2 DEF Longer

\* The lengths of a legal beginning are numbers.
LEMMA SaneLens ==
  ASSUME NEW s, Sane(s)
  PROVE  /\ Len(s.text) \in Nat /\ Len(s.ids) \in Nat /\ s.n \in Nat
         /\ \A i \in Nat : s.args[i] \in Seq(Nat) /\ Len(s.args[i]) \in Nat
<1>1. s.text \in Seq(Nat) /\ s.ids \in Seq(Nat) /\ s.n \in Nat /\ s.args \in [Nat -> Seq(Nat)]
  BY SaneHas
<1>2. \A i \in Nat : s.args[i] \in Seq(Nat)
  BY <1>1
<1> QED BY <1>1, <1>2, LenProperties

\* Extends is an order.
LEMMA ExtendsSame == ASSUME NEW s, Sane(s) PROVE Extends(s, s)
<1>1. /\ Len(s.text) \in Nat /\ Len(s.ids) \in Nat /\ s.n \in Nat
      /\ \A i \in Nat : Len(s.args[i]) \in Nat
  BY SaneLens
<1>2. Longer(s.text, s.text) /\ Longer(s.ids, s.ids)
  BY <1>1, LongerSame
<1>3. \A i \in Nat : Longer(s.args[i], s.args[i])
  BY <1>1, LongerSame
<1> QED BY <1>1, <1>2, <1>3 DEF Extends

\* What extends an extension extends the beginning.
LEMMA ExtendsOn ==
  ASSUME NEW s, NEW t, NEW v, Sane(s), Sane(t), Sane(v), Extends(s, t), Extends(t, v)
  PROVE  Extends(s, v)
<1>1. Longer(s.text, v.text)
  <2>1. Len(s.text) \in Nat /\ Len(t.text) \in Nat /\ Len(v.text) \in Nat
    BY SaneLens
  <2> QED BY <2>1, LongerOn DEF Extends
<1>2. Longer(s.ids, v.ids)
  <2>1. Len(s.ids) \in Nat /\ Len(t.ids) \in Nat /\ Len(v.ids) \in Nat
    BY SaneLens
  <2> QED BY <2>1, LongerOn DEF Extends
<1>3. ASSUME NEW i \in Nat PROVE Longer(s.args[i], v.args[i])
  <2>1. Len(s.args[i]) \in Nat /\ Len(t.args[i]) \in Nat /\ Len(v.args[i]) \in Nat
    BY SaneLens
  <2>2. Longer(s.args[i], t.args[i]) /\ Longer(t.args[i], v.args[i])
    BY DEF Extends
  <2> QED BY <2>1, <2>2, LongerOn
<1>4. s.n <= v.n
  BY SaneLens DEF Extends
<1> QED BY <1>1, <1>2, <1>3, <1>4 DEF Extends

\* One event more extends what was told.
LEMMA TellExtends ==
  ASSUME NEW s, NEW e, Sane(s), MayFollow(s, e) PROVE Extends(s, Tell(s, e))
<1> DEFINE t == Tell(s, e)
<1>0. t = Tell(s, e)
  OBVIOUS
<1> HIDE DEF t
<1>1. /\ t.d = s.d /\ t.single = (s.single /\ OneAtATime(s, e))
      /\ t.begun = (s.begun \/ e.t \in {"message_start", "response.created"})
      /\ t.done = (s.done \/ e.t = "finish" \/ Terminal(e))
      /\ t.n = IF Announces(e) THEN s.n + 1 ELSE s.n
      /\ t.text = IF CarriesText(e) THEN Append(s.text, e.n) ELSE s.text
      /\ t.ids = IF Names(e) THEN Append(s.ids, e.i) ELSE s.ids
      /\ t.args = IF CarriesArguments(e) THEN [s.args EXCEPT ![e.i] = Append(@, e.n)] ELSE s.args
  BY <1>0 DEF Tell
<1>2. e.i \in Nat /\ e.n \in Nat
  BY WherePlaced
<1>3. /\ Len(s.text) \in Nat /\ Len(s.ids) \in Nat /\ s.n \in Nat
      /\ \A i \in Nat : s.args[i] \in Seq(Nat) /\ Len(s.args[i]) \in Nat
      /\ s.text \in Seq(Nat) /\ s.ids \in Seq(Nat) /\ s.args \in [Nat -> Seq(Nat)]
  BY SaneLens, SaneHas
<1>4. Longer(s.text, t.text)
  <2> DEFINE w == s.text
  <2>1. Longer(w, w) /\ Longer(w, Append(w, e.n))
    <3>1. w \in Seq(Nat) /\ Len(w) \in Nat
      BY <1>3
    <3> HIDE DEF w
    <3> QED BY <1>2, <3>1, LongerSame, LongerLast
  <2> QED BY <1>1, <2>1
<1>5. Longer(s.ids, t.ids)
  <2> DEFINE w == s.ids
  <2>1. Longer(w, w) /\ Longer(w, Append(w, e.i))
    <3>1. w \in Seq(Nat) /\ Len(w) \in Nat
      BY <1>3
    <3> HIDE DEF w
    <3> QED BY <1>2, <3>1, LongerSame, LongerLast
  <2> QED BY <1>1, <2>1
<1>6. ASSUME NEW i \in Nat PROVE Longer(s.args[i], t.args[i])
  <2> DEFINE w == s.args[i]
  <2>1. t.args[i] = w \/ t.args[i] = Append(w, e.n)
    BY <1>1, <1>2, <1>3
  <2>2. Longer(w, w) /\ Longer(w, Append(w, e.n))
    <3>1. w \in Seq(Nat) /\ Len(w) \in Nat
      BY <1>3
    <3> HIDE DEF w
    <3> QED BY <1>2, <3>1, LongerSame, LongerLast
  <2> QED BY <2>1, <2>2
<1>7. s.n <= t.n
  <2>1. s.n \in Nat /\ (t.n = s.n + 1 \/ t.n = s.n)
    BY <1>1, <1>3
  <2> QED BY <2>1
<1> QED BY <1>1, <1>4, <1>5, <1>6, <1>7 DEF Extends, t

\* So does every event of a legal stream.
LEMMA ToldExtends ==
  ASSUME NEW s, NEW ev, NEW g, Len(ev) \in Nat, ToldAs(s, ev, g), Sane(s), Sane(Told(s, ev))
  PROVE  \A i \in 0 .. Len(ev) : Extends(s, g[i]) /\ (s.done => SameTold(s, g[i]))
<1> DEFINE S == {i \in Nat : Extends(s, g[i]) /\ Sane(g[i]) /\ (s.done => SameTold(s, g[i]))}
<1>1. \A i \in 1 .. Len(ev) : MayFollow(g[i - 1], ev[i]) /\ Sane(g[i])
  BY SaneThroughout
<1>2. 0 \in S
  <2>1. g[0] = s
    BY DEF ToldAs
  <2> QED BY <2>1, ExtendsSame DEF SameTold
<1>3. ASSUME NEW i \in Nat, i \in S, i < Len(ev) PROVE i + 1 \in S
  <2>1. i + 1 \in 1 .. Len(ev) /\ (i + 1) - 1 = i
    BY <1>3
  <2>2. g[i + 1] = Tell(g[i], ev[i + 1]) /\ MayFollow(g[i], ev[i + 1]) /\ Sane(g[i + 1])
    BY <1>1, <2>1 DEF ToldAs
  <2>3. Extends(s, g[i]) /\ Sane(g[i]) /\ (s.done => SameTold(s, g[i]))
    BY <1>3
  <2> DEFINE a == g[i]
             b == g[i + 1]
             e == ev[i + 1]
  <2>4. b = Tell(a, e) /\ MayFollow(a, e) /\ Sane(b) /\ Extends(s, a) /\ Sane(a)
        /\ (s.done => SameTold(s, a))
    BY <2>2, <2>3
  <2> HIDE DEF a, b, e
  <2>5. Extends(a, b)
    BY <2>4, TellExtends
  <2>6. Extends(s, b)
    BY <2>4, <2>5, ExtendsOn
  <2>7. ASSUME s.done PROVE SameTold(s, b)
    <3>1. a.done
      BY <2>4, <2>7 DEF Extends
    <3>2. SameTold(a, b)
      BY <2>4, <3>1, DoneAddsNothing
    <3> QED BY <2>4, <2>7, <3>2 DEF SameTold
  <2> QED BY <2>4, <2>6, <2>7 DEF b
<1>4. S \in SUBSET Nat
  OBVIOUS
<1> HIDE DEF S
<1>5. \A i \in 0 .. Len(ev) : i \in S
  BY <1>2, <1>3, <1>4, Induction
<1> QED BY <1>5 DEF S

\* From the beginning to the end of what is read.
LEMMA ToldGrows ==
  ASSUME NEW s, NEW ev, IsSeq(ev), Sane(s), Sane(Told(s, ev))
  PROVE  Extends(s, Told(s, ev)) /\ (s.done => SameTold(s, Told(s, ev)))
<1>1. Len(ev) \in Nat
  BY DEF IsSeq
<1>2. PICK g : ToldAs(s, ev, g)
  BY <1>1, ToldIs
<1>3. Told(s, ev) = g[Len(ev)]
  BY <1>2 DEF ToldAs
<1>4. Len(ev) \in 0 .. Len(ev)
  BY <1>1
<1>5. Extends(s, g[Len(ev)]) /\ (s.done => SameTold(s, g[Len(ev)]))
  BY <1>1, <1>2, <1>4, ToldExtends
<1> QED BY <1>3, <1>5

\* A stream that produces output has begun, and one that has its terminal is done.
LEMMA ToldShows ==
  ASSUME NEW s, NEW ev, IsSeq(ev), Sane(s), Sane(Told(s, ev))
  PROVE  /\ s.d = "messages" /\ (\E j \in 1 .. Len(ev) : ProducesOutput(ev[j])) => Told(s, ev).begun
         /\ Over(ev) => Told(s, ev).done
<1>1. Len(ev) \in Nat
  BY DEF IsSeq
<1>2. PICK g : ToldAs(s, ev, g)
  BY <1>1, ToldIs
<1>3. Told(s, ev) = g[Len(ev)] /\ g[0] = s
  BY <1>2 DEF ToldAs
<1>4. \A i \in 1 .. Len(ev) : MayFollow(g[i - 1], ev[i]) /\ Sane(g[i])
  BY <1>1, <1>2, SaneThroughout
<1>5. \A i \in 0 .. Len(ev) : Sane(g[i])
  BY <1>1, <1>3, <1>4
<1>6. \A i \in 0 .. Len(ev) : Extends(s, g[i])
  BY <1>1, <1>2, ToldExtends
<1>7. ASSUME NEW j \in 1 .. Len(ev)
      PROVE  /\ s.d = "messages" /\ ProducesOutput(ev[j]) => Told(s, ev).begun
             /\ Terminal(ev[j]) => Told(s, ev).done
  <2> DEFINE a == g[j - 1]
             b == g[j]
             e == ev[j]
             rest == SubSeq(ev, j + 1, Len(ev))
  <2>1. /\ b = Tell(a, e) /\ MayFollow(a, e) /\ Sane(a) /\ Sane(b) /\ a.d = s.d
    <3>1. j - 1 \in 0 .. Len(ev)
      BY <1>1
    <3> QED BY <1>2, <1>4, <1>5, <1>6, <3>1 DEF ToldAs, Extends
  <2>2. Extends(b, Told(s, ev))
    <3> DEFINE S == {k \in Nat : j + k <= Len(ev) => Extends(b, g[j + k])}
    <3>1. 0 \in S
      <4>1. j + 0 = j
        BY <1>1
      <4> QED BY <2>1, <4>1, ExtendsSame
    <3>2. ASSUME NEW k \in Nat, k \in S, k < Len(ev) PROVE k + 1 \in S
      <4>1. CASE ~(j + (k + 1) <= Len(ev))
        BY <4>1
      <4>2. CASE j + (k + 1) <= Len(ev)
        <5>1. /\ j + (k + 1) \in 1 .. Len(ev) /\ (j + (k + 1)) - 1 = j + k /\ j + k \in 0 .. Len(ev)
              /\ j + k <= Len(ev)
          BY <1>1, <4>2
        <5> DEFINE x == g[j + k]
                   y == g[j + (k + 1)]
        <5>2. y = Tell(x, ev[j + (k + 1)]) /\ MayFollow(x, ev[j + (k + 1)]) /\ Sane(x) /\ Sane(y)
          BY <1>2, <1>4, <1>5, <5>1 DEF ToldAs
        <5>3. Extends(b, x)
          BY <3>2, <5>1
        <5> HIDE DEF x, y, b
        <5>4. Extends(x, y)
          BY <5>2, TellExtends
        <5>5. Extends(b, y)
          BY <2>1, <5>2, <5>3, <5>4, ExtendsOn
        <5> QED BY <5>5 DEF y
      <4> QED BY <4>1, <4>2
    <3>3. S \in SUBSET Nat
      OBVIOUS
    <3> HIDE DEF S
    <3>4. \A k \in 0 .. Len(ev) : k \in S
      BY <1>1, <3>1, <3>2, <3>3, Induction
    <3>5. Len(ev) - j \in 0 .. Len(ev) /\ j + (Len(ev) - j) = Len(ev)
      BY <1>1
    <3>6. Len(ev) - j \in S
      BY <3>4, <3>5
    <3> QED BY <1>3, <3>5, <3>6 DEF S
  <2> HIDE DEF a, b, e
  <2>3. b.begun = (a.begun \/ e.t \in {"message_start", "response.created"})
        /\ b.done = (a.done \/ e.t = "finish" \/ Terminal(e))
    BY <2>1, TellSays
  <2>4. ASSUME s.d = "messages", ProducesOutput(e) PROVE Told(s, ev).begun
    <3>1. MessagesGoOn(a, e) /\ e.t \in Lexicon("messages")
      BY <2>1, <2>4 DEF MayFollow
    <3>2. e.t \in {"content_block_start", "content_block_delta"}
      BY <2>4, <3>1 DEF ProducesOutput, Lexicon
    <3>3. a.begun = TRUE
      BY <2>1, <3>1, <3>2, SaneHas DEF MessagesGoOn
    <3> QED BY <2>2, <2>3, <3>3 DEF Extends
  <2>5. ASSUME Terminal(e) PROVE Told(s, ev).done
    BY <2>2, <2>3, <2>5 DEF Extends
  <2> QED BY <2>4, <2>5 DEF e
<1> QED BY <1>7 DEF Over

---------------------------------------------------------------------------
(* What the client has been told of what the upstream has said.            *)

Equal(h, s) ==
  /\ h.text = s.text /\ Len(h.ids) = Len(s.ids)
  /\ \A j \in 1 .. Len(s.ids) : h.args[h.ids[j]] = s.args[s.ids[j]]
Part(h, s) ==
  /\ Longer(h.text, s.text) /\ Len(h.ids) <= Len(s.ids)
  /\ \A j \in 1 .. Len(h.ids) : Longer(h.args[h.ids[j]], s.args[s.ids[j]])

\* Readers told the same are equal;
LEMMA EqualSame == ASSUME NEW g, NEW h, SameTold(g, h) PROVE Equal(h, g)
  BY DEF SameTold, Equal

\* equality goes on,
LEMMA EqualOn ==
  ASSUME NEW g, NEW m, NEW h, Len(g.ids) \in Nat, Equal(m, g), Equal(h, m) PROVE Equal(h, g)
  BY DEF Equal

\* and what is equal is a part.
LEMMA EqualPart == ASSUME NEW h, NEW s, Sane(s), Sane(h), Equal(h, s) PROVE Part(h, s)
<1>1. /\ Len(s.text) \in Nat /\ Len(s.ids) \in Nat /\ h.text = s.text /\ Len(h.ids) = Len(s.ids)
  BY SaneLens DEF Equal
<1>2. Longer(h.text, s.text)
  BY <1>1, LongerSame
<1>3. ASSUME NEW j \in 1 .. Len(h.ids) PROVE Longer(h.args[h.ids[j]], s.args[s.ids[j]])
  <2>1. j \in 1 .. Len(s.ids) /\ s.ids \in Seq(Nat)
    BY <1>1, SaneHas
  <2>2. s.ids[j] \in Nat
    BY <2>1, ElementOfSeq
  <2>3. h.args[h.ids[j]] = s.args[s.ids[j]] /\ Len(s.args[s.ids[j]]) \in Nat
    BY <2>1, <2>2, SaneLens DEF Equal
  <2> QED BY <2>3, LongerSame
<1> QED BY <1>1, <1>2, <1>3 DEF Part

\* A part of what has been told is a part of what extends it.
LEMMA PartOn ==
  ASSUME NEW h, NEW s, NEW t, Sane(h), Sane(s), Sane(t), Part(h, s), Extends(s, t)
  PROVE  Part(h, t)
<1>1. /\ Len(h.text) \in Nat /\ Len(s.text) \in Nat /\ Len(t.text) \in Nat
      /\ Len(h.ids) \in Nat /\ Len(s.ids) \in Nat /\ Len(t.ids) \in Nat
      /\ h.ids \in Seq(Nat) /\ s.ids \in Seq(Nat)
  BY SaneLens, SaneHas
<1>2. Longer(h.text, t.text)
  BY <1>1, LongerOn DEF Part, Extends
<1>3. Len(h.ids) <= Len(t.ids)
  BY <1>1 DEF Part, Extends, Longer
<1>4. ASSUME NEW j \in 1 .. Len(h.ids) PROVE Longer(h.args[h.ids[j]], t.args[t.ids[j]])
  <2>1. j \in 1 .. Len(s.ids)
    BY <1>1 DEF Part
  <2>2. h.ids[j] \in Nat /\ s.ids[j] \in Nat /\ t.ids[j] = s.ids[j]
    BY <1>1, <2>1, ElementOfSeq DEF Extends, Longer
  <2> DEFINE a == h.args[h.ids[j]]
             b == s.args[s.ids[j]]
             c == t.args[s.ids[j]]
  <2>3. Len(a) \in Nat /\ Len(b) \in Nat /\ Len(c) \in Nat
    BY <2>2, SaneLens
  <2>4. Longer(a, b) /\ Longer(b, c)
    BY <2>2 DEF Part, Extends
  <2>5. c = t.args[t.ids[j]]
    BY <2>2
  <2> HIDE DEF a, b, c
  <2>6. Longer(a, c)
    BY <2>3, <2>4, LongerOn
  <2> QED BY <2>5, <2>6 DEF a
<1> QED BY <1>2, <1>3, <1>4 DEF Part

\* The calls of a Chat reply reach a Messages client only alone.
Apart(s, cl) == s.d = "chat" /\ cl = "messages" /\ ~Plainly(s)

\* A reply claimed of its client was claimed at every moment before.
LEMMA ApartStays ==
  ASSUME NEW s, NEW t, NEW cl, Sane(s), Sane(t), Extends(s, t), ~Apart(t, cl)
  PROVE  ~Apart(s, cl)
<1>1. t.d = s.d /\ s.n <= t.n /\ s.n \in Nat /\ t.n \in Nat
  BY SaneLens DEF Extends
<1>2. ASSUME Plainly(t) PROVE Plainly(s)
  <2>1. CASE t.n = 0
    BY <1>1, <2>1 DEF Plainly
  <2>2. CASE t.n = 1 /\ t.text = <<>>
    <3>1. Len(s.text) <= 0 /\ Len(s.text) \in Nat /\ s.text \in Seq(Nat)
      <4>1. Len(t.text) = 0
        BY <2>2
      <4> QED BY <4>1, SaneLens, SaneHas DEF Extends, Longer
    <3> DEFINE w == s.text
    <3>2. w \in Seq(Nat) /\ Len(w) = 0
      BY <3>1
    <3> HIDE DEF w
    <3>3. w = <<>>
      BY <3>2, EmptySeq
    <3> QED BY <1>1, <2>2, <3>3 DEF Plainly, w
  <2> QED BY <1>2, <2>1, <2>2 DEF Plainly
<1> QED BY <1>1, <1>2 DEF Apart

\* Chat to Responses keeps text and calls.
LEMMA C2REqual ==
  ASSUME NEW c, NEW g, NEW h, Follows(c, g, h), c.name = "c2r" PROVE Equal(h, g)
<1>1. C2RFollows(c, g, h) /\ Sane(g) /\ g.d = "chat"
  BY DEF Follows, From
<1>2. Len(g.ids) = g.n /\ \A j \in 1 .. g.n : g.ids[j] = j - 1
  BY <1>1 DEF Sane
<1> QED BY <1>1, <1>2 DEF C2RFollows, Equal

\* Every converter keeps text and calls, if the reply is claimed.
LEMMA FollowsEqual ==
  ASSUME NEW c, NEW g, NEW h, Works(c), Follows(c, g, h), c.name = "r2m" => g.single
  PROVE  Equal(h, g)
<1>1. CASE c.name = "m2r"
  BY <1>1, EqualSame DEF Follows, M2RFollows
<1>2. CASE c.name = "r2c"
  BY <1>2, EqualSame DEF Follows, R2CFollows
<1>3. CASE c.name = "r2m"
  BY <1>3, EqualSame DEF Follows, R2MFollows
<1>4. CASE c.name = "c2r"
  BY <1>4, C2REqual
<1> QED BY <1>1, <1>2, <1>3, <1>4 DEF Works

\* What has come out of a pipeline tells what has gone into it.
LEMMA FlowsEqual ==
  ASSUME NEW u, NEW cl, NEW cs, NEW g, NEW h, Pipe(u, cl, cs), Flows(cs, g, h),
         cs # <<>> => u # cl, g.d = u, u = "responses" => g.single, ~Apart(g, cl)
  PROVE  Equal(h, g)
<1>1. Sane(g) /\ Len(g.ids) \in Nat
  BY SaneLens DEF Flows
<1>2. CASE cs = <<>>
  BY <1>2, EqualSame DEF Flows, SameTold
<1>3. CASE cs = <<cs[1]>>
  <2>1. PICK a : cs = <<a>> /\ a = cs[1]
    BY <1>3
  <2>2. Len(cs) = 1 /\ cs # <<>>
    BY <2>1
  <2>3. Follows(a, g, h) /\ Works(a) /\ From(a) = u
    BY <2>1, <2>2 DEF Flows, Pipe
  <2>4. a.name = "r2m" => g.single
    BY <2>3 DEF From
  <2> QED BY <2>3, <2>4, FollowsEqual
<1>4. CASE cs = <<cs[1], cs[2]>>
  <2>1. PICK a, b : cs = <<a, b>> /\ a = cs[1] /\ b = cs[2]
    BY <1>4
  <2>2. Len(cs) = 2 /\ cs # <<>>
    BY <2>1
  <2>3. PICK m : Follows(a, g, m) /\ Follows(b, m, h)
    BY <2>1, <2>2 DEF Flows
  <2>4. /\ Works(a) /\ Works(b) /\ From(a) = u /\ To(b) = cl /\ u # cl
        /\ a.name \in {"m2r", "c2r"} /\ b.name \in {"r2m", "r2c"}
    BY <2>1, <2>2 DEF Pipe
  <2>5. Equal(m, g)
    BY <2>3, <2>4, FollowsEqual
  <2>6. b.name = "r2m" => m.single
    <3>1. CASE a.name = "m2r"
      BY <2>4, <3>1 DEF From, To
    <3>2. CASE a.name = "c2r" /\ b.name = "r2m"
      <4>1. u = "chat" /\ cl = "messages"
        BY <2>4, <3>2 DEF From, To
      <4>2. Plainly(g)
        BY <4>1 DEF Apart
      <4> QED BY <2>3, <3>2, <4>2 DEF Follows, C2RFollows
    <3> QED BY <2>4, <3>1, <3>2
  <2>7. Equal(h, m)
    BY <2>3, <2>4, <2>6, FollowsEqual
  <2> QED BY <1>1, <2>5, <2>7, EqualOn
<1> QED BY <1>2, <1>3, <1>4 DEF Pipe

\* The beginning of every stream is legal.
LEMMA SaneUntold ==
  ASSUME NEW d \in Dialects PROVE Sane(Untold(d)) /\ Untold(d).d = d
<1> DEFINE s == Untold(d)
<1>1. /\ s.d = d /\ s.ok = TRUE /\ s.single = TRUE /\ s.any = FALSE /\ s.begun = FALSE
      /\ s.done = FALSE /\ s.n = 0 /\ s.open = FALSE /\ s.text = <<>> /\ s.ids = <<>>
      /\ s.args = [i \in Nat |-> <<>>]
  BY DEF Untold
<1> HIDE DEF s
<1>2. <<>> \in Seq(Nat) /\ Len(<<>>) = 0
  OBVIOUS
<1>3. Len(s.ids) = 0 /\ s.args \in [Nat -> Seq(Nat)] /\ \A i \in Nat : s.args[i] = <<>>
  BY <1>1, <1>2
<1>4. /\ s.d \in Dialects /\ s.ok = TRUE /\ s.single \in BOOLEAN /\ s.any \in BOOLEAN
      /\ s.begun \in BOOLEAN /\ s.done \in BOOLEAN /\ s.open \in BOOLEAN /\ s.n \in Nat
      /\ s.text \in Seq(Nat) /\ s.ids \in Seq(Nat)
  <2>1. s.single \in BOOLEAN /\ s.any \in BOOLEAN /\ s.begun \in BOOLEAN /\ s.done \in BOOLEAN
    BY <1>1
  <2>2. s.open \in BOOLEAN /\ s.d \in Dialects
    BY <1>1
  <2>4. s.n \in Nat
    BY <1>1
  <2>3. s.text \in Seq(Nat) /\ s.ids \in Seq(Nat)
    BY <1>1, <1>2
  <2> QED BY <1>1, <2>1, <2>2, <2>3, <2>4
<1>5. \A j \in 1 .. Len(s.ids) : FALSE
  BY <1>3
<1>6. Sane(s)
  BY <1>1, <1>3, <1>4, <1>5 DEF Sane
<1> QED BY <1>1, <1>6 DEF s

---------------------------------------------------------------------------
(* The invariant of the two readers.                                       *)

\* What the client has been told, and with it what the gate holds back.
Has  == Told(Untold(client), got)
Gets == Told(Untold(client), got \o pending)

\* s has read everything the upstream has sent, g what the relay has read.
Reads(s, g) == Flows(conv, g, Gets) /\ s = Told(g, unread)
Tells(s) ==
  /\ InStep(s, up, src)
  /\ ~Apart(s, client) => Part(Has, s)
  /\ verdict = "success" /\ ~Apart(s, client) => Equal(Has, s)
  /\ failure \notin {"conversion", "write"} => \E g : Reads(s, g)

HasInv ==
  /\ Sane(Has) /\ Has.d = client
  /\ client = "messages" /\ (got # <<>> \/ (committed /\ failure # "write")) => Has.begun
  /\ failure # "conversion" /\ conv # <<>> => up # client
TellInv == ReplyInv /\ HasInv /\ \E s : Tells(s)

\* The upstream has the turn.
Alone == /\ verdict = "" /\ verdict' = ""
         /\ UNCHANGED <<up, client, conv, pending, committed, acc, got, failure>>

\* Each step of the upstream goes on with what it has sent.
LEMMA UpstreamTells ==
  ASSUME RelayInv, TellInv, Alone, \A s : SaysOn(s) => SaidNow(s)
  PROVE  TellInv'
<1>1. PICK s : Tells(s)
  BY DEF TellInv
<1>2. InStep(s, up, src) /\ Sane(s) /\ SaysOn(s)
  <2>1. InStep(s, up, src)
    BY <1>1 DEF Tells
  <2> QED BY <2>1, FitsHas DEF SaysOn, RelayInv, TellInv
<1>3. PICK events : /\ unread' = unread \o events
                    /\ GoesWith(s, events, src') /\ src' \in ReplyRecords
  BY <1>2 DEF SaidNow
<1> DEFINE t == Told(s, events)
<1>4. IsSeq(events) /\ InStep(t, up, src') /\ Sane(t) /\ IsSeq(unread)
  <2>1. IsSeq(events) /\ InStep(t, up, src')
    BY <1>3 DEF GoesWith
  <2> QED BY <2>1, FitsHas DEF RelayInv, WireInv, Spoken
<1>5. Extends(s, t)
  BY <1>2, <1>4, ToldGrows
<1>6. Has' = Has /\ Gets' = Gets /\ up' = up /\ client' = client /\ verdict' # "success"
      /\ failure' = failure /\ conv' = conv /\ Sane(Has)
  BY DEF Has, Gets, TellInv, HasInv, Alone
<1>7. ~Apart(t, client) => Part(Has, t)
  <2> HIDE DEF t
  <2> SUFFICES ASSUME ~Apart(t, client) PROVE Part(Has, t)
    OBVIOUS
  <2>1. ~Apart(s, client)
    BY <1>2, <1>4, <1>5, ApartStays
  <2>2. Part(Has, s)
    BY <1>1, <2>1 DEF Tells
  <2> QED BY <1>2, <1>4, <1>5, <1>6, <2>2, PartOn
<1>8. ASSUME failure \notin {"conversion", "write"} PROVE \E g : Reads(t, g)'
  <2>1. PICK g : Reads(s, g)
    BY <1>1, <1>8 DEF Tells
  <2>2. Told(g, unread \o events) = Told(Told(g, unread), events)
    <3>1. IsSeq(unread) /\ IsSeq(events)
      BY <1>4
    <3> QED BY <3>1, ToldJoined
  <2>3. t = Told(g, unread')
    BY <1>3, <2>1, <2>2 DEF Reads
  <2>4. Flows(conv', g, Gets')
    BY <1>6, <2>1 DEF Reads
  <2> HIDE DEF t
  <2>5. Reads(t, g)'
    BY <2>3, <2>4 DEF Reads
  <2> QED BY <2>5
<1> HIDE DEF t
<1>9. Tells(t)'
  BY <1>4, <1>6, <1>7, <1>8 DEF Tells
<1>10. HasInv'
  BY <1>6 DEF TellInv, HasInv, Alone
<1>11. ReplyInv'
  BY <1>3 DEF ReplyInv
<1> QED BY <1>9, <1>10, <1>11 DEF TellInv

\* Every step of the upstream preserves TellInv.
LEMMA UpstreamToldSteps ==
  ASSUME RelayInv, TellInv,
         \/ UpstreamStarts \/ UpstreamOpens \/ UpstreamSendsDelta \/ UpstreamCloses
         \/ UpstreamConcludes \/ UpstreamReportsUsage \/ UpstreamEnds \/ UpstreamFails
  PROVE  TellInv'
<1>1. Alone
  <2>1. ASSUME NEW events, NEW s, Sends(events, s) PROVE Alone
    BY <2>1 DEF Sends, relayVars, Alone
  <2>2. CASE UpstreamConcludes
    <3>1. up \in Dialects
      BY DEF RelayInv, SrcInv
    <3>2. up = "messages" \/ up = "chat" \/ up = "responses"
      BY <3>1 DEF Dialects
    <3>3. \E events, s : Sends(events, s)
      BY <2>2, <3>2 DEF UpstreamConcludes
    <3> QED BY <2>1, <3>3
  <2>3. CASE UpstreamOpens \/ UpstreamFails \/ UpstreamReportsUsage
    <3>1. \E events, s : Sends(events, s)
      BY <2>3 DEF UpstreamOpens, UpstreamFails, UpstreamReportsUsage
    <3> QED BY <2>1, <3>1
  <2>4. CASE UpstreamStarts \/ UpstreamSendsDelta \/ UpstreamCloses \/ UpstreamEnds
    <3>1. \E events, s : Sends(events, s)
      BY <2>4 DEF UpstreamStarts, UpstreamSendsDelta, UpstreamCloses, UpstreamEnds
    <3> QED BY <2>1, <3>1
  <2> QED BY <2>2, <2>3, <2>4
<1>2. \A s : SaysOn(s) => SaidNow(s)
  BY StartSays, OpenSays, DeltaSays, CloseSays, ConcludeSays, UsageSays, EndSays, FailSays
<1> QED BY <1>1, <1>2, UpstreamTells

\* A step that adds nothing to what is read or told.
LEMMA StandsStill ==
  ASSUME TellInv, UNCHANGED <<up, client, src, unread, conv, pending, committed, got>>,
         failure' # "conversion" => failure # "conversion",
         failure' # "write" => failure # "write",
         verdict' = "success" =>
           \A s : Tells(s) /\ ~Apart(s, client) => Equal(Has, s)
  PROVE  TellInv'
<1>1. PICK s : Tells(s)
  BY DEF TellInv
<1>2. Has' = Has /\ Gets' = Gets
  BY DEF Has, Gets
<1>3. ASSUME failure' \notin {"conversion", "write"} PROVE \E g : Reads(s, g)'
  <2>1. PICK g : Reads(s, g)
    BY <1>1, <1>3 DEF Tells
  <2>2. Reads(s, g)'
    BY <1>2, <2>1 DEF Reads
  <2> QED BY <2>2
<1>4. Tells(s)'
  BY <1>1, <1>2, <1>3 DEF Tells
<1>5. HasInv'
  BY <1>2 DEF TellInv, HasInv
<1>6. ReplyInv'
  BY DEF TellInv, ReplyInv
<1> QED BY <1>4, <1>5, <1>6 DEF TellInv

\* A client that has its terminal has all of the reply.
LEMMA SuccessTold ==
  ASSUME RelayInv, NEW s, Tells(s), HasInv, failure \notin {"conversion", "write"}, committed,
         Successful(acc), ~Apart(s, client)
  PROVE  Equal(Has, s)
<1>1. PICK g : Reads(s, g)
  BY DEF Tells
<1>2. /\ acc.done /\ Over(got) /\ IsSeq(got) /\ pending = <<>> /\ IsSeq(unread)
      /\ Pipe(up, client, conv)
  BY DEF RelayInv, GotInv, GateInv, WireInv, Spoken, ConvInv, Successful
<1>3. Gets = Has
  <2>1. got \o <<>> = got
    BY <1>2, JoinNothing
  <2> QED BY <1>2, <2>1 DEF Gets, Has
<1>4. Flows(conv, g, Has) /\ s = Told(g, unread)
  BY <1>1, <1>3 DEF Reads
<1>5. /\ Sane(Has) /\ Sane(g) /\ InStep(s, up, src) /\ Sane(s) /\ s.d = up
      /\ (up = "responses" => s.single)
  <2>1. InStep(s, up, src)
    BY DEF Tells
  <2> QED BY <1>4, <2>1, FitsHas DEF HasInv, Flows, Says
<1>6. Has.done
  <2>1. Sane(Untold(client))
    BY SaneUntold DEF RelayInv, SrcInv
  <2> QED BY <1>2, <1>5, <2>1, ToldShows DEF Has
<1>7. Extends(g, s) /\ (g.done => SameTold(g, s))
  BY <1>2, <1>4, <1>5, ToldGrows
<1>8. g.done
  <2> DEFINE h == Has
  <2>1. Flows(conv, g, h) /\ h.done
    BY <1>4, <1>6
  <2> HIDE DEF h
  <2>2. CASE conv = <<>>
    BY <2>1, <2>2 DEF Flows
  <2>3. CASE conv = <<conv[1]>>
    <3>1. Len(conv) = 1
      BY <2>3
    <3> QED BY <2>1, <3>1 DEF Flows, Follows
  <2>4. CASE conv = <<conv[1], conv[2]>>
    <3>1. Len(conv) = 2 /\ conv # <<>>
      BY <2>4
    <3>2. PICK m : Follows(conv[1], g, m) /\ Follows(conv[2], m, h)
      BY <2>1, <3>1 DEF Flows
    <3> QED BY <1>2, <2>1, <3>1, <3>2 DEF Follows, Pipe
  <2> QED BY <1>2, <2>2, <2>3, <2>4 DEF Pipe
<1>9. Equal(Has, g)
  <2>1. ~Apart(g, client)
    BY <1>5, <1>7, ApartStays
  <2>2. g.d = up /\ (up = "responses" => g.single)
    BY <1>5, <1>7 DEF Extends
  <2>3. conv # <<>> => up # client
    BY DEF HasInv
  <2> QED BY <1>2, <1>4, <2>1, <2>2, <2>3, FlowsEqual
<1>10. Equal(g, s)
  <2>1. SameTold(s, g)
    BY <1>7, <1>8 DEF SameTold
  <2> QED BY <2>1, EqualSame
<1>11. Len(s.ids) \in Nat
  BY <1>5, SaneLens
<1> QED BY <1>9, <1>10, <1>11, EqualOn

\* The beginning: nothing has been told.
ToldNone(s, d) ==
  /\ Sane(s) /\ s.d = d /\ s.single = TRUE /\ s.any = FALSE /\ s.begun = FALSE /\ s.done = FALSE
  /\ s.n = 0 /\ s.open = FALSE /\ s.text = <<>> /\ s.ids = <<>>
  /\ s.args = [i \in Nat |-> <<>>]

\* A reader told nothing is blank.
LEMMA UntoldBlank == ASSUME NEW d \in Dialects PROVE ToldNone(Untold(d), d)
<1> DEFINE s == Untold(d)
<1>1. /\ s.d = d /\ s.single = TRUE /\ s.any = FALSE /\ s.begun = FALSE /\ s.done = FALSE
      /\ s.n = 0 /\ s.open = FALSE /\ s.text = <<>> /\ s.ids = <<>>
      /\ s.args = [i \in Nat |-> <<>>]
  BY DEF Untold
<1>2. Sane(s)
  BY SaneUntold
<1> HIDE DEF s
<1> QED BY <1>1, <1>2 DEF ToldNone, s

\* A new converter follows a blank reader.
LEMMA BlankFollows ==
  ASSUME NEW g, NEW h
  PROVE  /\ ToldNone(g, "messages") /\ ToldNone(h, "responses") => Follows(NewM2R, g, h)
         /\ ToldNone(g, "responses") /\ ToldNone(h, "messages") => Follows(NewR2M, g, h)
         /\ ToldNone(g, "responses") /\ ToldNone(h, "chat") => Follows(NewR2C, g, h)
         /\ ToldNone(g, "chat") /\ ToldNone(h, "responses") => Follows(NewC2R, g, h)
<1>0. Len(<<>>) = 0
  OBVIOUS
<1>5. ASSUME NEW d, NEW e, ToldNone(g, d), ToldNone(h, e) PROVE SameTold(g, h)
  BY <1>5 DEF ToldNone, SameTold
<1>6. ASSUME NEW s, NEW d, ToldNone(s, d)
      PROVE  /\ s.n = 0 /\ s.begun = FALSE /\ s.open = FALSE /\ s.single = TRUE /\ s.any = FALSE
             /\ s.text = <<>> /\ s.ids = <<>> /\ Len(s.ids) = 0
  BY <1>0, <1>6 DEF ToldNone
<1>1. ASSUME ToldNone(g, "messages"), ToldNone(h, "responses") PROVE Follows(NewM2R, g, h)
  <2> DEFINE c == NewM2R
  <2>1. c.name = "m2r" /\ c.terminal = FALSE /\ c.item = -1 /\ c.created = FALSE
    BY DEF NewM2R
  <2> HIDE DEF c
  <2>2. M2RFollows(c, g, h)
    <3>1. g.n = 0 /\ h.n = 0 /\ g.begun = FALSE /\ h.begun = FALSE
      BY <1>1, <1>6
    <3>2. c.item = g.n - 1 /\ SameTold(g, h)
      BY <1>1, <1>5, <2>1, <3>1
    <3> QED BY <2>1, <3>1, <3>2 DEF M2RFollows
  <2>3. From(c) = "messages" /\ To(c) = "responses"
    BY <2>1 DEF From, To
  <2> QED BY <1>1, <2>1, <2>2, <2>3 DEF Follows, ToldNone, c
<1>2. ASSUME ToldNone(g, "responses"), ToldNone(h, "messages") PROVE Follows(NewR2M, g, h)
  <2> DEFINE c == NewR2M
  <2>1. /\ c.name = "r2m" /\ c.terminal = FALSE /\ c.block = -1 /\ c.started = FALSE
        /\ c.open = FALSE
    BY DEF NewR2M
  <2> HIDE DEF c
  <2>2. R2MFollows(c, g, h)
    <3>1. /\ g.n = 0 /\ h.n = 0 /\ g.begun = FALSE /\ h.begun = FALSE
          /\ g.open = FALSE /\ h.open = FALSE
      BY <1>2, <1>6
    <3>2. c.block = h.n - 1 /\ SameTold(g, h)
      BY <1>2, <1>5, <2>1, <3>1
    <3> QED BY <2>1, <3>1, <3>2 DEF R2MFollows
  <2>3. From(c) = "responses" /\ To(c) = "messages"
    BY <2>1 DEF From, To
  <2> QED BY <1>2, <2>1, <2>2, <2>3 DEF Follows, ToldNone, c
<1>3. ASSUME ToldNone(g, "responses"), ToldNone(h, "chat") PROVE Follows(NewR2C, g, h)
  <2> DEFINE c == NewR2C
  <2>1. c.name = "r2c" /\ c.terminal = FALSE /\ c.messages = 0 /\ c.calls = {}
    BY DEF NewR2C
  <2> HIDE DEF c
  <2>2. R2CFollows(c, g, h)
    BY <1>3, <2>1 DEF ToldNone, R2CFollows, SameTold
  <2>3. From(c) = "responses" /\ To(c) = "chat"
    BY <2>1 DEF From, To
  <2> QED BY <1>3, <2>1, <2>2, <2>3 DEF Follows, ToldNone, c
<1>4. ASSUME ToldNone(g, "chat"), ToldNone(h, "responses") PROVE Follows(NewC2R, g, h)
  <2> DEFINE c == NewC2R
  <2>1. /\ c.name = "c2r" /\ c.terminal = FALSE /\ c.message = -1 /\ c.next = 0
        /\ c.calls = <<>> /\ c.started = FALSE
    BY DEF NewC2R
  <2>2. c.finish \notin FinishReasons
    BY DEF NewC2R, FinishReasons
  <2> HIDE DEF c
  <2>3. C2RFollows(c, g, h)
    <3>1. /\ g.n = 0 /\ h.n = 0 /\ h.begun = FALSE /\ h.any = FALSE /\ h.single = TRUE
          /\ g.text = <<>> /\ h.text = <<>> /\ h.ids = <<>> /\ Len(h.ids) = 0
      BY <1>4, <1>6
    <3>2. c.message \in -1 .. c.next - 1 /\ c.started \in BOOLEAN
      <4>1. c.message = -1 /\ c.next = 0
        BY <2>1
      <4>2. c.message \in -1 .. c.next - 1
        BY <4>1
      <4>3. c.started \in BOOLEAN
        BY <2>1
      <4> QED BY <4>2, <4>3
    <3>3. \A j \in 1 .. g.n : h.args[h.ids[j]] = g.args[j - 1]
      BY <3>1
    <3>4. h.text = g.text /\ h.ids = c.calls /\ Len(h.ids) = g.n /\ (Plainly(g) => h.single)
      BY <2>1, <3>1
    <3>5. ~(Plainly(g) /\ h.n = 1)
      BY <3>1
    <3> QED BY <2>1, <2>2, <3>1, <3>2, <3>3, <3>4, <3>5 DEF C2RFollows
  <2>4. From(c) = "chat" /\ To(c) = "responses"
    BY <2>1 DEF From, To
  <2> QED BY <1>4, <2>1, <2>3, <2>4 DEF Follows, ToldNone, c
<1> QED BY <1>1, <1>2, <1>3, <1>4

\* So does a new pipeline.
LEMMA BlankFlows ==
  ASSUME NEW u \in Dialects, NEW c \in Dialects
  PROVE  /\ Flows(Converters(u, c), Untold(u), Untold(c))
         /\ Converters(u, c) # <<>> => u # c
<1> DEFINE g == Untold(u)
           h == Untold(c)
           m == Untold("responses")
<1>1. ToldNone(g, u) /\ ToldNone(h, c) /\ ToldNone(m, "responses") /\ Sane(g) /\ Sane(h)
  BY UntoldBlank, SaneUntold DEF Dialects
<1>2. u = c => g = h
  OBVIOUS
<1> HIDE DEF g, h, m
<1>3. ASSUME NEW a, Follows(a, g, h) PROVE Flows(<<a>>, g, h)
  <2>1. Len(<<a>>) = 1 /\ <<a>>[1] = a /\ <<a>> # <<>>
    OBVIOUS
  <2> QED BY <1>1, <1>3, <2>1 DEF Flows
<1>4. ASSUME NEW a, NEW b, Follows(a, g, m), Follows(b, m, h) PROVE Flows(<<a, b>>, g, h)
  <2>1. Len(<<a, b>>) = 2 /\ <<a, b>>[1] = a /\ <<a, b>>[2] = b /\ <<a, b>> # <<>>
    OBVIOUS
  <2> QED BY <1>1, <1>4, <2>1 DEF Flows
<1>5. CASE u = c
  <2>1. Converters(u, c) = <<>>
    BY <1>5 DEF Converters
  <2>2. Len(<<>>) = 0
    OBVIOUS
  <2> QED BY <1>1, <1>2, <1>5, <2>1, <2>2 DEF Flows, g, h
<1>6. CASE u = "messages" /\ c = "responses"
  <2>1. Converters(u, c) = <<NewM2R>>
    BY <1>6 DEF Converters
  <2> QED BY <1>1, <1>3, <1>6, <2>1, BlankFollows DEF g, h
<1>7. CASE u = "responses" /\ c = "messages"
  <2>1. Converters(u, c) = <<NewR2M>>
    BY <1>7 DEF Converters
  <2> QED BY <1>1, <1>3, <1>7, <2>1, BlankFollows DEF g, h
<1>8. CASE u = "chat" /\ c = "responses"
  <2>1. Converters(u, c) = <<NewC2R>>
    BY <1>8 DEF Converters
  <2> QED BY <1>1, <1>3, <1>8, <2>1, BlankFollows DEF g, h
<1>9. CASE u = "responses" /\ c = "chat"
  <2>1. Converters(u, c) = <<NewR2C>>
    BY <1>9 DEF Converters
  <2> QED BY <1>1, <1>3, <1>9, <2>1, BlankFollows DEF g, h
<1>10. CASE u = "messages" /\ c = "chat"
  <2>1. Converters(u, c) = <<NewM2R, NewR2C>>
    BY <1>10 DEF Converters
  <2> QED BY <1>1, <1>4, <1>10, <2>1, BlankFollows DEF g, h
<1>11. CASE u = "chat" /\ c = "messages"
  <2>1. Converters(u, c) = <<NewC2R, NewR2M>>
    BY <1>11 DEF Converters
  <2> QED BY <1>1, <1>4, <1>11, <2>1, BlankFollows DEF g, h
<1> QED BY <1>5, <1>6, <1>7, <1>8, <1>9, <1>10, <1>11 DEF Dialects

\* A new reply: nothing sent, nothing told.
LEMMA ReplyTells ==
  ASSUME NEW u \in Dialects, NEW c \in Dialects, RelayBetween(u, c) PROVE TellInv
<1>1. /\ up = u /\ client = c /\ conv = Converters(u, c)
      /\ src = [stage |-> "start", items |-> <<>>, open |-> FALSE, tokens |-> 0,
                whole |-> FALSE, usage |-> FALSE, short |-> FALSE]
      /\ unread = <<>> /\ pending = <<>> /\ committed = FALSE
      /\ got = <<>> /\ failure = "" /\ verdict = ""
  BY DEF RelayBetween
<1> DEFINE s == Untold(u)
           h == Untold(c)
<1>2. ToldNone(s, u) /\ ToldNone(h, c) /\ Sane(s) /\ Sane(h)
  BY UntoldBlank, SaneUntold
<1>3. /\ src.stage = "start" /\ src.items = <<>> /\ src.open = FALSE /\ src \in ReplyRecords
  <2>1. <<>> \in Seq(Pieces)
    OBVIOUS
  <2> QED BY <1>1, <2>1 DEF ReplyRecords
<1>4. Has = h /\ Gets = h /\ Told(s, unread) = s
  <2>1. <<>> \o <<>> = <<>>
    OBVIOUS
  <2> QED BY <1>1, <2>1, ToldNothing DEF Has, Gets
<1>5. Flows(conv, s, h) /\ (conv # <<>> => up # client)
  BY <1>1, BlankFlows
<1> HIDE DEF s, h
<1>6. InStep(s, up, src)
  <2> DEFINE r == src
  <2>1. r.items = <<>> /\ r.stage = "start" /\ r.open = FALSE
    BY <1>3
  <2> HIDE DEF r
  <2>2. CallItems(r) = {} /\ TokensOf(r) = <<>>
    BY <2>1 DEF CallItems, TokensOf
  <2>3. Texts(r) = <<>> /\ Arguments(r) = <<>>
    <3>1. Len(TokensOf(r)) = 0
      BY <2>2
    <3> QED BY <3>1, PickedNothing DEF Texts, Arguments
  <2>4. FlattenSeq(Texts(r)) = <<>>
    BY <2>3, FlattenNone
  <2>5. PlaceOf(up, r) = 0
    <3>1. Len(r.items) = 0
      BY <2>1
    <3> QED BY <2>2, <3>1, FS_EmptySet DEF PlaceOf
  <2>6. ArgsOf(s) = <<>>
    <3>1. s.ids = <<>> /\ Len(<<>>) = 0
      BY <1>2 DEF ToldNone
    <3>2. Len(s.ids) = 0
      BY <3>1
    <3> QED BY <3>2 DEF ArgsOf
  <2>7. Says(s, up, r)
    BY <1>1, <1>2, <2>3, <2>4, <2>5, <2>6 DEF Says, ToldNone
  <2>8. Stands(s, up, r)
    BY <1>2, <2>1 DEF Stands, ToldNone
  <2> QED BY <2>7, <2>8 DEF InStep, r
<1>7. Part(h, s)
  <2>1. h.text = <<>> /\ h.ids = <<>> /\ s.text = <<>> /\ s.ids = <<>> /\ Len(<<>>) = 0
    BY <1>2 DEF ToldNone
  <2>2. Len(h.ids) = 0 /\ Len(s.ids) = 0 /\ Len(h.text) = 0 /\ Len(s.text) = 0
    BY <2>1
  <2>3. Longer(h.text, s.text)
    BY <2>2 DEF Longer
  <2> QED BY <2>2, <2>3 DEF Part
<1>8. Reads(s, s)
  BY <1>4, <1>5 DEF Reads
<1>9. verdict # "success"
  BY <1>1
<1>10. Tells(s)
  BY <1>4, <1>6, <1>7, <1>8, <1>9 DEF Tells
<1>11. HasInv
  BY <1>1, <1>2, <1>4, <1>5 DEF HasInv, ToldNone
<1>12. ReplyInv
  BY <1>3 DEF ReplyInv
<1> QED BY <1>10, <1>11, <1>12 DEF TellInv

\* TellInv holds initially.
LEMMA InitTells == Init => TellInv
BY ReplyTells, StreamRelayAssumption DEF Init

\* Joining is associative.
LEMMA JoinedThrice ==
  ASSUME NEW a, NEW b, NEW c, IsSeq(a), IsSeq(b), IsSeq(c)
  PROVE  a \o (b \o c) = (a \o b) \o c
<1> DEFINE S == {a[j] : j \in 1 .. Len(a)} \cup {b[j] : j \in 1 .. Len(b)} \cup {c[j] : j \in 1 .. Len(c)}
<1>1. a \in Seq(S)
  <2>1. [j \in 1 .. Len(a) |-> a[j]] \in [1 .. Len(a) -> S]
    OBVIOUS
  <2> QED BY <2>1 DEF IsSeq
<1>2. b \in Seq(S)
  <2>1. [j \in 1 .. Len(b) |-> b[j]] \in [1 .. Len(b) -> S]
    OBVIOUS
  <2> QED BY <2>1 DEF IsSeq
<1>3. c \in Seq(S)
  <2>1. [j \in 1 .. Len(c) |-> c[j]] \in [1 .. Len(c) -> S]
    OBVIOUS
  <2> QED BY <2>1 DEF IsSeq
<1> HIDE DEF S
<1> QED BY <1>1, <1>2, <1>3, ConcatAssociative

\* A chunk that is read and converted: the client's reader may go on with it.
LEMMA ReadFlows ==
  ASSUME RelayInv, HasInv, Reading, NEW s, Tells(s), NEW w, w = WriteAll(conv, unread), ~w.err,
         Read1(w), NEW more, more = got \o (pending \o w.out)
  PROVE  /\ Flows(w.c, s, Told(Untold(client), more))
         /\ more = (got \o pending) \o w.out /\ Sane(s) /\ InStep(s, up, src)
<1>1. PICK g : Reads(s, g)
  BY DEF Tells, Reading
<1>2. /\ Flows(conv, g, Gets) /\ s = Told(g, unread) /\ InStep(s, up, src)
  BY <1>1 DEF Tells, Reads
<1>3. Sane(s)
  BY <1>2, FitsHas
<1>4. Pipe(up, client, conv) /\ Spoken(up, unread)
  BY DEF RelayInv, ConvInv, WireInv, Reading
<1>5. IsSeq(got) /\ IsSeq(pending) /\ IsSeq(w.out)
  BY DEF RelayInv, GotInv, GateInv, Read1, Spoken
<1>6. got \o (pending \o w.out) = (got \o pending) \o w.out
  <2> DEFINE o == w.out
  <2>1. IsSeq(got) /\ IsSeq(pending) /\ IsSeq(o)
    BY <1>5
  <2> HIDE DEF o
  <2>2. got \o (pending \o o) = (got \o pending) \o o
    BY <2>1, JoinedThrice
  <2> QED BY <2>2 DEF o
<1>7. IsSeq(got \o pending)
  BY <1>5, Joined
<1> DEFINE b == got \o pending
           o == w.out
<1>8. Told(Untold(client), b \o o) = Told(Gets, o)
  <2>1. IsSeq(b) /\ IsSeq(o) /\ Gets = Told(Untold(client), b)
    BY <1>5, <1>7 DEF Gets
  <2> HIDE DEF b, o
  <2> QED BY <2>1, ToldJoined
<1>9. more = b \o o
  BY <1>6
<1> DEFINE cs == conv
           ev == unread
           h == Gets
<1>10. /\ Pipe(up, client, cs) /\ Spoken(up, ev) /\ Flows(cs, g, h) /\ Sane(Told(g, ev))
       /\ ~WriteAll(cs, ev).err /\ w = WriteAll(cs, ev) /\ s = Told(g, ev)
  BY <1>2, <1>3, <1>4
<1> HIDE DEF cs, ev, h
<1>11. Flows(w.c, Told(g, ev), Told(h, w.out))
  BY <1>10, AllFlows
<1> QED BY <1>2, <1>3, <1>8, <1>9, <1>10, <1>11 DEF h, b, o

\* The client's reader has all that the upstream's has read.
LEMMA FlowsPart ==
  ASSUME RelayInv, HasInv, NEW s, NEW cs, NEW h, InStep(s, up, src), Pipe(up, client, cs),
         Flows(cs, s, h), cs # <<>> => up # client, ~Apart(s, client)
  PROVE  Part(h, s)
<1>1. Sane(s) /\ Sane(h) /\ s.d = up /\ (up = "responses" => s.single)
  BY FitsHas DEF Flows, Says
<1>2. Equal(h, s)
  BY <1>1, FlowsEqual
<1> QED BY <1>1, <1>2, EqualPart

\* A read preserves TellInv, whatever becomes of the chunk (WriteConverted).
LEMMA ReadTells == ASSUME RelayInv, TellInv, Read PROVE TellInv'
<1>1. PICK delivered \in BOOLEAN : WriteConverted(unread, delivered)
  BY DEF Read
<1>2. PICK s : Tells(s)
  BY DEF TellInv
<1>3. Reading /\ HasInv /\ ReplyInv
  BY DEF Read, Reading, srcVars, TellInv
<1>4. InStep(s, up, src) /\ (~Apart(s, client) => Part(Has, s)) /\ verdict' # "success"
      /\ InStep(s, up', src')
  BY <1>2, <1>3 DEF Tells, Reading
<1>5. ReplyInv' /\ client' = client
  BY <1>3 DEF ReplyInv, Reading
<1> DEFINE w == WriteAll(conv, unread)
           out == pending \o w.out
<1>6. conv' = w.c
  BY <1>1 DEF WriteConverted
<1>7. CASE w.err
  <2>1. failure' = "conversion" /\ committed' = committed /\ got' = got /\ Has' = Has
    BY <1>1, <1>3, <1>7 DEF WriteConverted, Has, Reading
  <2>2. Tells(s)'
    BY <1>4, <1>5, <2>1 DEF Tells
  <2>3. HasInv'
    <3>1. failure # "write"
      BY <1>3 DEF Reading
    <3> QED BY <1>3, <1>5, <2>1, <3>1 DEF HasInv
  <2> QED BY <1>5, <2>2, <2>3 DEF TellInv
<1>8. CASE ~w.err
  <2>1. Read1(w)
    <3> HIDE DEF w
    <3>1. w = WriteAll(conv, unread)
      BY DEF w
    <3> QED BY <1>3, <1>6, <1>8, <3>1, ChunkRead DEF Reading
  <2> DEFINE more == got \o out
             h == Told(Untold(client), more)
  <2>2. /\ Flows(w.c, s, h) /\ Sane(s) /\ more = (got \o pending) \o w.out
    <3>1. w = WriteAll(conv, unread) /\ more = got \o (pending \o w.out)
      OBVIOUS
    <3> HIDE DEF w, out, more
    <3> QED BY <1>2, <1>3, <1>8, <2>1, <3>1, ReadFlows DEF h
  <2>3. /\ unread' = <<>> /\ failure = "" /\ Told(s, <<>>) = s
        /\ IsSeq(got) /\ IsSeq(pending) /\ IsSeq(got \o pending) /\ got \o pending \o <<>> = got \o pending
    <3>1. IsSeq(got) /\ IsSeq(pending)
      BY DEF RelayInv, GotInv, GateInv, Spoken
    <3>2. IsSeq(got \o pending)
      BY <3>1, Joined
    <3> QED BY <1>3, <3>1, <3>2, ToldNothing, JoinNothing DEF Reading
  <2>4. conv' # <<>> => up' # client'
    <3> HIDE DEF w
    <3> QED BY <1>3, <1>6, <2>1 DEF Read1, HasInv, Reading
  <2> HIDE DEF w, more
  <2>5. ASSUME Gets' = h PROVE \E g : Reads(s, g)'
    <3>1. Told(s, unread') = s
      BY <2>3
    <3>2. Reads(s, s)'
      BY <1>6, <2>2, <2>5, <3>1 DEF Reads
    <3> QED BY <3>2
  <2>6. ASSUME got' = got, failure' = "write" \/ (committed' = committed /\ failure' \in {"", "protocol"}),
               failure' # "write" => Gets' = h
        PROVE  TellInv'
    <3>1. Has' = Has
      BY <1>3, <2>6 DEF Has, Reading
    <3>2. Tells(s)'
      BY <1>4, <1>5, <2>5, <2>6, <3>1 DEF Tells
    <3>3. HasInv'
      <4>1. Sane(Has') /\ Has'.d = client'
        BY <1>3, <1>5, <3>1 DEF HasInv
      <4>2. committed' /\ failure' # "write" => committed /\ failure # "write"
        BY <2>3, <2>6
      <4>3. client' = "messages" /\ (got' # <<>> \/ (committed' /\ failure' # "write")) => Has'.begun
        BY <1>3, <1>5, <2>6, <3>1, <4>2 DEF HasInv
      <4> QED BY <2>4, <4>1, <4>3 DEF HasInv
    <3> QED BY <1>5, <3>2, <3>3 DEF TellInv
  <2>7. CASE w.out = <<>>
    <3>1. UNCHANGED <<pending, committed, acc, got, failure>>
      BY <1>1, <1>8, <2>7 DEF WriteConverted, w
    <3>2. more = got \o pending
      BY <2>2, <2>3, <2>7
    <3>3. Gets' = h
      BY <1>5, <3>1, <3>2 DEF Gets
    <3> QED BY <2>3, <2>6, <3>1, <3>3
  <2>8. CASE w.out # <<>> /\ Held(out)
    <3>1. /\ pending' = out
          /\ failure' = IF Feed(acc, out).errored THEN "protocol" ELSE failure
          /\ UNCHANGED <<committed, acc, got>>
      BY <1>1, <1>8, <2>8 DEF WriteConverted, w
    <3>2. Gets' = h
      BY <1>5, <3>1 DEF Gets, more
    <3>3. failure' \in {"", "protocol"}
      BY <2>3, <3>1
    <3> QED BY <2>6, <3>1, <3>2, <3>3
  <2>9. CASE w.out # <<>> /\ ~Held(out)
    <3>1. /\ pending' = <<>> /\ committed' = TRUE
          /\ got' = IF delivered THEN more ELSE got
          /\ failure' = IF delivered THEN failure ELSE "write"
      BY <1>1, <1>8, <2>9 DEF WriteConverted, w, more
    <3>2. CASE ~delivered
      BY <2>6, <3>1, <3>2
    <3>3. CASE delivered
      <4>1. got' = more /\ failure' = "" /\ pending' = <<>>
        BY <2>3, <3>1, <3>3
      <4>2. IsSeq(out) /\ IsSeq(more) /\ FedAll(acc, out, Len(out), Feed(acc, out))
        <5>1. FedAll(acc, out, Len(out), Feed(acc, out)) /\ IsSeq(out)
          BY <1>3, <2>1, <2>9, ReadSays
        <5> HIDE DEF out
        <5> QED BY <2>3, <5>1, Joined DEF more
      <4>3. more \o <<>> = more
        BY <4>2, JoinNothing
      <4>4. Has' = h /\ Gets' = h
        BY <1>5, <4>1, <4>3 DEF Has, Gets
      <4>5. ~Apart(s, client) => Part(h, s)
        <5> HIDE DEF h, out
        <5>1. Pipe(up, client, w.c) /\ (w.c # <<>> => up # client)
          BY <1>3, <1>6, <2>1, <2>4 DEF Read1, Reading
        <5> QED BY <1>3, <1>4, <2>2, <5>1, FlowsPart
      <4>6. Tells(s)'
        BY <1>4, <1>5, <2>5, <4>4, <4>5 DEF Tells
      <4>7. Sane(h) /\ h.d = client
        <5>1. Sane(h) /\ Sane(Untold(client)) /\ Untold(client).d = client
          BY <2>2, SaneUntold DEF Flows, RelayInv, SrcInv
        <5>2. Extends(Untold(client), h)
          BY <4>2, <5>1, ToldGrows
        <5> QED BY <5>1, <5>2 DEF Extends
      <4>8. client = "messages" => h.begun
        <5> SUFFICES ASSUME client = "messages" PROVE h.begun
          OBVIOUS
        <5>1. Told(Has, out) = h /\ Sane(Has) /\ Has.d = client
          <6>1. IsSeq(got) /\ IsSeq(out) /\ Has = Told(Untold(client), got)
            BY <2>3, <4>2 DEF Has
          <6> HIDE DEF out, h
          <6>2. Told(Untold(client), got \o out) = Told(Has, out)
            BY <6>1, ToldJoined
          <6> QED BY <1>3, <6>2 DEF HasInv, h, more
        <5> HIDE DEF h, out
        <5>2. CASE committed
          <6>1. Has.begun
            BY <1>3, <2>3, <5>2 DEF HasInv
          <6>2. Extends(Has, h)
            BY <4>2, <4>7, <5>1, ToldGrows
          <6> QED BY <6>1, <6>2 DEF Extends
        <5>3. CASE ~committed
          <6>1. Feed(acc, out).output
            BY <2>9, <5>3 DEF Held
          <6>2. acc.output = FALSE
            <7>1. acc = NewAccumulator
              BY <1>3, <5>3 DEF RelayInv, GateInv, Reading
            <7> QED BY <7>1 DEF NewAccumulator
          <6>3. \E j \in 1 .. Len(out) : ProducesOutput(out[j])
            BY <4>2, <6>1, <6>2 DEF FedAll
          <6> QED BY <4>2, <4>7, <5>1, <6>3, ToldShows
        <5>4. committed \in BOOLEAN
          BY DEF RelayInv, GateInv
        <5> QED BY <5>2, <5>3, <5>4
      <4>9. HasInv'
        BY <1>5, <2>4, <4>4, <4>7, <4>8 DEF HasInv
      <4> QED BY <1>5, <4>6, <4>9 DEF TellInv
    <3> QED BY <3>2, <3>3
  <2> QED BY <2>7, <2>8, <2>9
<1> QED BY <1>7, <1>8

\* So does a read that fails,
LEMMA ReadFailsTells == ASSUME RelayInv, TellInv, ReadFails PROVE TellInv'
<1>1. /\ UNCHANGED <<up, client, src, unread, conv, pending, committed, got>>
      /\ failure = "" /\ verdict' = ""
  BY DEF ReadFails, srcVars
<1>2. failure # "conversion" /\ failure # "write" /\ verdict' # "success"
  BY <1>1
<1> QED BY <1>1, <1>2, StandsStill

\* A verdict of success is passed on the client's terminal.
LEMMA SuccessOnly ==
  ASSUME NEW why, NEW a, Verdict(why, committed, a) = "success"
  PROVE  why # "conversion" /\ why # "write" /\ committed /\ Successful(a)
  BY DEF Verdict, CleanEnd

\* the end of a broken attempt,
LEMMA AbandonTells == ASSUME RelayInv, TellInv, Abandon PROVE TellInv'
<1>1. /\ UNCHANGED <<up, client, src, unread, conv, pending, committed, acc, got, failure>>
      /\ verdict' = Verdict(failure, committed, acc)
  BY DEF Abandon, srcVars, relayVars, Judge
<1>2. ASSUME verdict' = "success", NEW s, Tells(s), ~Apart(s, client) PROVE Equal(Has, s)
  <2>1. failure \notin {"conversion", "write"} /\ committed /\ Successful(acc)
    BY <1>1, <1>2, SuccessOnly
  <2> QED BY <1>2, <2>1, SuccessTold DEF TellInv
<1> QED BY <1>1, <1>2, StandsStill

\* and the end of the stream.
LEMMA EndTells == ASSUME RelayInv, TellInv, NEW partial, EndOfStream(partial) PROVE TellInv'
<1> DEFINE fails == (begun \/ partial) /\ CloseAllFails(conv, partial)
           why == IF fails THEN "conversion" ELSE ""
           a == IF committed \/ fails THEN acc ELSE Feed(acc, pending)
<1>1. /\ UNCHANGED <<up, client, src, unread, conv, pending, committed, got>>
      /\ failure = "" /\ verdict' = Verdict(why, committed, a)
  BY DEF EndOfStream, srcVars, Judge
<1>2. ASSUME verdict' = "success", NEW s, Tells(s), ~Apart(s, client) PROVE Equal(Has, s)
  <2>1. committed /\ Successful(a)
    <3> HIDE DEF why, a
    <3> QED BY <1>1, <1>2, SuccessOnly
  <2>2. a = acc /\ failure \notin {"conversion", "write"}
    BY <1>1, <2>1
  <2> HIDE DEF a
  <2> QED BY <1>2, <2>1, <2>2, SuccessTold DEF TellInv
<1>3. failure # "conversion" /\ failure # "write"
  BY <1>1
<1> QED BY <1>1, <1>2, <1>3, StandsStill

\* TellInv is inductive relative to RelayInv.
LEMMA NextTells == RelayInv /\ TellInv /\ [Next]_vars => TellInv'
<1> SUFFICES ASSUME RelayInv, TellInv, [Next]_vars PROVE TellInv'
  OBVIOUS
<1>1. CASE \/ UpstreamStarts \/ UpstreamOpens \/ UpstreamSendsDelta \/ UpstreamCloses
           \/ UpstreamConcludes \/ UpstreamReportsUsage \/ UpstreamEnds \/ UpstreamFails
  BY <1>1, UpstreamToldSteps
<1>2. CASE Read
  BY <1>2, ReadTells
<1>3. CASE ReadFails
  BY <1>3, ReadFailsTells
<1>4. CASE Abandon
  BY <1>4, AbandonTells
<1>5. CASE \E partial \in BOOLEAN : EndOfStream(partial)
  BY <1>5, EndTells
<1>6. CASE UNCHANGED vars
  <2>1. UNCHANGED <<up, client, src, unread, conv, pending, committed, got>>
        /\ failure' = failure /\ verdict' = verdict
    BY <1>6 DEF vars
  <2>2. ASSUME verdict' = "success", NEW s, Tells(s), ~Apart(s, client) PROVE Equal(Has, s)
    BY <2>1, <2>2 DEF Tells
  <2> QED BY <2>1, <2>2, StandsStill
<1> QED BY <1>1, <1>2, <1>3, <1>4, <1>5, <1>6 DEF Next

\* Whatever has been sent, read and converted, the client's reader has been
\* told a part of it, and all of it when the attempt has succeeded.
THEOREM ToldInvariant == Spec => []TellInv
<1>1. RelayInv /\ TellInv /\ [Next]_vars => (RelayInv /\ TellInv)'
  BY NextIInv, NextTells
<1>2. Init => RelayInv /\ TellInv
  BY InitIInv, InitTells
<1> QED BY <1>1, <1>2, PTL DEF Spec

---------------------------------------------------------------------------
(* What is received, read off the stream, is what the reader has been told. *)

\* What grows at the places picked, and only there, is what is picked.
LEMMA PickedStepwise ==
  ASSUME NEW s, NEW at, NEW v, Len(s) \in Nat, v[0] = <<>>,
         \A i \in 1 .. Len(s) : v[i] = IF i \in at THEN Append(v[i - 1], s[i]) ELSE v[i - 1]
  PROVE  Picked(s, at) = v[Len(s)]
<1>1. PICK g : PickedAs(s, at, g)
  BY PickedIs
<1> DEFINE S == {m \in Nat : g[m] = v[m]}
<1>2. 0 \in S
  BY <1>1 DEF PickedAs
<1>3. ASSUME NEW m \in Nat, m \in S, m < Len(s) PROVE m + 1 \in S
  <2>1. m + 1 \in 1 .. Len(s) /\ (m + 1) - 1 = m /\ g[m] = v[m] /\ m + 1 \in Nat
    BY <1>3
  <2>2. g[m + 1] = IF m + 1 \in at THEN Append(g[m], s[m + 1]) ELSE g[m]
    BY <1>1, <2>1 DEF PickedAs
  <2>3. v[m + 1] = IF m + 1 \in at THEN Append(v[m], s[m + 1]) ELSE v[m]
    BY <2>1
  <2>4. g[m + 1] = v[m + 1]
    BY <2>1, <2>2, <2>3
  <2> QED BY <2>1, <2>4
<1>4. S \in SUBSET Nat
  OBVIOUS
<1> HIDE DEF S
<1>5. \A m \in 0 .. Len(s) : m \in S
  BY <1>2, <1>3, <1>4, Induction
<1>6. Len(s) \in S
  BY <1>5
<1> QED BY <1>1, <1>6 DEF PickedAs, S


\* The events' tokens and indexes, one by one.
LEMMA FieldsOf ==
  ASSUME NEW ev, IsSeq(ev)
  PROVE  /\ DOMAIN ev = 1 .. Len(ev) /\ Len(ev) \in Nat
         /\ Len(Tokens(ev)) = Len(ev) /\ \A j \in 1 .. Len(ev) : Tokens(ev)[j] = ev[j].n
         /\ Len([j \in DOMAIN ev |-> ev[j].i]) = Len(ev)
         /\ \A j \in 1 .. Len(ev) : [k \in DOMAIN ev |-> ev[k].i][j] = ev[j].i
<1>1. DOMAIN ev = 1 .. Len(ev) /\ Len(ev) \in Nat
  BY DEF IsSeq
<1> DEFINE n == Len(ev)
<1>2. \A S : \A f \in [1 .. n -> S] : Len(f) = n
  BY <1>1, LenProperties
<1> DEFINE tokens == [j \in 1 .. n |-> ev[j].n]
           indexes == [j \in 1 .. n |-> ev[j].i]
<1>3. tokens \in [1 .. n -> {ev[j].n : j \in 1 .. n}]
  OBVIOUS
<1>4. indexes \in [1 .. n -> {ev[j].i : j \in 1 .. n}]
  OBVIOUS
<1>5. Tokens(ev) = tokens /\ [j \in DOMAIN ev |-> ev[j].i] = indexes
  BY <1>1 DEF Tokens
<1>6. Len(tokens) = n /\ Len(indexes) = n
  <2> HIDE DEF tokens, indexes
  <2> QED BY <1>2, <1>3, <1>4
<1> QED BY <1>1, <1>5, <1>6

\* Read from the beginning, a legal stream's text, names and arguments are
\* those of its events.
LEMMA ReceivedTold ==
  ASSUME NEW d \in Dialects, NEW ev, IsSeq(ev), Sane(Told(Untold(d), ev))
  PROVE  /\ Picked(Tokens(ev), {j \in DOMAIN ev : CarriesText(ev[j])}) = Told(Untold(d), ev).text
         /\ Picked([j \in DOMAIN ev |-> ev[j].i], {j \in DOMAIN ev : Names(ev[j])})
              = Told(Untold(d), ev).ids
         /\ \A i \in Nat :
              Picked(Tokens(ev), {j \in DOMAIN ev : CarriesArguments(ev[j]) /\ ev[j].i = i})
                = Told(Untold(d), ev).args[i]
<1>1. PICK g : ToldAs(Untold(d), ev, g)
  BY FieldsOf, ToldIs
<1>2. /\ DOMAIN ev = 1 .. Len(ev) /\ Len(ev) \in Nat
      /\ Len(Tokens(ev)) = Len(ev) /\ \A j \in 1 .. Len(ev) : Tokens(ev)[j] = ev[j].n
  BY FieldsOf
<1>3. Told(Untold(d), ev) = g[Len(ev)] /\ g[0] = Untold(d) /\ Sane(Untold(d))
  BY <1>1, SaneUntold DEF ToldAs
<1>4. \A i \in 1 .. Len(ev) : MayFollow(g[i - 1], ev[i]) /\ Sane(g[i])
  BY <1>1, <1>2, <1>3, SaneThroughout
<1>5. g[0].text = <<>> /\ g[0].ids = <<>> /\ \A i \in Nat : g[0].args[i] = <<>>
  <2> DEFINE u == Untold(d)
  <2>1. u.text = <<>> /\ u.ids = <<>> /\ u.args = [i \in Nat |-> <<>>]
    BY DEF Untold
  <2>2. g[0] = u
    BY <1>3
  <2> HIDE DEF u
  <2>3. \A i \in Nat : u.args[i] = <<>>
    BY <2>1
  <2> QED BY <2>1, <2>2, <2>3
<1>6. ASSUME NEW m \in 1 .. Len(ev)
      PROVE  /\ WordsSaid(g[m - 1], ev[m], g[m]) /\ g[m - 1].args \in [Nat -> Seq(Nat)]
             /\ ev[m].i \in Nat
  <2> DEFINE s == g[m - 1]
             e == ev[m]
             t == g[m]
  <2>1. t = Tell(s, e) /\ MayFollow(s, e)
    BY <1>1, <1>4 DEF ToldAs
  <2>2. Sane(s)
    <3>1. m - 1 = 0 \/ m - 1 \in 1 .. Len(ev)
      BY <1>2
    <3> QED BY <1>3, <1>4, <3>1
  <2> HIDE DEF s, e, t
  <2>3. WordsSaid(s, e, t) /\ s.args \in [Nat -> Seq(Nat)] /\ e.i \in Nat
    BY <2>1, <2>2, TellParts, SaneHas, WherePlaced
  <2> QED BY <2>3 DEF s, e, t
<1>7. Picked(Tokens(ev), {j \in DOMAIN ev : CarriesText(ev[j])}) = g[Len(ev)].text
  <2> DEFINE at == {j \in DOMAIN ev : CarriesText(ev[j])}
             v == [m \in 0 .. Len(ev) |-> g[m].text]
  <2>1. v[0] = <<>> /\ v[Len(ev)] = g[Len(ev)].text
    BY <1>2, <1>5
  <2>2. ASSUME NEW m \in 1 .. Len(ev)
        PROVE  v[m] = IF m \in at THEN Append(v[m - 1], Tokens(ev)[m]) ELSE v[m - 1]
    <3>1. v[m] = g[m].text /\ v[m - 1] = g[m - 1].text /\ (m \in at <=> CarriesText(ev[m]))
      BY <1>2
    <3> HIDE DEF v, at
    <3> QED BY <1>2, <1>6, <3>1 DEF WordsSaid
  <2> DEFINE w == Tokens(ev)
  <2> HIDE DEF v, at, w
  <2>3. Len(w) \in Nat /\ Len(w) = Len(ev)
    BY <1>2 DEF w
  <2>4. \A m \in 1 .. Len(w) : v[m] = IF m \in at THEN Append(v[m - 1], w[m]) ELSE v[m - 1]
    BY <2>2, <2>3 DEF w
  <2>5. Picked(w, at) = v[Len(w)]
    BY <2>1, <2>3, <2>4, PickedStepwise
  <2> QED BY <2>1, <2>3, <2>5 DEF at, w
<1>8. Picked([j \in DOMAIN ev |-> ev[j].i], {j \in DOMAIN ev : Names(ev[j])}) = g[Len(ev)].ids
  <2> DEFINE at == {j \in DOMAIN ev : Names(ev[j])}
             w == [j \in DOMAIN ev |-> ev[j].i]
             v == [m \in 0 .. Len(ev) |-> g[m].ids]
  <2>1. v[0] = <<>> /\ v[Len(ev)] = g[Len(ev)].ids
    BY <1>2, <1>5
  <2>2. Len(w) = Len(ev) /\ \A j \in 1 .. Len(ev) : w[j] = ev[j].i
    BY FieldsOf
  <2>3. ASSUME NEW m \in 1 .. Len(ev)
        PROVE  v[m] = IF m \in at THEN Append(v[m - 1], w[m]) ELSE v[m - 1]
    <3>1. v[m] = g[m].ids /\ v[m - 1] = g[m - 1].ids /\ (m \in at <=> Names(ev[m]))
      BY <1>2
    <3> HIDE DEF v, at, w
    <3> QED BY <1>6, <2>2, <3>1 DEF WordsSaid
  <2> HIDE DEF v, at, w
  <2>5. Len(w) \in Nat
    BY <1>2, <2>2
  <2>6. \A m \in 1 .. Len(w) : v[m] = IF m \in at THEN Append(v[m - 1], w[m]) ELSE v[m - 1]
    BY <2>2, <2>3
  <2>4. Picked(w, at) = v[Len(w)]
    BY <2>1, <2>5, <2>6, PickedStepwise
  <2> QED BY <2>1, <2>2, <2>4 DEF at, w
<1>9. ASSUME NEW i \in Nat
      PROVE  Picked(Tokens(ev), {j \in DOMAIN ev : CarriesArguments(ev[j]) /\ ev[j].i = i})
               = g[Len(ev)].args[i]
  <2> DEFINE at == {j \in DOMAIN ev : CarriesArguments(ev[j]) /\ ev[j].i = i}
             v == [m \in 0 .. Len(ev) |-> g[m].args[i]]
  <2>1. v[0] = <<>> /\ v[Len(ev)] = g[Len(ev)].args[i]
    BY <1>2, <1>5
  <2>2. ASSUME NEW m \in 1 .. Len(ev)
        PROVE  v[m] = IF m \in at THEN Append(v[m - 1], Tokens(ev)[m]) ELSE v[m - 1]
    <3>1. /\ v[m] = g[m].args[i] /\ v[m - 1] = g[m - 1].args[i]
          /\ (m \in at <=> CarriesArguments(ev[m]) /\ ev[m].i = i)
      BY <1>2
    <3> HIDE DEF v, at
    <3> DEFINE a == g[m - 1].args
               b == g[m].args
               e == ev[m]
    <3>2. /\ b = IF CarriesArguments(e) THEN [a EXCEPT ![e.i] = Append(@, e.n)] ELSE a
          /\ a \in [Nat -> Seq(Nat)] /\ e.i \in Nat
      BY <1>6 DEF WordsSaid
    <3>3. v[m] = b[i] /\ v[m - 1] = a[i] /\ Tokens(ev)[m] = e.n
          /\ (m \in at <=> CarriesArguments(e) /\ e.i = i)
      BY <1>2, <3>1
    <3> HIDE DEF a, b, e
    <3>4. b[i] = IF CarriesArguments(e) /\ e.i = i THEN Append(a[i], e.n) ELSE a[i]
      BY <3>2
    <3> QED BY <3>3, <3>4
  <2> DEFINE w == Tokens(ev)
  <2> HIDE DEF v, at, w
  <2>3. Len(w) \in Nat /\ Len(w) = Len(ev)
    BY <1>2 DEF w
  <2>4. \A m \in 1 .. Len(w) : v[m] = IF m \in at THEN Append(v[m - 1], w[m]) ELSE v[m - 1]
    BY <2>2, <2>3 DEF w
  <2>5. Picked(w, at) = v[Len(w)]
    BY <2>1, <2>3, <2>4, PickedStepwise
  <2> QED BY <2>1, <2>3, <2>5 DEF at, w
<1> QED BY <1>3, <1>7, <1>8, <1>9

\* A part, as a prefix.
LEMMA LongerPrefix ==
  ASSUME NEW a \in Seq(Nat), NEW b \in Seq(Nat), Longer(a, b) PROVE IsPrefix(a, b)
<1>1. Len(a) \in Nat /\ Len(b) \in Nat /\ Len(a) <= Len(b) /\ \A i \in 1 .. Len(a) : b[i] = a[i]
  BY LenProperties DEF Longer
<1> DEFINE x == SubSeq(a, 1, Len(a))
           y == SubSeq(b, 1, Len(a))
<1>2. x \in Seq(Nat) /\ Len(x) = Len(a) /\ \A i \in 1 .. Len(a) : x[i] = a[i]
  BY <1>1
<1>3. y \in Seq(Nat) /\ Len(y) = Len(a) /\ \A i \in 1 .. Len(a) : y[i] = b[i]
  BY <1>1
<1>4. x = y
  <2> HIDE DEF x, y
  <2> QED BY <1>1, <1>2, <1>3, SeqEqual
<1> QED BY <1>1, <1>4 DEF IsPrefix

\* What the client has received is what its reader has been told.
LEMMA ReceivedIs ==
  ASSUME RelayInv, TellInv
  PROVE  TextReceived = Has.text /\ CallsReceived = ArgsOf(Has)
<1> DEFINE h == Has
<1>1. client \in Dialects /\ IsSeq(got) /\ Sane(h)
  BY DEF RelayInv, SrcInv, GotInv, TellInv, HasInv
<1>2. h = Told(Untold(client), got)
  BY DEF Has
<1> DEFINE named == Picked([j \in DOMAIN got |-> got[j].i], {j \in DOMAIN got : Names(got[j])})
           args(i) == Picked(Tokens(got),
                             {j \in DOMAIN got : CarriesArguments(got[j]) /\ got[j].i = i})
<1>3. /\ TextReceived = h.text /\ named = h.ids /\ \A i \in Nat : args(i) = h.args[i]
  <2>1. Sane(Told(Untold(client), got))
    BY <1>1, <1>2
  <2> QED BY <1>1, <1>2, <2>1, ReceivedTold DEF TextReceived
<1>4. CallsReceived = [j \in DOMAIN named |-> args(named[j])]
  BY DEF CallsReceived
<1> HIDE DEF named, args, h
<1>5. h.ids \in Seq(Nat) /\ DOMAIN h.ids = 1 .. Len(h.ids)
  BY <1>1, SaneHas, LenProperties
<1>6. \A j \in DOMAIN h.ids : h.ids[j] \in Nat
  BY <1>5, ElementOfSeq
<1>7. CallsReceived = [j \in 1 .. Len(h.ids) |-> h.args[h.ids[j]]]
  BY <1>3, <1>4, <1>5, <1>6
<1> QED BY <1>3, <1>7 DEF ArgsOf, h

\* A reply without calls, or with a call alone, is claimed of every client.
LEMMA NotApart ==
  ASSUME NEW s, InStep(s, up, src), ReplyInv, Calls = {} \/ Len(src.items) = 1, up = "chat"
  PROVE  Plainly(s)
<1>1. Says(s, up, src) /\ s.n = Cardinality(CallItems(src)) /\ s.text = FlattenSeq(Texts(src))
  BY DEF InStep, Says, PlaceOf
<1>2. Calls = CallItems(src)
  BY SentIs
<1>3. CASE CallItems(src) = {}
  BY <1>1, <1>3, FS_EmptySet DEF Plainly
<1>4. CASE CallItems(src) # {} /\ Len(src.items) = 1
  <2>1. src.items \in Seq(Pieces) /\ DOMAIN src.items = 1 .. 1
    BY <1>4, LenProperties DEF ReplyInv, ReplyRecords
  <2>2. CallItems(src) = {1} /\ 1 \notin TextItems(src)
    BY <1>4, <2>1 DEF CallItems, TextItems
  <2>3. s.n = 1
    BY <1>1, <2>2, FS_Singleton
  <2>4. Texts(src) = <<>>
    <3> DEFINE w == TokensOf(src)
               v == [m \in 0 .. 1 |-> <<>>]
    <3>1. Len(w) = 1
      <4>1. w = [j \in 1 .. 1 |-> src.items[j].tokens]
        BY <2>1 DEF TokensOf
      <4>2. w \in [1 .. 1 -> {src.items[1].tokens}]
        BY <4>1
      <4> HIDE DEF w
      <4> QED BY <4>2, LenProperties
    <3>2. v[0] = <<>> /\ v[1] = <<>>
      OBVIOUS
    <3>3. \A m \in 1 .. 1 : m = 1 /\ m - 1 = 0 /\ m \notin TextItems(src)
      BY <2>2
    <3> HIDE DEF w, v
    <3>4. \A m \in 1 .. Len(w) :
            v[m] = IF m \in TextItems(src) THEN Append(v[m - 1], w[m]) ELSE v[m - 1]
      BY <3>1, <3>2, <3>3
    <3>5. Len(w) \in Nat
      BY <3>1
    <3>6. Picked(w, TextItems(src)) = v[Len(w)]
      BY <3>2, <3>4, <3>5, PickedStepwise
    <3> QED BY <3>1, <3>2, <3>6 DEF Texts, w
  <2> QED BY <1>1, <2>3, <2>4, FlattenNone DEF Plainly
<1> QED BY <1>2, <1>3, <1>4

\* DeliveredAsSent follows from the invariants.
LEMMA DeliversToClient == ASSUME RelayInv, TellInv PROVE DeliveredAsSent
<1>1. PICK s : Tells(s)
  BY DEF TellInv
<1>2. InStep(s, up, src) /\ Sane(s) /\ s.d = up /\ s.text = TextSent /\ ArgsOf(s) = CallsSent
  <2>1. InStep(s, up, src)
    BY <1>1 DEF Tells
  <2> QED BY <2>1, SentIs DEF InStep, Says
<1> DEFINE h == Has
<1>3. Sane(h) /\ TextReceived = h.text /\ CallsReceived = ArgsOf(h)
  BY ReceivedIs DEF TellInv, HasInv
<1>4. /\ ~Apart(s, client) => Part(h, s)
      /\ verdict = "success" /\ ~Apart(s, client) => Equal(h, s)
  BY <1>1 DEF Tells
<1> HIDE DEF h
<1> SUFFICES ASSUME <<up, client>> = <<"chat", "messages">> => Calls = {} \/ Len(src.items) = 1
             PROVE  /\ IsPrefix(TextReceived, TextSent)
                    /\ Len(CallsReceived) <= Len(CallsSent)
                    /\ \A j \in DOMAIN CallsReceived : IsPrefix(CallsReceived[j], CallsSent[j])
                    /\ verdict = "success" => TextReceived = TextSent /\ CallsReceived = CallsSent
  BY DEF DeliveredAsSent
<1>5. ~Apart(s, client)
  BY <1>2, NotApart DEF Apart, TellInv
<1>6. /\ Len(h.ids) \in Nat /\ Len(s.ids) \in Nat /\ h.text \in Seq(Nat) /\ s.text \in Seq(Nat)
      /\ h.ids \in Seq(Nat) /\ s.ids \in Seq(Nat)
  BY <1>2, <1>3, SaneHas
<1>7. /\ Longer(h.text, s.text) /\ Len(h.ids) <= Len(s.ids)
      /\ \A j \in 1 .. Len(h.ids) : Longer(h.args[h.ids[j]], s.args[s.ids[j]])
  BY <1>4, <1>5 DEF Part
<1>8. IsPrefix(TextReceived, TextSent)
  BY <1>2, <1>3, <1>6, <1>7, LongerPrefix
<1>9. Len(CallsReceived) = Len(h.ids) /\ Len(CallsSent) = Len(s.ids)
      /\ DOMAIN CallsReceived = 1 .. Len(h.ids)
  <2>1. Len(ArgsOf(h)) = Len(h.ids) /\ Len(ArgsOf(s)) = Len(s.ids)
    BY <1>2, <1>3, ArgsTyped
  <2>2. DOMAIN ArgsOf(h) = 1 .. Len(h.ids)
    BY DEF ArgsOf
  <2> QED BY <1>2, <1>3, <2>1, <2>2
<1>10. ASSUME NEW j \in 1 .. Len(h.ids) PROVE IsPrefix(CallsReceived[j], CallsSent[j])
  <2>1. j \in 1 .. Len(s.ids)
    BY <1>6, <1>7
  <2>2. h.ids[j] \in Nat /\ s.ids[j] \in Nat
    BY <1>6, <2>1, ElementOfSeq
  <2>3. ArgsOf(h)[j] = h.args[h.ids[j]] /\ ArgsOf(s)[j] = s.args[s.ids[j]]
    BY <2>1 DEF ArgsOf
  <2>4. h.args[h.ids[j]] \in Seq(Nat) /\ s.args[s.ids[j]] \in Seq(Nat)
    BY <1>2, <1>3, <2>2, SaneLens
  <2>5. IsPrefix(h.args[h.ids[j]], s.args[s.ids[j]])
    BY <1>7, <2>4, LongerPrefix
  <2> QED BY <1>2, <1>3, <2>3, <2>5
<1>11. ASSUME verdict = "success" PROVE TextReceived = TextSent /\ CallsReceived = CallsSent
  <2>1. /\ h.text = s.text /\ Len(h.ids) = Len(s.ids)
        /\ \A j \in 1 .. Len(s.ids) : h.args[h.ids[j]] = s.args[s.ids[j]]
    BY <1>4, <1>5, <1>11 DEF Equal
  <2>2. ArgsOf(h) = ArgsOf(s)
    BY <2>1 DEF ArgsOf
  <2> QED BY <1>2, <1>3, <2>1, <2>2
<1> QED BY <1>6, <1>7, <1>8, <1>9, <1>10, <1>11

\* The text and the tool calls of the upstream reach the client, a prefix of
\* each at every moment and all of it on success (writeConverted through
\* every pipeline of converters).
THEOREM RepliesDelivered == Spec => []DeliveredAsSent
BY DeliversToClient, Invariant, ToldInvariant, PTL

---------------------------------------------------------------------------
(* The reader's place, and the events that have brought it there.          *)

\* The places, up to the m-th, of the events of type t.
Heads(ev, m, t) == {x \in 1 .. m : ev[x].t = t}
HeadsCounted(ev, m, t, n) == IsFiniteSet(Heads(ev, m, t)) /\ Cardinality(Heads(ev, m, t)) = n

\* One event more is counted if it is of the type.
LEMMA CountOne ==
  ASSUME NEW ev, NEW m \in Nat, NEW t, NEW n \in Nat, HeadsCounted(ev, m, t, n)
  PROVE  HeadsCounted(ev, m + 1, t, IF ev[m + 1].t = t THEN n + 1 ELSE n)
<1> DEFINE H == Heads(ev, m, t)
<1>1. m + 1 \notin H /\ IsFiniteSet(H) /\ Cardinality(H) = n
  BY DEF Heads, HeadsCounted
<1>2. Heads(ev, m + 1, t) = IF ev[m + 1].t = t THEN H \cup {m + 1} ELSE H
  BY DEF Heads
<1>3. IsFiniteSet(H \cup {m + 1}) /\ Cardinality(H \cup {m + 1}) = n + 1
  BY <1>1, FS_AddElement
<1> HIDE DEF H
<1> QED BY <1>1, <1>2, <1>3 DEF HeadsCounted

\* Every block counted, the last one as it was announced.
LastBlock(ev, m, s) ==
  s.n > 0 => \E x \in 1 .. m : ev[x].t = "content_block_start" /\ ev[x].i = s.n - 1 /\ ev[x].k = s.kind
Blocks(ev, m, s) ==
  /\ HeadsCounted(ev, m, "content_block_start", s.n)
  /\ HeadsCounted(ev, m, "content_block_stop", IF s.open THEN s.n - 1 ELSE s.n)
  /\ LastBlock(ev, m, s)

\* The indexes announced so far, by events of type t.
IndexesKnown(ev, m, t, s) ==
  \A k \in Nat : k < s.n <=> \E x \in 1 .. m : ev[x].t = t /\ ev[x].i = k
Opened(ev, m, s) ==
  s.begun => \E x \in 1 .. m : ev[x].t \in {"message_start", "response.created"}

Recalls(ev, m, s) ==
  /\ s.d = "messages" => Blocks(ev, m, s)
  /\ s.d = "responses" => IndexesKnown(ev, m, "response.output_item.added", s)
  /\ s.d = "chat" => IndexesKnown(ev, m, "tool_calls", s)
  /\ Opened(ev, m, s) /\ (m > 0 => s.any)

\* What is announced in each dialect.
LEMMA AnnouncedIn ==
  ASSUME NEW s, NEW e, Sane(s), MayFollow(s, e)
  PROVE  /\ s.d = "messages" => /\ Announces(e) <=> e.t = "content_block_start"
                                /\ Shuts(e) <=> e.t = "content_block_stop"
         /\ s.d = "responses" => (Announces(e) <=> e.t = "response.output_item.added")
         /\ s.d = "chat" /\ Announces(e) => e.t = "tool_calls"
<1>1. e.t \in Lexicon(s.d)
  BY DEF MayFollow
<1>2. ASSUME s.d = "messages"
      PROVE  /\ Announces(e) <=> e.t = "content_block_start"
             /\ Shuts(e) <=> e.t = "content_block_stop"
  <2>1. e.t \in {"message_start", "ping", "content_block_start", "content_block_delta",
                 "content_block_stop", "message_delta", "message_stop", "error"}
    BY <1>1, <1>2 DEF Lexicon
  <2> QED BY <2>1 DEF Announces, Shuts
<1>3. ASSUME s.d = "responses" PROVE Announces(e) <=> e.t = "response.output_item.added"
  <2>1. e.t # "content_block_start" /\ e.t # "tool_calls"
    BY <1>1, <1>3 DEF Lexicon
  <2> QED BY <2>1 DEF Announces
<1>4. ASSUME s.d = "chat", Announces(e) PROVE e.t = "tool_calls"
  <2>1. e.t # "content_block_start" /\ e.t # "response.output_item.added"
    BY <1>1, <1>4 DEF Lexicon
  <2> QED BY <1>4, <2>1 DEF Announces
<1> QED BY <1>2, <1>3, <1>4

\* A Messages reader goes on counting blocks.
LEMMA BlocksOne ==
  ASSUME NEW ev, NEW m \in Nat, NEW s, NEW t, t = Tell(s, ev[m + 1]), Sane(s), Sane(t),
         MayFollow(s, ev[m + 1]), s.d = "messages", Blocks(ev, m, s)
  PROVE  Blocks(ev, m + 1, t)
<1> DEFINE e == ev[m + 1]
<1>1. PlaceSaid(s, e, t) /\ MessagesGoOn(s, e)
  BY TellParts DEF MayFollow
<1>2. (Announces(e) <=> e.t = "content_block_start") /\ (Shuts(e) <=> e.t = "content_block_stop")
  BY AnnouncedIn
<1>3. s.n \in Nat /\ (s.open => s.n > 0) /\ s.open \in BOOLEAN /\ t.n \in Nat
  BY DEF Sane
<1>4. /\ (e.t = "content_block_start" => ~s.open /\ e.i = s.n)
      /\ (e.t = "content_block_stop" => s.open)
  BY <1>1, <1>2 DEF MessagesGoOn
<1>5. HeadsCounted(ev, m + 1, "content_block_start", t.n)
  <2>1. HeadsCounted(ev, m + 1, "content_block_start", IF e.t = "content_block_start" THEN s.n + 1 ELSE s.n)
    BY <1>3, CountOne DEF Blocks
  <2> HIDE DEF e
  <2>2. t.n = IF e.t = "content_block_start" THEN s.n + 1 ELSE s.n
    BY <1>1, <1>2 DEF PlaceSaid
  <2> QED BY <2>1, <2>2
<1>6. HeadsCounted(ev, m + 1, "content_block_stop", IF t.open THEN t.n - 1 ELSE t.n)
  <2> DEFINE a == IF s.open THEN s.n - 1 ELSE s.n
             b == IF t.open THEN t.n - 1 ELSE t.n
  <2>1. a \in Nat /\ HeadsCounted(ev, m, "content_block_stop", a)
    BY <1>3 DEF Blocks
  <2> HIDE DEF a
  <2>2. HeadsCounted(ev, m + 1, "content_block_stop", IF e.t = "content_block_stop" THEN a + 1 ELSE a)
    BY <2>1, CountOne
  <2> HIDE DEF e
  <2>3. b = IF e.t = "content_block_stop" THEN a + 1 ELSE a
    <3>1. /\ t.n = IF e.t = "content_block_start" THEN s.n + 1 ELSE s.n
          /\ t.open <=> e.t = "content_block_start" \/ (s.open /\ e.t # "content_block_stop")
      BY <1>1, <1>2 DEF PlaceSaid
    <3>2. CASE e.t = "content_block_start"
      BY <1>3, <1>4, <3>1, <3>2 DEF a
    <3>3. CASE e.t = "content_block_stop"
      BY <1>3, <1>4, <3>1, <3>3 DEF a
    <3>4. CASE e.t # "content_block_start" /\ e.t # "content_block_stop"
      BY <1>3, <1>4, <3>1, <3>4 DEF a
    <3> QED BY <3>2, <3>3, <3>4
  <2> HIDE DEF b
  <2>4. HeadsCounted(ev, m + 1, "content_block_stop", b)
    BY <2>2, <2>3
  <2> QED BY <2>4 DEF b
<1>7. LastBlock(ev, m + 1, t)
  <2>1. CASE e.t = "content_block_start"
    <3>1. t.n = s.n + 1 /\ t.kind = e.k /\ e.i = s.n /\ m + 1 \in 1 .. m + 1
      BY <1>1, <1>2, <1>4, <2>1 DEF PlaceSaid
    <3>2. e.i = t.n - 1
      BY <1>3, <3>1
    <3> QED BY <2>1, <3>1, <3>2 DEF LastBlock
  <2>2. CASE e.t # "content_block_start"
    <3>1. t.n = s.n /\ t.kind = s.kind
      BY <1>1, <1>2, <2>2 DEF PlaceSaid
    <3>2. LastBlock(ev, m, s) /\ \A x \in 1 .. m : x \in 1 .. m + 1
      BY DEF Blocks
    <3> QED BY <3>1, <3>2 DEF LastBlock
  <2> QED BY <2>1, <2>2
<1> QED BY <1>5, <1>6, <1>7 DEF Blocks

\* A reader of items or calls goes on knowing their indexes.
LEMMA KnownOne ==
  ASSUME NEW ev, NEW m \in Nat, NEW s, NEW t, NEW p, t = Tell(s, ev[m + 1]), Sane(s), Sane(t),
         MayFollow(s, ev[m + 1]), IndexesKnown(ev, m, p, s),
         Announces(ev[m + 1]) => ev[m + 1].t = p,
         ev[m + 1].t = p /\ ~Announces(ev[m + 1]) => ev[m + 1].i < s.n
  PROVE  IndexesKnown(ev, m + 1, p, t)
<1> DEFINE e == ev[m + 1]
<1>1. PlaceSaid(s, e, t) /\ (Announces(e) => e.i = s.n) /\ e.i \in Nat
  BY TellParts, WherePlaced
<1>2. s.n \in Nat /\ t.n = IF Announces(e) THEN s.n + 1 ELSE s.n
  BY <1>1 DEF PlaceSaid, Sane
<1>3. ASSUME NEW k \in Nat, k < t.n PROVE \E x \in 1 .. m + 1 : ev[x].t = p /\ ev[x].i = k
  <2>1. CASE k < s.n
    <3>1. PICK x \in 1 .. m : ev[x].t = p /\ ev[x].i = k
      BY <2>1 DEF IndexesKnown
    <3>2. x \in 1 .. m + 1
      BY <3>1
    <3> QED BY <3>1, <3>2
  <2>2. CASE ~(k < s.n)
    <3>1. Announces(e) /\ k = e.i /\ m + 1 \in 1 .. m + 1
      BY <1>1, <1>2, <1>3, <2>2
    <3> QED BY <3>1
  <2> QED BY <2>1, <2>2
<1>4. ASSUME NEW k \in Nat, NEW x \in 1 .. m + 1, ev[x].t = p, ev[x].i = k PROVE k < t.n
  <2>1. CASE x \in 1 .. m
    <3>1. k < s.n
      BY <1>4, <2>1 DEF IndexesKnown
    <3> QED BY <1>2, <3>1
  <2>2. CASE x = m + 1
    <3>1. e.i = k /\ e.t = p
      BY <1>4, <2>2
    <3>2. CASE Announces(e)
      BY <1>1, <1>2, <3>1, <3>2
    <3>3. CASE ~Announces(e)
      <4>1. e.i < s.n
        BY <3>1, <3>3
      <4> QED BY <1>2, <3>1, <3>3, <4>1
    <3> QED BY <3>2, <3>3
  <2> QED BY <2>1, <2>2
<1> QED BY <1>3, <1>4 DEF IndexesKnown

\* A reader goes on recalling.
LEMMA RecallsOne ==
  ASSUME NEW ev, NEW m \in Nat, NEW s, NEW t, t = Tell(s, ev[m + 1]), Sane(s), Sane(t),
         MayFollow(s, ev[m + 1]), Recalls(ev, m, s)
  PROVE  Recalls(ev, m + 1, t)
<1> DEFINE e == ev[m + 1]
<1>1. t.d = s.d /\ t.any = TRUE /\ PhaseSaid(s, e, t)
  <2>1. HeardOn(s, t) /\ PhaseSaid(s, e, t)
    BY TellParts
  <2> HIDE DEF e
  <2> QED BY <2>1 DEF HeardOn
<1>2. ASSUME t.d = "messages" PROVE Blocks(ev, m + 1, t)
  BY <1>1, <1>2, BlocksOne DEF Recalls
<1>3. ASSUME t.d = "responses" PROVE IndexesKnown(ev, m + 1, "response.output_item.added", t)
  <2> DEFINE p == "response.output_item.added"
  <2>1. Announces(e) <=> e.t = p
    BY <1>1, <1>3, AnnouncedIn
  <2>2. IndexesKnown(ev, m, p, s)
    BY <1>1, <1>3 DEF Recalls
  <2> HIDE DEF p
  <2>3. IndexesKnown(ev, m + 1, p, t)
    BY <2>1, <2>2, KnownOne
  <2> QED BY <2>3 DEF p
<1>4. ASSUME t.d = "chat" PROVE IndexesKnown(ev, m + 1, "tool_calls", t)
  <2> DEFINE p == "tool_calls"
  <2>1. (Announces(e) => e.t = p) /\ IndexesKnown(ev, m, p, s)
    BY <1>1, <1>4, AnnouncedIn DEF Recalls
  <2>2. e.t = p /\ ~Announces(e) => e.i < s.n
    <3>1. ChatGoesOn(s, e)
      BY <1>1, <1>4 DEF MayFollow
    <3> QED BY <3>1 DEF ChatGoesOn, Announces
  <2> HIDE DEF p
  <2>3. IndexesKnown(ev, m + 1, p, t)
    BY <2>1, <2>2, KnownOne
  <2> QED BY <2>3 DEF p
<1>5. Opened(ev, m + 1, t)
  <2>1. CASE e.t \in {"message_start", "response.created"}
    <3>1. m + 1 \in 1 .. m + 1
      OBVIOUS
    <3> QED BY <2>1, <3>1 DEF Opened
  <2>2. CASE e.t \notin {"message_start", "response.created"}
    <3>1. t.begun => s.begun
      BY <1>1, <2>2 DEF PhaseSaid, Sane
    <3>2. Opened(ev, m, s) /\ \A x \in 1 .. m : x \in 1 .. m + 1
      BY DEF Recalls
    <3> QED BY <3>1, <3>2 DEF Opened
  <2> QED BY <2>1, <2>2
<1> QED BY <1>1, <1>2, <1>3, <1>4, <1>5 DEF Recalls

\* At the beginning there is nothing to recall.
LEMMA RecallsNothing == ASSUME NEW d \in Dialects, NEW ev PROVE Recalls(ev, 0, Untold(d))
<1> DEFINE s == Untold(d)
<1>1. s.d = d /\ s.n = 0 /\ s.open = FALSE /\ s.begun = FALSE
  BY DEF Untold
<1> HIDE DEF s
<1>2. \A p : Heads(ev, 0, p) = {}
  BY DEF Heads
<1>3. \A p : HeadsCounted(ev, 0, p, 0)
  BY <1>2, FS_EmptySet DEF HeadsCounted
<1>4. Blocks(ev, 0, s)
  BY <1>1, <1>3 DEF Blocks, LastBlock
<1>5. \A p : IndexesKnown(ev, 0, p, s)
  BY <1>1 DEF IndexesKnown
<1>6. Opened(ev, 0, s)
  BY <1>1 DEF Opened
<1>7. Recalls(ev, 0, s)
  BY <1>4, <1>5, <1>6 DEF Recalls
<1> QED BY <1>7 DEF s

\* A legal stream, with what its reader recalls before each event.
LEMMA RecallsAll ==
  ASSUME NEW d \in Dialects, NEW ev, NEW g, IsSeq(ev), ToldAs(Untold(d), ev, g),
         Sane(Told(Untold(d), ev))
  PROVE  \A m \in 0 .. Len(ev) : Recalls(ev, m, g[m]) /\ Sane(g[m]) /\ g[m].d = d
<1>1. Len(ev) \in Nat
  BY DEF IsSeq
<1>2. Sane(Untold(d)) /\ Untold(d).d = d /\ g[0] = Untold(d)
  BY SaneUntold DEF ToldAs
<1>3. \A i \in 1 .. Len(ev) : MayFollow(g[i - 1], ev[i]) /\ Sane(g[i])
  BY <1>1, <1>2, SaneThroughout
<1> DEFINE S == {m \in Nat : Recalls(ev, m, g[m]) /\ Sane(g[m]) /\ g[m].d = d}
<1>4. 0 \in S
  BY <1>2, RecallsNothing
<1>5. ASSUME NEW m \in Nat, m \in S, m < Len(ev) PROVE m + 1 \in S
  <2> DEFINE s == g[m]
             t == g[m + 1]
             e == ev[m + 1]
  <2>1. m + 1 \in 1 .. Len(ev) /\ (m + 1) - 1 = m /\ m + 1 \in Nat
    BY <1>5
  <2>2. t = Tell(s, e) /\ MayFollow(s, e) /\ Sane(t)
    BY <1>3, <2>1 DEF ToldAs
  <2>3. Recalls(ev, m, s) /\ Sane(s) /\ s.d = d
    BY <1>5
  <2> HIDE DEF s, t
  <2>4. Recalls(ev, m + 1, t)
    BY <2>2, <2>3, RecallsOne
  <2>5. t.d = d
    <3>1. HeardOn(s, t)
      BY <2>2, <2>3, TellParts
    <3> QED BY <2>3, <3>1 DEF HeardOn
  <2> QED BY <2>1, <2>2, <2>4, <2>5 DEF t
<1>6. S \in SUBSET Nat
  OBVIOUS
<1> HIDE DEF S
<1>7. \A m \in 0 .. Len(ev) : m \in S
  BY <1>1, <1>4, <1>5, <1>6, Induction
<1> QED BY <1>7 DEF S

\* The events that open a reply come first.
LEMMA OpensFirst ==
  ASSUME RelayInv, TellInv, client = "messages", NEW g, ToldAs(Untold(client), got, g),
         NEW j \in 1 .. Len(got), MayFollow(g[j - 1], got[j]),
         \A m \in 0 .. Len(got) : Recalls(got, m, g[m]) /\ Sane(g[m]) /\ g[m].d = client,
         \A i \in 1 .. Len(got) : MayFollow(g[i - 1], got[i])
  PROVE  got[j].t = "message_start" <=> j = 1
<1>1. Len(got) \in Nat
  BY DEF RelayInv, GotInv, IsSeq
<1>2. ASSUME NEW x \in 1 .. Len(got), got[x].t = "message_start" PROVE x = 1
  <2> DEFINE s == g[x - 1]
  <2>1. MessagesGoOn(s, got[x]) /\ (x - 1 > 0 => s.any) /\ x - 1 \in Nat
    <3>1. x - 1 \in 0 .. Len(got)
      BY <1>1
    <3> QED BY <3>1 DEF MayFollow, Recalls
  <2> HIDE DEF s
  <2>2. ~s.any
    BY <1>2, <2>1 DEF MessagesGoOn
  <2> QED BY <2>1, <2>2
<1>3. PICK x \in 1 .. Len(got) : got[x].t = "message_start"
  <2> DEFINE h == g[Len(got)]
  <2>1. h = Has /\ Opened(got, Len(got), h)
    BY <1>1 DEF ToldAs, Has, Recalls
  <2>2. h.begun
    <3>1. got # <<>>
      BY <1>1, NothingSaid
    <3> QED BY <2>1, <3>1 DEF TellInv, HasInv
  <2> HIDE DEF h
  <2>3. PICK x \in 1 .. Len(got) : got[x].t \in {"message_start", "response.created"}
    BY <2>1, <2>2 DEF Opened
  <2>4. got[x].t # "response.created"
    <3> DEFINE s == g[x - 1]
    <3>1. got[x].t \in Lexicon(s.d) /\ s.d = "messages"
      <4>1. x - 1 \in 0 .. Len(got)
        BY <1>1
      <4> QED BY <4>1 DEF MayFollow
    <3> HIDE DEF s
    <3> QED BY <3>1 DEF Lexicon
  <2> QED BY <2>3, <2>4
<1>4. x = 1
  BY <1>2, <1>3
<1> QED BY <1>2, <1>3, <1>4

\* The counts of LegalMessages are the reader's.
LEMMA BeforeIs ==
  ASSUME NEW j \in Nat \ {0}, NEW s, Blocks(got, j - 1, s)
  PROVE  /\ Before(j, LAMBDA x : x.t = "content_block_start") = s.n
         /\ Before(j, LAMBDA x : x.t = "content_block_stop") = IF s.open THEN s.n - 1 ELSE s.n
BY DEF Blocks, HeadsCounted, Heads, Before

\* What may follow in a Messages stream is legal there.
LEMMA MessagesLegal ==
  ASSUME NEW j \in Nat \ {0}, NEW s, Sane(s), s.d = "messages", MayFollow(s, got[j]),
         Blocks(got, j - 1, s), got[j].t = "message_start" <=> j = 1
  PROVE  LegalMessages(j)
<1> DEFINE e == got[j]
           opened == s.n
           closed == IF s.open THEN s.n - 1 ELSE s.n
           announced(k) == \E x \in 1 .. j - 1 :
                             got[x].t = "content_block_start" /\ got[x].i = e.i /\ got[x].k = k
<1>1. MessagesGoOn(s, e) /\ s.n \in Nat /\ (s.open => s.n > 0) /\ s.open \in BOOLEAN
  BY DEF MayFollow, Sane
<1>2. e.t \in {"message_start", "ping", "content_block_start", "content_block_delta",
               "content_block_stop", "message_delta", "message_stop", "error"}
  BY DEF MayFollow, Lexicon
<1>3. e.t = "content_block_start" => opened = closed /\ e.i = opened
  BY <1>1 DEF MessagesGoOn, Announces
<1>4. e.t \in {"content_block_delta", "content_block_stop"} => opened = closed + 1 /\ e.i = closed
  BY <1>1 DEF MessagesGoOn
<1>5. ASSUME e.t = "content_block_delta" PROVE announced(s.kind)
  <2>1. s.open /\ e.i = s.n - 1
    BY <1>1, <1>5 DEF MessagesGoOn
  <2> QED BY <1>1, <2>1 DEF Blocks, LastBlock
<1>6. CarriesText(e) => announced("text")
  <2>1. CarriesText(e) => e.t = "content_block_delta" /\ s.kind = "text"
    BY <1>1, <1>2 DEF CarriesText, MessagesGoOn
  <2> QED BY <1>5, <2>1
<1>7. CarriesArguments(e) => announced("tool_use")
  <2>1. CarriesArguments(e) => e.t = "content_block_delta" /\ s.kind = "tool_use"
    BY <1>1, <1>2 DEF CarriesArguments, MessagesGoOn
  <2> QED BY <1>5, <2>1
<1>8. e.t \in {"message_delta", "message_stop"} => opened = closed
  BY <1>1 DEF MessagesGoOn
<1>9. /\ Before(j, LAMBDA x : x.t = "content_block_start") = opened
      /\ Before(j, LAMBDA x : x.t = "content_block_stop") = closed
  BY BeforeIs
<1> HIDE DEF opened, closed
<1> QED BY <1>3, <1>4, <1>6, <1>7, <1>8, <1>9 DEF LegalMessages

\* What may follow in a Responses or Chat stream is legal there.
LEMMA ItemsLegal ==
  ASSUME NEW j \in Nat \ {0}, NEW s, Sane(s), MayFollow(s, got[j]), Recalls(got, j - 1, s),
         s.d = "responses" \/ s.d = "chat"
  PROVE  LegalItems(j)
<1> DEFINE e == got[j]
           announced(t) == \E x \in 1 .. j - 1 : got[x].t = t /\ got[x].i = e.i
<1>1. e.t \in Lexicon(s.d) /\ e.i \in Nat /\ s.n \in Nat
  BY DEF MayFollow, Sane
<1>2. CASE s.d = "responses"
  <2>1. announced("response.output_item.added") <=> e.i < s.n
    BY <1>1, <1>2 DEF Recalls, IndexesKnown
  <2>2. ResponsesGoOn(s, e) /\ e.t # "tool_calls"
    BY <1>1, <1>2 DEF MayFollow, Lexicon
  <2>3. e.t = "response.function_call_arguments.delta" => e.i < s.n
    <3>1. ASSUME e.t = "response.function_call_arguments.delta" PROVE e.i < s.n
      <4>1. PICK i \in 1 .. Len(s.ids) : s.ids[i] = e.i
        BY <2>2, <3>1 DEF ResponsesGoOn, CarriesArguments
      <4> QED BY <4>1 DEF Sane
    <3> QED BY <3>1
  <2>4. e.t \in {"response.output_text.delta", "response.output_item.done"} => e.i < s.n
    BY <2>2 DEF ResponsesGoOn
  <2>5. e.t = "response.output_item.added" => ~(e.i < s.n)
    BY <1>1, <2>2 DEF ResponsesGoOn, Announces
  <2> QED BY <2>1, <2>2, <2>3, <2>4, <2>5 DEF LegalItems
<1>3. CASE s.d = "chat"
  <2>1. announced("tool_calls") <=> e.i < s.n
    BY <1>1, <1>3 DEF Recalls, IndexesKnown
  <2>2. e.t \in {"role", "content", "tool_calls", "refusal", "finish", "usage", "[DONE]", "error"}
    BY <1>1, <1>3 DEF Lexicon
  <2>3. e.t = "tool_calls" => (Names(e) <=> ~announced("tool_calls"))
    <3>1. ASSUME e.t = "tool_calls" PROVE Names(e) <=> ~(e.i < s.n)
      <4>1. (e.k = "id" /\ e.i = s.n) \/ (e.k = "" /\ e.i < s.n)
        BY <1>3, <3>1 DEF MayFollow, ChatGoesOn
      <4>2. Names(e) <=> e.k = "id"
        BY <3>1 DEF Names
      <4> HIDE DEF e
      <4>3. e.k = "id" <=> ~(e.i < s.n)
        <5>1. CASE e.k = "id" /\ e.i = s.n
          <6>1. ~(e.i < s.n)
            BY <1>1, <5>1
          <6> QED BY <5>1, <6>1
        <5>2. CASE e.k = "" /\ e.i < s.n
          <6>1. e.k # "id"
            BY <5>2
          <6> QED BY <5>2, <6>1
        <5> QED BY <4>1, <5>1, <5>2
      <4> QED BY <4>2, <4>3
    <3> QED BY <2>1, <3>1
  <2>4. e.t \notin {"response.output_text.delta", "response.function_call_arguments.delta",
                    "response.output_item.done", "response.output_item.added"}
    BY <2>2
  <2> QED BY <2>3, <2>4 DEF LegalItems
<1> QED BY <1>2, <1>3

\* ClientStreamLegal follows from the invariants.
LEMMA LegalForClient == ASSUME RelayInv, TellInv PROVE ClientStreamLegal
<1>1. client \in Dialects /\ IsSeq(got) /\ Len(got) \in Nat /\ DOMAIN got = 1 .. Len(got)
  BY DEF RelayInv, SrcInv, GotInv, IsSeq
<1>2. PICK g : ToldAs(Untold(client), got, g)
  BY <1>1, ToldIs
<1>3. Sane(Told(Untold(client), got)) /\ Sane(Untold(client))
  BY <1>1, SaneUntold DEF TellInv, HasInv, Has
<1>4. \A m \in 0 .. Len(got) : Recalls(got, m, g[m]) /\ Sane(g[m]) /\ g[m].d = client
  BY <1>1, <1>2, <1>3, RecallsAll
<1>5. \A i \in 1 .. Len(got) : MayFollow(g[i - 1], got[i])
  BY <1>1, <1>2, <1>3, SaneThroughout
<1>6. ASSUME NEW j \in 1 .. Len(got)
      PROVE  IF client = "messages" THEN LegalMessages(j) ELSE LegalItems(j)
  <2> DEFINE s == g[j - 1]
  <2>1. /\ j \in Nat \ {0} /\ MayFollow(s, got[j]) /\ Recalls(got, j - 1, s) /\ Sane(s)
        /\ s.d = client
    <3>1. j - 1 \in 0 .. Len(got) /\ j \in Nat \ {0}
      BY <1>1
    <3> QED BY <1>4, <1>5, <3>1
  <2>2. CASE client = "messages"
    <3>1. got[j].t = "message_start" <=> j = 1
      BY <1>2, <1>4, <1>5, <2>1, <2>2, OpensFirst
    <3> HIDE DEF s
    <3>2. Blocks(got, j - 1, s)
      BY <2>1, <2>2 DEF Recalls
    <3> QED BY <2>1, <2>2, <3>1, <3>2, MessagesLegal
  <2>3. CASE client # "messages"
    <3> HIDE DEF s
    <3>1. s.d = "responses" \/ s.d = "chat"
      BY <1>1, <2>1, <2>3 DEF Dialects
    <3> QED BY <2>1, <2>3, <3>1, ItemsLegal
  <2> QED BY <2>2, <2>3
<1>7. \A j \in DOMAIN got : Terminal(got[j]) => j = Len(got)
  BY RelayEndsOnce DEF OneEnd
<1> QED BY <1>1, <1>6, <1>7 DEF ClientStreamLegal

\* What the client has been sent is legal in its dialect at every moment (the
\* converters' emissions, whatever chunks the events arrive in).
THEOREM ClientsStreamLegal == Spec => []ClientStreamLegal
BY LegalForClient, Invariant, ToldInvariant, PTL
=============================================================================
