------------------------- MODULE StreamRelayProofs -------------------------
(***************************************************************************)
(* Theorems about StreamRelay, for every pair of dialects and any number   *)
(* of items, deltas and events on the wire.  What a chunk is turned into   *)
(* and what the accumulator makes of it are recursive functions of the     *)
(* events; each is shown to exist, and what it computes is shown by        *)
(* induction over the events (Induction, from the least counterexample).   *)
(***************************************************************************)
EXTENDS StreamRelay, FiniteSetTheorems, SequenceTheorems, TLAPS

---------------------------------------------------------------------------
(* Induction, and sequences of anything.                                   *)

\* A set of naturals that is not empty has a least element.
LEMMA LeastNat ==
  ASSUME NEW S \in SUBSET Nat, S # {}
  PROVE  \E m \in S : \A n \in S : m <= n
  <1> DEFINE Upto(n) == {i \in Nat : i <= n}
             U == {t \in SUBSET Nat : \E n \in S : t = Upto(n)}
             R == StrictSubsetOrdering(Nat)
  <1>1. \A n \in Nat : IsFiniteSet(Upto(n))
    <2> TAKE n \in Nat
    <2>1. Upto(n) = 0 .. n /\ 0 \in Int /\ n \in Int
      OBVIOUS
    <2>2. IsFiniteSet(0 .. n)
      BY <2>1, FS_Interval
    <2> QED
      BY <2>1, <2>2
  <1>2. U \subseteq FiniteSubsetsOf(Nat) /\ U # {}
    BY <1>1 DEF FiniteSubsetsOf
  <1>3. IsWellFoundedOn(R, FiniteSubsetsOf(Nat))
    BY FS_StrictSubsetOrderingWellFounded
  <1>4. \E x \in U : \A y \in U : ~(<<y, x>> \in R)
    <2> HIDE DEF U, R
    <2> QED
      BY <1>2, <1>3, WFMin
  <1>5. PICK m \in S : \A n \in S : ~(<<Upto(n), Upto(m)>> \in R)
    BY <1>4
  <1>6. ASSUME NEW n \in S, n < m PROVE FALSE
    <2>1. m \in Upto(m) /\ m \notin Upto(n) /\ Upto(n) \subseteq Upto(m)
      BY <1>6
    <2>2. <<Upto(n), Upto(m)>> \in R
      BY <2>1 DEF StrictSubsetOrdering
    <2> QED
      BY <1>5, <2>2
  <1> QED
    BY <1>6

LEMMA Induction ==
  ASSUME NEW S \in SUBSET Nat, NEW b \in Nat,
         0 \in S, \A n \in Nat : n \in S /\ n < b => n + 1 \in S
  PROVE  \A n \in 0 .. b : n \in S
  <1> DEFINE Out == {n \in 0 .. b : n \notin S}
  <1>1. CASE Out = {}
    BY <1>1
  <1>2. CASE Out # {}
    <2>1. PICK m \in Out : \A n \in Out : m <= n
      <3>1. Out \in SUBSET Nat
        OBVIOUS
      <3> HIDE DEF Out
      <3> QED
        BY <1>2, <3>1, LeastNat
    <2>2. m \in Nat /\ m # 0 /\ m <= b
      BY <2>1
    <2>3. m - 1 \in Nat /\ m - 1 < b /\ (m - 1) + 1 = m /\ m - 1 \in 0 .. b
      BY <2>2
    <2>4. m - 1 \in S
      BY <2>1, <2>2, <2>3
    <2> QED
      BY <2>1, <2>3, <2>4
  <1> QED
    BY <1>1, <1>2

IsSeq(s) == Len(s) \in Nat /\ s = [j \in 1 .. Len(s) |-> s[j]]

LEMMA SeqIsSeq == ASSUME NEW S, NEW s \in Seq(S) PROVE IsSeq(s)
  BY LenProperties DEF IsSeq

LEMMA Single == ASSUME NEW a PROVE IsSeq(<<a>>) /\ Len(<<a>>) = 1 /\ <<a>>[1] = a
  <1>1. <<a>> \in Seq({a})
    OBVIOUS
  <1> QED
    BY <1>1, SeqIsSeq

LEMMA NothingSaid == IsSeq(<<>>) /\ Len(<<>>) = 0
  <1>1. <<>> \in Seq({})
    OBVIOUS
  <1> QED
    BY <1>1, SeqIsSeq

LEMMA EmptyIs == ASSUME NEW s, IsSeq(s) PROVE s = <<>> <=> Len(s) = 0
  <1>1. ASSUME Len(s) = 0 PROVE s = <<>>
    BY <1>1 DEF IsSeq
  <1> QED
    BY <1>1, NothingSaid

LEMMA Joined ==
  ASSUME NEW s, NEW t, IsSeq(s), IsSeq(t)
  PROVE  /\ IsSeq(s \o t) /\ Len(s \o t) = Len(s) + Len(t)
         /\ \A j \in 1 .. Len(s) : (s \o t)[j] = s[j]
         /\ \A j \in 1 .. Len(t) : (s \o t)[Len(s) + j] = t[j]
  <1> DEFINE S == {s[j] : j \in 1 .. Len(s)} \cup {t[j] : j \in 1 .. Len(t)}
  <1>1. s \in Seq(S)
    <2>1. [j \in 1 .. Len(s) |-> s[j]] \in [1 .. Len(s) -> S]
      OBVIOUS
    <2> QED
      BY <2>1 DEF IsSeq
  <1>2. t \in Seq(S)
    <2>1. [j \in 1 .. Len(t) |-> t[j]] \in [1 .. Len(t) -> S]
      OBVIOUS
    <2> QED
      BY <2>1 DEF IsSeq
  <1>3. Len(s) \in Nat /\ Len(t) \in Nat
    BY DEF IsSeq
  <1> HIDE DEF S
  <1>4. /\ s \o t \in Seq(S) /\ Len(s \o t) = Len(s) + Len(t)
        /\ \A j \in 1 .. Len(s) + Len(t) : (s \o t)[j] = IF j <= Len(s) THEN s[j] ELSE t[j - Len(s)]
    BY <1>1, <1>2, ConcatProperties
  <1>5. \A j \in 1 .. Len(s) : j \in 1 .. Len(s) + Len(t) /\ j <= Len(s)
    BY <1>3
  <1>6. \A j \in 1 .. Len(t) : /\ Len(s) + j \in 1 .. Len(s) + Len(t)
                               /\ ~(Len(s) + j <= Len(s)) /\ (Len(s) + j) - Len(s) = j
    BY <1>3
  <1> QED
    BY <1>4, <1>5, <1>6, SeqIsSeq

\* Where an element of the whole comes from.
LEMMA Halves ==
  ASSUME NEW s, NEW t, IsSeq(s), IsSeq(t), NEW j \in 1 .. Len(s \o t)
  PROVE  \/ j \in 1 .. Len(s) /\ (s \o t)[j] = s[j]
         \/ j - Len(s) \in 1 .. Len(t) /\ (s \o t)[j] = t[j - Len(s)]
  <1>1. Len(s) \in Nat /\ Len(t) \in Nat /\ Len(s \o t) = Len(s) + Len(t)
    BY Joined DEF IsSeq
  <1>2. CASE j <= Len(s)
    BY <1>1, <1>2, Joined
  <1>3. CASE ~(j <= Len(s))
    <2>1. j - Len(s) \in 1 .. Len(t) /\ Len(s) + (j - Len(s)) = j
      BY <1>1, <1>3
    <2> QED
      BY <2>1, Joined
  <1> QED
    BY <1>2, <1>3

---------------------------------------------------------------------------
(* The recursive functions exist: a table of their first values can be     *)
(* extended by one more.                                                   *)

FedBy(a, s, m, g) ==
  g = [i \in 0 .. m |-> IF i = 0 THEN a ELSE FeedOne(g[i - 1], s[i])]
WrittenBy(c, s, m, g) ==
  g = [i \in 0 .. m |-> IF i = 0 THEN Emits(c, <<>>) ELSE Written(g[i - 1], s[i])]
PassedBy(conv_, s, m, g) ==
  g = [i \in 0 .. m |-> IF i = 0 THEN Emits(conv_, s) ELSE PassOn(g[i - 1], i)]

LEMMA FedExists ==
  ASSUME NEW a, NEW s, NEW n \in Nat PROVE \E g : FedBy(a, s, n, g)
<1> DEFINE S == {m \in Nat : \E g : FedBy(a, s, m, g)}
<1>1. 0 \in S
  <2>1. FedBy(a, s, 0, [i \in 0 .. 0 |-> a])
    BY DEF FedBy
  <2> QED BY <2>1
<1>2. ASSUME NEW m \in Nat, m \in S PROVE m + 1 \in S
  <2>1. PICK g : FedBy(a, s, m, g)
    BY <1>2
  <2> DEFINE h == [i \in 0 .. m + 1 |-> IF i = m + 1 THEN FeedOne(g[m], s[m + 1]) ELSE g[i]]
  <2>2. \A i \in 0 .. m : h[i] = g[i]
    OBVIOUS
  <2>3. ASSUME NEW i \in 0 .. m + 1
        PROVE  h[i] = IF i = 0 THEN a ELSE FeedOne(h[i - 1], s[i])
    <3>1. CASE i = m + 1
      <4>1. i # 0 /\ i - 1 = m /\ m \in 0 .. m
        BY <3>1
      <4>2. h[i] = FeedOne(g[m], s[m + 1])
        BY <3>1
      <4> QED BY <2>2, <3>1, <4>1, <4>2
    <3>2. CASE i # m + 1
      <4>1. i \in 0 .. m /\ (i # 0 => i - 1 \in 0 .. m)
        BY <3>2
      <4>2. g[i] = IF i = 0 THEN a ELSE FeedOne(g[i - 1], s[i])
        BY <2>1, <4>1 DEF FedBy
      <4> HIDE DEF h
      <4> QED BY <2>2, <4>1, <4>2
    <3> QED BY <3>1, <3>2
  <2>4. h = [i \in 0 .. m + 1 |-> h[i]]
    OBVIOUS
  <2> HIDE DEF h
  <2>5. FedBy(a, s, m + 1, h)
    BY <2>3, <2>4 DEF FedBy
  <2> QED BY <2>5
<1>3. S \in SUBSET Nat
  OBVIOUS
<1> HIDE DEF S
<1>4. \A i \in 0 .. n : i \in S
  BY <1>1, <1>2, <1>3, Induction
<1> QED BY <1>4 DEF S

LEMMA WrittenExists ==
  ASSUME NEW c, NEW s, NEW n \in Nat PROVE \E g : WrittenBy(c, s, n, g)
<1> DEFINE S == {m \in Nat : \E g : WrittenBy(c, s, m, g)}
<1>1. 0 \in S
  <2>1. WrittenBy(c, s, 0, [i \in 0 .. 0 |-> Emits(c, <<>>)])
    BY DEF WrittenBy
  <2> QED BY <2>1
<1>2. ASSUME NEW m \in Nat, m \in S PROVE m + 1 \in S
  <2>1. PICK g : WrittenBy(c, s, m, g)
    BY <1>2
  <2> DEFINE h == [i \in 0 .. m + 1 |-> IF i = m + 1 THEN Written(g[m], s[m + 1]) ELSE g[i]]
  <2>2. \A i \in 0 .. m : h[i] = g[i]
    OBVIOUS
  <2>3. ASSUME NEW i \in 0 .. m + 1
        PROVE  h[i] = IF i = 0 THEN Emits(c, <<>>) ELSE Written(h[i - 1], s[i])
    <3>1. CASE i = m + 1
      <4>1. i # 0 /\ i - 1 = m /\ m \in 0 .. m
        BY <3>1
      <4>2. h[i] = Written(g[m], s[m + 1])
        BY <3>1
      <4> QED BY <2>2, <3>1, <4>1, <4>2
    <3>2. CASE i # m + 1
      <4>1. i \in 0 .. m /\ (i # 0 => i - 1 \in 0 .. m)
        BY <3>2
      <4>2. g[i] = IF i = 0 THEN Emits(c, <<>>) ELSE Written(g[i - 1], s[i])
        BY <2>1, <4>1 DEF WrittenBy
      <4> HIDE DEF h
      <4> QED BY <2>2, <4>1, <4>2
    <3> QED BY <3>1, <3>2
  <2>4. h = [i \in 0 .. m + 1 |-> h[i]]
    OBVIOUS
  <2> HIDE DEF h
  <2>5. WrittenBy(c, s, m + 1, h)
    BY <2>3, <2>4 DEF WrittenBy
  <2> QED BY <2>5
<1>3. S \in SUBSET Nat
  OBVIOUS
<1> HIDE DEF S
<1>4. \A i \in 0 .. n : i \in S
  BY <1>1, <1>2, <1>3, Induction
<1> QED BY <1>4 DEF S

\* A pipeline has two converters at most.
LEMMA PassedExists ==
  ASSUME NEW conv_, NEW s, NEW n \in 0 .. 2 PROVE \E g : PassedBy(conv_, s, n, g)
<1> DEFINE h(i) == IF i = 0 THEN Emits(conv_, s)
                   ELSE IF i = 1 THEN PassOn(Emits(conv_, s), 1)
                   ELSE PassOn(PassOn(Emits(conv_, s), 1), 2)
           g == [i \in 0 .. n |-> h(i)]
<1>1. ASSUME NEW i \in 0 .. n
      PROVE  h(i) = IF i = 0 THEN Emits(conv_, s) ELSE PassOn(g[i - 1], i)
  <2>1. i = 0 \/ i = 1 \/ i = 2
    OBVIOUS
  <2>2. CASE i = 0
    BY <2>2
  <2>3. CASE i = 1
    <3>1. g[0] = Emits(conv_, s) /\ i - 1 = 0
      BY <2>3
    <3> QED BY <2>3, <3>1
  <2>4. CASE i = 2
    <3>1. g[1] = PassOn(Emits(conv_, s), 1) /\ i - 1 = 1
      BY <2>4
    <3> HIDE DEF g
    <3> QED BY <2>4, <3>1
  <2> QED BY <2>1, <2>2, <2>3, <2>4
<1>2. g = [i \in 0 .. n |-> IF i = 0 THEN Emits(conv_, s) ELSE PassOn(g[i - 1], i)]
  <2>1. g = [i \in 0 .. n |-> h(i)]
    OBVIOUS
  <2> HIDE DEF g, h
  <2> QED BY <1>1, <2>1
<1> QED BY <1>2 DEF PassedBy

\* What the functions compute, value by value.
LEMMA FedIs ==
  ASSUME NEW a, NEW s, Len(s) \in Nat
  PROVE  \E g : /\ Feed(a, s) = g[Len(s)] /\ g[0] = a
                /\ \A i \in 1 .. Len(s) : g[i] = FeedOne(g[i - 1], s[i])
<1> DEFINE g == CHOOSE f : FedBy(a, s, Len(s), f)
<1>1. FedBy(a, s, Len(s), g)
  BY FedExists
<1>2. Feed(a, s) = g[Len(s)]
  BY DEF Feed, FedBy
<1> HIDE DEF g
<1>3. g[0] = a
  BY <1>1 DEF FedBy
<1>4. \A i \in 1 .. Len(s) : g[i] = FeedOne(g[i - 1], s[i])
  BY <1>1 DEF FedBy
<1> QED BY <1>2, <1>3, <1>4

LEMMA WrittenIs ==
  ASSUME NEW c, NEW s, Len(s) \in Nat
  PROVE  \E g : /\ WriteStep(c, s) = g[Len(s)] /\ g[0] = Emits(c, <<>>)
                /\ \A i \in 1 .. Len(s) : g[i] = Written(g[i - 1], s[i])
<1> DEFINE g == CHOOSE f : WrittenBy(c, s, Len(s), f)
<1>1. WrittenBy(c, s, Len(s), g)
  BY WrittenExists
<1>2. WriteStep(c, s) = g[Len(s)]
  BY DEF WriteStep, WrittenBy
<1> HIDE DEF g
<1>3. g[0] = Emits(c, <<>>)
  BY <1>1 DEF WrittenBy
<1>4. \A i \in 1 .. Len(s) : g[i] = Written(g[i - 1], s[i])
  BY <1>1 DEF WrittenBy
<1> QED BY <1>2, <1>3, <1>4

LEMMA PassedIs ==
  ASSUME NEW conv_, NEW s, Len(conv_) \in 0 .. 2
  PROVE  /\ Len(conv_) = 0 => WriteAll(conv_, s) = Emits(conv_, s)
         /\ Len(conv_) = 1 => WriteAll(conv_, s) = PassOn(Emits(conv_, s), 1)
         /\ Len(conv_) = 2 => WriteAll(conv_, s) = PassOn(PassOn(Emits(conv_, s), 1), 2)
<1> DEFINE g == CHOOSE f : PassedBy(conv_, s, Len(conv_), f)
<1>1. PassedBy(conv_, s, Len(conv_), g)
  BY PassedExists
<1>2. WriteAll(conv_, s) = g[Len(conv_)]
  BY DEF WriteAll, PassedBy
<1> HIDE DEF g
<1>3. g[0] = Emits(conv_, s)
  BY <1>1 DEF PassedBy
<1>4. \A i \in 1 .. Len(conv_) : g[i] = PassOn(g[i - 1], i)
  BY <1>1 DEF PassedBy
<1>5. Len(conv_) >= 1 => g[1] = PassOn(g[0], 1)
  BY <1>4
<1>6. Len(conv_) = 2 => g[2] = PassOn(g[1], 2)
  BY <1>4
<1>7. Len(conv_) = 0 => WriteAll(conv_, s) = Emits(conv_, s)
  BY <1>2, <1>3
<1>8. Len(conv_) = 1 => WriteAll(conv_, s) = PassOn(Emits(conv_, s), 1)
  BY <1>2, <1>3, <1>5
<1>9. Len(conv_) = 2 => WriteAll(conv_, s) = PassOn(PassOn(Emits(conv_, s), 1), 2)
  BY <1>2, <1>3, <1>5, <1>6
<1> QED BY <1>7, <1>8, <1>9

---------------------------------------------------------------------------
(* What a dialect says.                                                    *)

\* The events that may carry usage, and those behind which the reply is whole
\* and no usage follows.  "whole" is what a Messages reply is turned into: the
\* Responses dialect without its incomplete replies.
Reporters(d) ==
  CASE d = "messages" -> {"message_delta"}
    [] d = "whole" -> {"response.completed"}
    [] d = "responses" -> {"response.completed", "response.incomplete"}
    [] OTHER -> {"usage"}
Concluding(d) ==
  CASE d = "messages" -> {"message_stop"}
    [] d = "whole" -> {"response.completed"}
    [] d = "responses" -> {"response.completed", "response.incomplete"}
    [] OTHER -> {"usage", "[DONE]"}
Failures == {"error", "response.failed"}

MaySpeak(d, e) ==
  /\ e.u \in BOOLEAN /\ (e.u => e.t \in Reporters(d))
  /\ Terminal(e) => e.t \in Concluding(d) \cup Failures
Spoken(d, s) == IsSeq(s) /\ \A j \in 1 .. Len(s) : MaySpeak(d, s[j])

Used(s) == \E j \in 1 .. Len(s) : s[j].u
Over(s) == \E j \in 1 .. Len(s) : Terminal(s[j])
Tidy(s) == \A j \in 1 .. Len(s) : Terminal(s[j]) => j = Len(s)
SettledBy(d, s) ==
  \A j, k \in 1 .. Len(s) : j < k /\ s[j].t \in Concluding(d) => ~s[k].u
Concludes(d, s) == \E j \in 1 .. Len(s) : s[j].t \in Concluding(d)

\* Neither usage nor an end.
Quiet(s) == IsSeq(s) /\ \A j \in 1 .. Len(s) : s[j].u = FALSE /\ ~Terminal(s[j])

LEMMA TerminalMeans ==
  ASSUME NEW e
  PROVE  /\ Terminal(e) <=> Ends(e) \/ ProtocolError(e)
         /\ ProtocolError(e) => e.t \in Failures /\ ~ProducesOutput(e)
  BY DEF Terminal, Ends, TerminalOf, ProtocolError, Failures, ProducesOutput

LEMMA ReportersEndNothing ==
  ASSUME NEW d, NEW e, MaySpeak(d, e), e.u PROVE ~ProtocolError(e)
  BY DEF MaySpeak, Reporters, ProtocolError

LEMMA OverIs ==
  ASSUME NEW s, IsSeq(s), Tidy(s)
  PROVE  Over(s) <=> s # <<>> /\ Terminal(s[Len(s)])
<1>1. Len(s) \in Nat /\ (s # <<>> <=> Len(s) # 0)
  BY EmptyIs DEF IsSeq
<1>2. ASSUME Over(s) PROVE s # <<>> /\ Terminal(s[Len(s)])
  BY <1>1, <1>2 DEF Over, Tidy
<1>3. ASSUME s # <<>>, Terminal(s[Len(s)]) PROVE Over(s)
  BY <1>1, <1>3 DEF Over
<1> QED BY <1>2, <1>3

LEMMA SilentNothing ==
  /\ IsSeq(<<>>) /\ Quiet(<<>>) /\ Tidy(<<>>) /\ ~Over(<<>>) /\ ~Used(<<>>)
  /\ \A d : Spoken(d, <<>>) /\ SettledBy(d, <<>>) /\ ~Concludes(d, <<>>)
<1>1. IsSeq(<<>>) /\ 1 .. Len(<<>>) = {}
  BY NothingSaid
<1> QED BY <1>1 DEF Quiet, Tidy, Over, Used, Spoken, SettledBy, Concludes

\* The parts of a concatenation and the whole.
LEMMA JoinedSays ==
  ASSUME NEW s, NEW t, IsSeq(s), IsSeq(t)
  PROVE  /\ IsSeq(s \o t)
         /\ Used(s \o t) <=> Used(s) \/ Used(t)
         /\ Over(s \o t) <=> Over(s) \/ Over(t)
         /\ \A d : Concludes(d, s \o t) <=> Concludes(d, s) \/ Concludes(d, t)
         /\ \A d : Spoken(d, s) /\ Spoken(d, t) => Spoken(d, s \o t)
         /\ ~Over(s) /\ Tidy(t) => Tidy(s \o t)
         /\ Quiet(s) /\ Quiet(t) => Quiet(s \o t)
         /\ \A d : SettledBy(d, s) /\ SettledBy(d, t) /\ (Concludes(d, s) => ~Used(t))
                     => SettledBy(d, s \o t)
<1> DEFINE w == s \o t
           m == Len(s)
           n == Len(t)
<1>1. /\ IsSeq(w) /\ Len(w) = m + n /\ m \in Nat /\ n \in Nat
      /\ \A j \in 1 .. m : j \in 1 .. Len(w) /\ w[j] = s[j]
      /\ \A j \in 1 .. n : m + j \in 1 .. Len(w) /\ w[m + j] = t[j]
  BY Joined DEF IsSeq
<1>2. \A j \in 1 .. Len(w) :
        \/ j \in 1 .. m /\ w[j] = s[j]
        \/ j - m \in 1 .. n /\ w[j] = t[j - m]
  BY Halves
<1> HIDE DEF w, m, n
<1>3. Used(w) <=> (\E j \in 1 .. m : s[j].u) \/ (\E j \in 1 .. n : t[j].u)
  BY <1>1, <1>2 DEF Used
<1>4. Over(w) <=> (\E j \in 1 .. m : Terminal(s[j])) \/ (\E j \in 1 .. n : Terminal(t[j]))
  BY <1>1, <1>2 DEF Over
<1>5. ASSUME NEW d
      PROVE  Concludes(d, w) <=> \/ \E j \in 1 .. m : s[j].t \in Concluding(d)
                                 \/ \E j \in 1 .. n : t[j].t \in Concluding(d)
  BY <1>1, <1>2 DEF Concludes
<1>6. ASSUME NEW d, \A j \in 1 .. m : MaySpeak(d, s[j]), \A j \in 1 .. n : MaySpeak(d, t[j])
      PROVE  Spoken(d, w)
  BY <1>1, <1>2, <1>6 DEF Spoken
<1>7. ASSUME ~\E j \in 1 .. m : Terminal(s[j]),
             \A j \in 1 .. n : Terminal(t[j]) => j = n
      PROVE  Tidy(w)
  BY <1>1, <1>2, <1>7 DEF Tidy
<1>8. ASSUME \A j \in 1 .. m : s[j].u = FALSE /\ ~Terminal(s[j]),
             \A j \in 1 .. n : t[j].u = FALSE /\ ~Terminal(t[j])
      PROVE  Quiet(w)
  <2>1. ASSUME NEW j \in 1 .. Len(w) PROVE w[j].u = FALSE /\ ~Terminal(w[j])
    <3>1. CASE j \in 1 .. m /\ w[j] = s[j]
      BY <1>8, <3>1
    <3>2. CASE j - m \in 1 .. n /\ w[j] = t[j - m]
      BY <1>8, <3>2
    <3> QED BY <1>2, <3>1, <3>2
  <2> QED BY <1>1, <2>1 DEF Quiet
<1>9. ASSUME NEW d,
             \A j, k \in 1 .. m : j < k /\ s[j].t \in Concluding(d) => ~s[k].u,
             \A j, k \in 1 .. n : j < k /\ t[j].t \in Concluding(d) => ~t[k].u,
             (\E j \in 1 .. m : s[j].t \in Concluding(d)) => ~\E k \in 1 .. n : t[k].u
      PROVE  SettledBy(d, w)
  <2> SUFFICES ASSUME NEW j \in 1 .. Len(w), NEW k \in 1 .. Len(w),
                      j < k, w[j].t \in Concluding(d)
               PROVE  ~w[k].u
    BY DEF SettledBy
  <2>1. CASE k \in 1 .. m /\ w[k] = s[k]
    <3>1. j \in 1 .. m
      BY <1>1, <2>1
    <3> QED BY <1>1, <1>9, <2>1, <3>1
  <2>2. CASE k - m \in 1 .. n /\ w[k] = t[k - m]
    <3>1. CASE j \in 1 .. m /\ w[j] = s[j]
      BY <1>9, <2>2, <3>1
    <3>2. CASE j - m \in 1 .. n /\ w[j] = t[j - m]
      <4>1. j - m < k - m
        BY <1>1
      <4> QED BY <1>9, <2>2, <3>2, <4>1
    <3> QED BY <1>2, <3>1, <3>2
  <2> QED BY <1>2, <2>1, <2>2
<1>10. Used(w) <=> Used(s) \/ Used(t)
  BY <1>3 DEF Used, m, n
<1>11. Over(w) <=> Over(s) \/ Over(t)
  BY <1>4 DEF Over, m, n
<1>12. \A d : Concludes(d, w) <=> Concludes(d, s) \/ Concludes(d, t)
  BY <1>5 DEF Concludes, m, n
<1>13. \A d : Spoken(d, s) /\ Spoken(d, t) => Spoken(d, w)
  BY <1>6 DEF Spoken, m, n
<1>14. ~Over(s) /\ Tidy(t) => Tidy(w)
  BY <1>7 DEF Over, Tidy, m, n
<1>15. Quiet(s) /\ Quiet(t) => Quiet(w)
  BY <1>8 DEF Quiet, m, n
<1>16. \A d : SettledBy(d, s) /\ SettledBy(d, t) /\ (Concludes(d, s) => ~Used(t)) => SettledBy(d, w)
  BY <1>9 DEF SettledBy, Concludes, Used, m, n
<1>17. IsSeq(w)
  BY <1>1
<1> QED
  BY <1>10, <1>11, <1>12, <1>13, <1>14, <1>15, <1>16, <1>17 DEF w

\* The usage of an event that a converter reads.
Noted(c, e) == e.u /\ ~(c.name = "r2c" /\ e.t = "response.incomplete")
Noting(c, s) == \E j \in 1 .. Len(s) : Noted(c, s[j])

LEMMA NotingIsUse ==
  ASSUME NEW c, NEW s PROVE Noting(c, s) => Used(s)
  BY DEF Noting, Noted, Used

LEMMA JoinedNotes ==
  ASSUME NEW c, NEW s, NEW t, IsSeq(s), IsSeq(t)
  PROVE  Noting(c, s \o t) <=> Noting(c, s) \/ Noting(c, t)
<1> DEFINE w == s \o t
           m == Len(s)
           n == Len(t)
<1>1. /\ \A j \in 1 .. m : j \in 1 .. Len(w) /\ w[j] = s[j]
      /\ \A j \in 1 .. n : m + j \in 1 .. Len(w) /\ w[m + j] = t[j]
  BY Joined DEF IsSeq
<1>2. \A j \in 1 .. Len(w) :
        \/ j \in 1 .. m /\ w[j] = s[j]
        \/ j - m \in 1 .. n /\ w[j] = t[j - m]
  BY Halves
<1> HIDE DEF w, m, n
<1>3. Noting(c, w) <=> (\E j \in 1 .. m : Noted(c, s[j])) \/ (\E j \in 1 .. n : Noted(c, t[j]))
  BY <1>1, <1>2 DEF Noting
<1> QED BY <1>3 DEF Noting, w, m, n

LEMMA QuietSays ==
  ASSUME NEW s, Quiet(s)
  PROVE  /\ IsSeq(s) /\ ~Used(s) /\ ~Over(s) /\ Tidy(s)
         /\ \A d : Spoken(d, s) /\ SettledBy(d, s)
  BY DEF Quiet, Used, Over, Tidy, Spoken, SettledBy, MaySpeak

LEMMA Singly ==
  ASSUME NEW a
  PROVE  /\ IsSeq(<<a>>) /\ Tidy(<<a>>)
         /\ Used(<<a>>) <=> a.u
         /\ Over(<<a>>) <=> Terminal(a)
         /\ \A d : /\ SettledBy(d, <<a>>)
                   /\ Concludes(d, <<a>>) <=> a.t \in Concluding(d)
                   /\ MaySpeak(d, a) => Spoken(d, <<a>>)
         /\ a.u = FALSE /\ ~Terminal(a) => Quiet(<<a>>)
<1>1. /\ IsSeq(<<a>>) /\ Len(<<a>>) = 1 /\ <<a>>[1] = a /\ 1 \in 1 .. 1
      /\ \A j \in 1 .. 1 : j = 1
  BY Single
<1> DEFINE s == <<a>>
<1>2. IsSeq(s) /\ Len(s) = 1 /\ s[1] = a
  BY <1>1
<1> HIDE DEF s
<1>3. /\ Tidy(s) /\ (Used(s) <=> a.u) /\ (Over(s) <=> Terminal(a))
      /\ a.u = FALSE /\ ~Terminal(a) => Quiet(s)
  BY <1>2 DEF Tidy, Used, Over, Quiet
<1>4. \A d : /\ SettledBy(d, s)
             /\ Concludes(d, s) <=> a.t \in Concluding(d)
             /\ MaySpeak(d, a) => Spoken(d, s)
  BY <1>2 DEF SettledBy, Concludes, Spoken
<1> QED BY <1>2, <1>3, <1>4 DEF s

LEMMA PairIs == ASSUME NEW a, NEW b PROVE <<a, b>> = <<a>> \o <<b>>
<1>1. <<a, b>> = [j \in 1 .. 2 |-> IF j = 1 THEN a ELSE b]
  OBVIOUS
<1>2. /\ IsSeq(<<a>> \o <<b>>) /\ Len(<<a>> \o <<b>>) = 2
      /\ (<<a>> \o <<b>>)[1] = a /\ (<<a>> \o <<b>>)[2] = b
  BY Single, Joined
<1>3. \A j \in 1 .. 2 : j = 1 \/ j = 2
  OBVIOUS
<1>4. <<a>> \o <<b>> = [j \in 1 .. 2 |-> (<<a>> \o <<b>>)[j]]
  BY <1>2 DEF IsSeq
<1> QED BY <1>1, <1>2, <1>3, <1>4

LEMMA TripleIs == ASSUME NEW a, NEW b, NEW c PROVE <<a, b, c>> = <<a, b>> \o <<c>>
  OBVIOUS

LEMMA QuietPair ==
  ASSUME NEW a, NEW b, a.u = FALSE, ~Terminal(a), b.u = FALSE, ~Terminal(b)
  PROVE  Quiet(<<a, b>>)
<1>1. Quiet(<<a>>) /\ Quiet(<<b>>) /\ IsSeq(<<a>>) /\ IsSeq(<<b>>)
  BY Singly
<1>2. Quiet(<<a>> \o <<b>>)
  BY <1>1, JoinedSays
<1> QED BY <1>2, PairIs

LEMMA QuietTriple ==
  ASSUME NEW a, NEW b, NEW c, a.u = FALSE, ~Terminal(a), b.u = FALSE, ~Terminal(b),
         c.u = FALSE, ~Terminal(c)
  PROVE  Quiet(<<a, b, c>>)
<1>1. Quiet(<<a, b>>) /\ Quiet(<<c>>) /\ IsSeq(<<a, b>>) /\ IsSeq(<<c>>)
  BY QuietPair, Singly, QuietSays
<1> QED BY <1>1, JoinedSays, TripleIs

\* The last words of a stream.
LEMMA LastWords ==
  ASSUME NEW d, NEW s, NEW e, Quiet(s), MaySpeak(d, e), Terminal(e)
  PROVE  /\ Spoken(d, s \o <<e>>) /\ Tidy(s \o <<e>>)
         /\ Used(s \o <<e>>) <=> e.u
<1>1. Spoken(d, <<e>>) /\ Tidy(<<e>>) /\ (Used(<<e>>) <=> e.u) /\ IsSeq(<<e>>)
  BY Singly
<1>2. Spoken(d, s) /\ ~Over(s) /\ ~Used(s) /\ IsSeq(s)
  BY QuietSays
<1> QED BY <1>1, <1>2, JoinedSays

---------------------------------------------------------------------------
(* The invariant.                                                          *)

\* A converter that has not failed: what it reads, what it writes, and the
\* usage it has gathered and not yet passed on.
From(c) ==
  CASE c.name = "m2r" -> "messages" [] c.name = "c2r" -> "chat" [] OTHER -> "responses"
To(c) ==
  CASE c.name = "r2m" -> "messages" [] c.name = "r2c" -> "chat" [] OTHER -> "responses"
Keeps(c) == c.name \in {"m2r", "c2r"} /\ ~c.terminal /\ c.usage

Works(c) ==
  /\ c.name \in {"m2r", "r2m", "c2r", "r2c"}
  /\ {"name", "terminal"} \subseteq DOMAIN c /\ c.terminal \in BOOLEAN
  /\ c.name = "m2r" => /\ {"created", "item", "kind", "usage", "stop"} \subseteq DOMAIN c
                       /\ c.usage \in BOOLEAN
  /\ c.name = "r2m" => {"started", "kind", "block", "open", "stopped"} \subseteq DOMAIN c
  /\ c.name = "c2r" => /\ {"started", "message", "next", "calls", "finish", "usage", "err"}
                             \subseteq DOMAIN c
                       /\ c.usage \in BOOLEAN /\ c.err = FALSE /\ IsSeq(c.calls)
  /\ c.name = "r2c" => /\ {"messages", "calls", "usage"} \subseteq DOMAIN c
                       /\ c.usage \in BOOLEAN /\ (~c.terminal => ~c.usage)

\* The pipeline of a reply from dialect u to dialect c.  The second converter
\* ends only when the first has.
Pipe(u, c, cs) ==
  /\ cs = <<>> \/ cs = <<cs[1]>> \/ cs = <<cs[1], cs[2]>>
  /\ cs = <<>> => u = c
  /\ cs # <<>> => Works(cs[1]) /\ From(cs[1]) = u
  /\ Len(cs) = 1 => To(cs[1]) = c
  /\ Len(cs) = 2 => /\ Works(cs[2]) /\ To(cs[2]) = c
                    /\ cs[1].name \in {"m2r", "c2r"} /\ cs[2].name \in {"r2m", "r2c"}
                    /\ cs[2].terminal => cs[1].terminal
                    /\ u # c

\* Nothing further comes out of the pipeline.
Closed == IF conv = <<>> THEN unread = <<>> /\ src.stage = "ended"
          ELSE conv[Len(conv)].terminal

Good(t) == t \in {"", "completed", "incomplete", "message_stop"}
Mark(e) == IF ProtocolError(e) THEN "error" ELSE TerminalOf(e)
Marks == {"", "completed", "incomplete", "failed", "message_stop", "error"}
Acc == [done : BOOLEAN, terminal : Marks, errored : BOOLEAN, output : BOOLEAN,
        usage : BOOLEAN]

Staged(u, s) ==
  /\ s.whole \/ s.usage => s.stage \in {"stop", "ended"}
  /\ s.stage = "usage" => u = "chat"
  /\ s.stage = "stop" => u \in {"messages", "chat"}

SrcInv ==
  /\ up \in Dialects /\ client \in Dialects
  /\ {"stage", "items", "open", "tokens", "whole", "usage", "short"} \subseteq DOMAIN src
  /\ src.whole \in BOOLEAN /\ src.usage \in BOOLEAN /\ Staged(up, src)

WireInv ==
  /\ Spoken(up, unread) /\ Tidy(unread) /\ SettledBy(up, unread)
  /\ Over(unread) => src.stage = "ended"
  /\ Concludes(up, unread) => src.whole

ConvInv ==
  failure # "conversion" =>
    /\ Pipe(up, client, conv)
    /\ conv # <<>> /\ conv[1].terminal => src.whole /\ ~Used(unread)

GateInv ==
  /\ Spoken(client, pending) /\ Tidy(pending)
  /\ committed \in BOOLEAN /\ acc \in Acc
  /\ acc.errored => acc.done /\ acc.terminal = "error"
  /\ committed => pending = <<>> /\ acc.output
  /\ ~committed => /\ got = <<>>
                   /\ \A j \in 1 .. Len(pending) : ~ProducesOutput(pending[j])
                   /\ verdict = "" => acc = NewAccumulator

\* The usage on the wire that will be read.
OnWire(s) == IF conv = <<>> THEN Used(s) ELSE Noting(conv[1], s)

EndInv ==
  verdict = "" /\ failure # "conversion" =>
    /\ acc.done \/ Over(pending) => Closed
    /\ conv = <<>> /\ Successful(acc) => src.whole
    /\ UsageTold <=> \/ OnWire(unread) \/ Used(pending) \/ acc.usage
                     \/ conv # <<>> /\ Keeps(conv[1])

GotInv ==
  /\ IsSeq(got) /\ Tidy(got)
  /\ failure = "write" => ~Over(got)
  /\ failure = "gone" => ~begun
  /\ committed /\ failure # "write" =>
       /\ acc.done <=> Over(got)
       /\ acc.done => acc.terminal = Mark(got[Len(got)])

RelayInv == /\ SrcInv /\ WireInv /\ ConvInv /\ GateInv /\ EndInv /\ GotInv
            /\ VerdictJust

---------------------------------------------------------------------------
(* The accumulator.                                                        *)

FedOnce(a, e, f) ==
  /\ f \in Acc
  /\ f.done <=> Terminal(e)
  /\ f.output <=> a.output \/ ProducesOutput(e)
  /\ f.usage <=> a.usage \/ e.u
  /\ f.errored => f.done /\ f.terminal = "error"
  /\ f.done => f.terminal = Mark(e)

LEMMA OneFed ==
  ASSUME NEW d, NEW a \in Acc, ~a.done, ~a.errored, NEW e, MaySpeak(d, e)
  PROVE  FedOnce(a, e, FeedOne(a, e))
<1>1. CASE ProtocolError(e)
  <2>1. FeedOne(a, e) = [a EXCEPT !.done = TRUE, !.errored = TRUE, !.terminal = "error"]
    BY <1>1 DEF FeedOne
  <2>2. Terminal(e) /\ ~ProducesOutput(e)
    BY <1>1, TerminalMeans
  <2>3. ~e.u
    BY <1>1, ReportersEndNothing
  <2>4. Mark(e) = "error"
    BY <1>1 DEF Mark
  <2> DEFINE f == [a EXCEPT !.done = TRUE, !.errored = TRUE, !.terminal = "error"]
  <2>5. /\ f \in Acc /\ f.done = TRUE /\ f.terminal = "error"
        /\ f.output = a.output /\ f.usage = a.usage
    <3>1. f \in Acc
      BY DEF Acc, Marks
    <3>2. f.done = TRUE /\ f.terminal = "error" /\ f.output = a.output
      BY DEF Acc
    <3>3. f.usage = a.usage
      BY DEF Acc
    <3> QED BY <3>1, <3>2, <3>3
  <2> HIDE DEF f
  <2> QED BY <2>1, <2>2, <2>3, <2>4, <2>5 DEF FedOnce, f
<1>2. CASE ~ProtocolError(e)
  <2> DEFINE f == [a EXCEPT !.done = Ends(e), !.terminal = TerminalOf(e),
                            !.output = @ \/ ProducesOutput(e), !.usage = @ \/ e.u]
  <2>1. FeedOne(a, e) = f
    BY <1>2 DEF FeedOne
  <2>2. Ends(e) \in BOOLEAN /\ TerminalOf(e) \in Marks
    BY DEF Ends, TerminalOf, Marks
  <2>3. f \in Acc
    <3>1. (a.output \/ ProducesOutput(e)) \in BOOLEAN /\ (a.usage \/ e.u) \in BOOLEAN
      OBVIOUS
    <3> QED BY <2>2, <3>1 DEF Acc
  <2>4. /\ f.done = Ends(e) /\ f.terminal = TerminalOf(e) /\ f.errored = a.errored
        /\ f.output = (a.output \/ ProducesOutput(e)) /\ f.usage = (a.usage \/ e.u)
    BY DEF Acc
  <2>5. (Terminal(e) <=> Ends(e)) /\ Mark(e) = TerminalOf(e)
    BY <1>2, TerminalMeans DEF Mark
  <2> HIDE DEF f
  <2> QED BY <2>1, <2>3, <2>4, <2>5 DEF FedOnce
<1> QED BY <1>1, <1>2

FedAll(a, s, m, f) ==
  /\ f \in Acc
  /\ f.done <=> \E j \in 1 .. m : Terminal(s[j])
  /\ f.output <=> a.output \/ \E j \in 1 .. m : ProducesOutput(s[j])
  /\ f.usage <=> a.usage \/ \E j \in 1 .. m : s[j].u
  /\ f.errored => f.done /\ f.terminal = "error"
  /\ f.done => f.terminal = Mark(s[m])

\* What the accumulator makes of a tidy sequence, of any length.
LEMMA AllFed ==
  ASSUME NEW d, NEW a \in Acc, ~a.done, ~a.errored, NEW s, Spoken(d, s), Tidy(s)
  PROVE  FedAll(a, s, Len(s), Feed(a, s))
<1>1. Len(s) \in Nat
  BY DEF Spoken, IsSeq
<1>2. PICK g : /\ Feed(a, s) = g[Len(s)] /\ g[0] = a
               /\ \A i \in 1 .. Len(s) : g[i] = FeedOne(g[i - 1], s[i])
  BY <1>1, FedIs
<1> DEFINE S == {m \in Nat : FedAll(a, s, m, g[m])}
<1>3. 0 \in S
  BY <1>2 DEF FedAll
<1>4. ASSUME NEW m \in Nat, m \in S, m < Len(s) PROVE m + 1 \in S
  <2>1. /\ m + 1 \in 1 .. Len(s) /\ (m + 1) - 1 = m
        /\ \A j \in 1 .. m + 1 : j \in 1 .. m \/ j = m + 1
        /\ \A j \in 1 .. m : j \in 1 .. m + 1 /\ j \in 1 .. Len(s) /\ j # Len(s)
        /\ m + 1 \in 1 .. m + 1
    BY <1>1, <1>4
  <2>2. FedAll(a, s, m, g[m])
    BY <1>4
  <2>3. ~\E j \in 1 .. m : Terminal(s[j])
    BY <2>1 DEF Tidy
  <2>4. g[m] \in Acc /\ ~g[m].done /\ ~g[m].errored
    BY <2>2, <2>3 DEF FedAll
  <2>5. MaySpeak(d, s[m + 1])
    BY <2>1 DEF Spoken
  <2>6. g[m + 1] = FeedOne(g[m], s[m + 1])
    BY <1>2, <2>1
  <2>7. FedOnce(g[m], s[m + 1], g[m + 1])
    BY <2>4, <2>5, <2>6, OneFed
  <2>8. g[m + 1] \in Acc
    BY <2>7 DEF FedOnce
  <2>9. g[m + 1].done <=> \E j \in 1 .. m + 1 : Terminal(s[j])
    BY <2>1, <2>3, <2>7 DEF FedOnce
  <2>10. g[m + 1].output <=> a.output \/ \E j \in 1 .. m + 1 : ProducesOutput(s[j])
    BY <2>1, <2>2, <2>7 DEF FedOnce, FedAll
  <2>11. g[m + 1].usage <=> a.usage \/ \E j \in 1 .. m + 1 : s[j].u
    BY <2>1, <2>2, <2>7 DEF FedOnce, FedAll
  <2>12. /\ g[m + 1].errored => g[m + 1].done /\ g[m + 1].terminal = "error"
         /\ g[m + 1].done => g[m + 1].terminal = Mark(s[m + 1])
    BY <2>7 DEF FedOnce
  <2> QED BY <2>8, <2>9, <2>10, <2>11, <2>12 DEF FedAll
<1>5. S \in SUBSET Nat
  OBVIOUS
<1> HIDE DEF S
<1>6. \A i \in 0 .. Len(s) : i \in S
  BY <1>1, <1>3, <1>4, <1>5, Induction
<1>7. Len(s) \in S
  BY <1>1, <1>6
<1> QED BY <1>2, <1>7 DEF S

---------------------------------------------------------------------------
(* One event through one converter.                                        *)

Stepped(c, e, s) ==
  /\ Works(s.c) /\ s.c.name = c.name
  /\ Spoken(To(c), s.out) /\ Tidy(s.out)
  /\ c.terminal => s.out = <<>> /\ s.c = c
  /\ Over(s.out) => s.c.terminal
  /\ ~c.terminal /\ s.c.terminal => e.t \in Concluding(From(c))
  /\ c.name = "m2r" => Spoken("whole", s.out)
  /\ (c.terminal => ~e.u) => (Keeps(c) \/ Noted(c, e) <=> Keeps(s.c) \/ Used(s.out))

\* A converter that has ended ignores what follows.
LEMMA EndedStep ==
  ASSUME NEW c, NEW e, Works(c), c.terminal
  PROVE  Stepped(c, e, Emits(c, <<>>))
  BY SilentNothing DEF Stepped, Emits, Keeps, Noted

\* A step that neither gathers usage nor ends the stream.
LEMMA StillStep ==
  ASSUME NEW c, NEW e, NEW d, NEW out, Works(d), d.name = c.name, ~c.terminal, ~d.terminal,
         Keeps(d) <=> Keeps(c), Quiet(out), ~e.u
  PROVE  Stepped(c, e, Emits(d, out))
  BY QuietSays DEF Stepped, Emits, Noted

\* A step that ends the stream and passes the usage on.
LEMMA EndStep ==
  ASSUME NEW c, NEW e, NEW d, NEW out, Works(d), d.name = c.name, ~c.terminal, d.terminal,
         Spoken(To(c), out), Tidy(out), e.t \in Concluding(From(c)),
         c.name = "m2r" => Spoken("whole", out),
         Used(out) <=> Keeps(c) \/ Noted(c, e)
  PROVE  Stepped(c, e, Emits(d, out))
  BY DEF Stepped, Emits, Keeps

LEMMA JoinedSpoken ==
  ASSUME NEW d, NEW s, NEW t, Spoken(d, s), Spoken(d, t), ~Over(s)
  PROVE  /\ Spoken(d, s \o t) /\ (Tidy(t) => Tidy(s \o t))
         /\ Used(s \o t) <=> Used(s) \/ Used(t)
         /\ Over(s \o t) <=> Over(t)
<1>1. IsSeq(s) /\ IsSeq(t)
  BY DEF Spoken
<1> QED BY <1>1, JoinedSays

LEMMA QuietOne ==
  ASSUME NEW a, a.u = FALSE, ~Terminal(a) PROVE Quiet(<<a>>)
  BY Singly

\* Events of the converters that are neither usage nor an end.
LEMMA Words ==
  ASSUME NEW t, NEW i, NEW k, NEW n,
         t \notin {"message_stop", "response.completed", "response.incomplete",
                   "response.failed", "[DONE]", "error"}
  PROVE  /\ Ev(t, i, k, n, FALSE).u = FALSE /\ ~Terminal(Ev(t, i, k, n, FALSE))
         /\ Of(t, i, k).u = FALSE /\ ~Terminal(Of(t, i, k))
         /\ At(t, i).u = FALSE /\ ~Terminal(At(t, i))
         /\ Plain(t).u = FALSE /\ ~Terminal(Plain(t))
  BY DEF Ev, Of, At, Plain, Terminal

LEMMA M2RStep ==
  ASSUME NEW c, NEW e, Works(c), c.name = "m2r", MaySpeak("messages", e), ~M2R(c, e).err
  PROVE  Stepped(c, e, M2R(c, e))
<1>1. CASE c.terminal
  <2>1. M2R(c, e) = Emits(c, <<>>)
    BY <1>1 DEF M2R
  <2> QED BY <1>1, <2>1, EndedStep
<1>2. CASE ~c.terminal /\ e.t = "message_delta"
  <2> DEFINE d == [c EXCEPT !.stop = e.k, !.usage = @ \/ e.u]
  <2>1. M2R(c, e) = Emits(d, <<>>)
    BY <1>2 DEF M2R
  <2>2. /\ DOMAIN d = DOMAIN c /\ d.name = c.name /\ d.terminal = c.terminal
        /\ d.usage = (c.usage \/ e.u)
    BY <1>2 DEF Works
  <2> HIDE DEF d
  <2>3. (c.usage \/ e.u) \in BOOLEAN
    OBVIOUS
  <2>4. Works(d)
    BY <2>2, <2>3 DEF Works
  <2>5. Keeps(d) <=> Keeps(c) \/ Noted(c, e)
    BY <1>2, <2>2 DEF Keeps, Noted
  <2>6. /\ Spoken(To(c), <<>>) /\ Tidy(<<>>) /\ ~Over(<<>>) /\ ~Used(<<>>)
        /\ Spoken("whole", <<>>)
    BY SilentNothing
  <2>7. Stepped(c, e, Emits(d, <<>>))
    BY <1>2, <2>2, <2>4, <2>5, <2>6 DEF Stepped, Emits
  <2> QED BY <2>1, <2>7
<1>3. CASE ~c.terminal /\ e.t = "message_stop"
  <2> DEFINE d == [c EXCEPT !.terminal = TRUE]
             last == Ev("response.completed", 0, c.stop, 0, c.usage)
  <2>1. M2R(c, e) = Emits(d, <<last>>)
    BY <1>3 DEF M2R
  <2>2. DOMAIN d = DOMAIN c /\ d.name = c.name /\ d.terminal = TRUE /\ d.usage = c.usage
    BY <1>3 DEF Works
  <2>3. last.t = "response.completed" /\ last.u = c.usage
    BY DEF Ev
  <2> HIDE DEF d, last
  <2>4. Works(d)
    BY <2>2 DEF Works
  <2>5. /\ MaySpeak(To(c), last) /\ MaySpeak("whole", last)
        /\ e.t \in Concluding(From(c)) /\ ~Noted(c, e)
    BY <1>3, <2>3 DEF MaySpeak, To, From, Reporters, Concluding, Works, Noted
  <2>6. Keeps(c) <=> c.usage
    BY <1>3 DEF Keeps
  <2> QED BY <1>3, <2>1, <2>2, <2>3, <2>4, <2>5, <2>6, Singly, EndStep
<1>4. CASE ~c.terminal /\ e.t \notin {"message_delta", "message_stop"}
  <2>1. ~e.u
    BY <1>4 DEF MaySpeak, Reporters
  <2>2. PICK d, out : M2R(c, e) = Emits(d, out)
          /\ DOMAIN d = DOMAIN c /\ d.name = c.name /\ d.terminal = c.terminal
          /\ d.usage = c.usage /\ Quiet(out)
    <3>1. CASE e.t = "message_start" /\ ~c.created
      <4>1. M2R(c, e) = Emits([c EXCEPT !.created = TRUE], Preamble)
        BY <1>4, <3>1 DEF M2R
      <4>2. Quiet(Preamble)
        BY QuietPair, Words DEF Preamble
      <4> DEFINE d == [c EXCEPT !.created = TRUE]
      <4>3. /\ DOMAIN d = DOMAIN c /\ d.name = c.name /\ d.terminal = c.terminal
            /\ d.usage = c.usage
        BY DEF Works
      <4> QED BY <4>1, <4>2, <4>3
    <3>2. CASE e.t = "content_block_start"
      <4> DEFINE d == [c EXCEPT !.item = @ + 1, !.kind = e.k]
      <4>1. /\ DOMAIN d = DOMAIN c /\ d.name = c.name /\ d.terminal = c.terminal
            /\ d.usage = c.usage
        BY DEF Works
      <4>2. \/ M2R(c, e) = Emits(d, <<Of("response.output_item.added", d.item, "message"),
                                      At("response.content_part.added", d.item)>>)
            \/ M2R(c, e) = Emits(d, <<Of("response.output_item.added", d.item,
                                         "function_call")>>)
        BY <1>4, <3>2 DEF M2R, Fails
      <4>3. \A i : /\ Quiet(<<Of("response.output_item.added", i, "message"),
                             At("response.content_part.added", i)>>)
                   /\ Quiet(<<Of("response.output_item.added", i, "function_call")>>)
        BY QuietPair, QuietOne, Words
      <4> HIDE DEF d
      <4> QED BY <4>1, <4>2, <4>3
    <3>3. CASE e.t = "content_block_delta"
      <4>1. \/ M2R(c, e) = Emits(c, <<Ev("response.output_text.delta", c.item, "", e.n, FALSE)>>)
            \/ M2R(c, e) = Emits(c, <<Ev("response.function_call_arguments.delta", c.item, "",
                                         e.n, FALSE)>>)
        BY <1>4, <3>3 DEF M2R, Fails
      <4>2. \A i, n : /\ Quiet(<<Ev("response.output_text.delta", i, "", n, FALSE)>>)
                      /\ Quiet(<<Ev("response.function_call_arguments.delta", i, "", n, FALSE)>>)
        BY QuietOne, Words
      <4> QED BY <4>1, <4>2
    <3>4. CASE e.t = "content_block_stop"
      <4>1. \/ M2R(c, e) = Emits(c, <<At("response.output_text.done", c.item),
                                      At("response.content_part.done", c.item),
                                      At("response.output_item.done", c.item)>>)
            \/ M2R(c, e) = Emits(c, <<At("response.function_call_arguments.done", c.item),
                                      At("response.output_item.done", c.item)>>)
        BY <1>4, <3>4 DEF M2R, Fails
      <4>2. \A i : /\ Quiet(<<At("response.output_text.done", i),
                              At("response.content_part.done", i),
                              At("response.output_item.done", i)>>)
                   /\ Quiet(<<At("response.function_call_arguments.done", i),
                              At("response.output_item.done", i)>>)
        BY QuietPair, QuietTriple, Words
      <4> QED BY <4>1, <4>2
    <3>5. CASE e.t \notin {"message_start", "content_block_start", "content_block_delta",
                           "content_block_stop"} \/ (e.t = "message_start" /\ c.created)
      <4>1. M2R(c, e) = Emits(c, <<>>)
        BY <1>4, <3>5 DEF M2R, Fails
      <4> QED BY <4>1, SilentNothing
    <3> QED BY <3>1, <3>2, <3>3, <3>4, <3>5
  <2>3. Works(d) /\ (Keeps(d) <=> Keeps(c)) /\ ~d.terminal
    BY <1>4, <2>2 DEF Works, Keeps
  <2> QED BY <1>4, <2>1, <2>2, <2>3, StillStep
<1> QED BY <1>1, <1>2, <1>3, <1>4

LEMMA R2CStep ==
  ASSUME NEW c, NEW e, Works(c), c.name = "r2c", MaySpeak("responses", e), ~R2C(c, e).err
  PROVE  Stepped(c, e, R2C(c, e))
<1>1. CASE c.terminal
  <2>1. R2C(c, e) = Emits(c, <<>>)
    BY <1>1 DEF R2C
  <2> QED BY <1>1, <2>1, EndedStep
<1>2. CASE ~c.terminal /\ e.t \in {"response.completed", "response.incomplete"}
  <2> DEFINE told == Noted(c, e)
  <2>1. PICK finish : R2C(c, e) = R2CFinish(c, finish, told)
    <3>1. CASE e.t = "response.completed"
      <4>1. told = e.u
        BY <3>1 DEF Noted, MaySpeak
      <4>2. \E f : R2C(c, e) = R2CFinish(c, f, e.u)
        BY <1>2, <3>1 DEF R2C
      <4> QED BY <4>1, <4>2
    <3>2. CASE e.t = "response.incomplete"
      <4>1. told = FALSE
        BY <3>2 DEF Noted
      <4>2. \E f : R2C(c, e) = R2CFinish(c, f, FALSE)
        BY <1>2, <3>2 DEF R2C
      <4> QED BY <4>1, <4>2
    <3> QED BY <1>2, <3>1, <3>2
  <2>0. told \in BOOLEAN
    BY DEF Noted
  <2> HIDE DEF told
  <2> DEFINE d == [c EXCEPT !.terminal = TRUE, !.usage = @ \/ told]
             a == Ev("usage", 0, "", 0, c.usage \/ told)
             b == Of("finish", 0, finish)
             z == Plain("[DONE]")
  <2>2. R2C(c, e) = Emits(d, <<a, b, z>>)
    BY <2>1 DEF R2CFinish
  <2>3. /\ DOMAIN d = DOMAIN c /\ d.name = c.name /\ d.terminal = TRUE
        /\ d.usage = (c.usage \/ told)
    BY <1>2 DEF Works
  <2>4. /\ a.t = "usage" /\ a.u = (c.usage \/ told) /\ b.t = "finish" /\ b.u = FALSE
        /\ z.t = "[DONE]" /\ z.u = FALSE
    BY DEF Ev, Of, Plain
  <2> HIDE DEF d, a, b, z
  <2>5. (c.usage \/ told) \in BOOLEAN /\ (c.usage = FALSE)
    BY <1>2 DEF Works
  <2>6. Works(d)
    BY <2>3, <2>5 DEF Works
  <2>7. MaySpeak("chat", a) /\ MaySpeak("chat", b) /\ MaySpeak("chat", z)
    BY <2>4, <2>5 DEF MaySpeak, Reporters, Concluding, Terminal
  <2>8. /\ Spoken("chat", <<a>>) /\ (Used(<<a>>) <=> told) /\ ~Over(<<a>>) /\ IsSeq(<<a>>)
        /\ Spoken("chat", <<b>>) /\ ~Used(<<b>>) /\ ~Over(<<b>>) /\ IsSeq(<<b>>)
        /\ Spoken("chat", <<z>>) /\ ~Used(<<z>>) /\ Tidy(<<z>>) /\ IsSeq(<<z>>)
    BY <2>4, <2>5, <2>7, Singly DEF Terminal
  <2>9. /\ Spoken("chat", <<a, b>>) /\ (Used(<<a, b>>) <=> told) /\ ~Over(<<a, b>>)
        /\ IsSeq(<<a, b>>)
    <3>1. <<a, b>> = <<a>> \o <<b>>
      BY PairIs
    <3>2. /\ Spoken("chat", <<a>> \o <<b>>) /\ ~Over(<<a>> \o <<b>>)
          /\ Used(<<a>> \o <<b>>) <=> told
      BY <2>8, JoinedSpoken
    <3> QED BY <3>1, <3>2 DEF Spoken
  <2>10. /\ Spoken("chat", <<a, b, z>>) /\ (Used(<<a, b, z>>) <=> told) /\ Tidy(<<a, b, z>>)
    <3>1. <<a, b, z>> = <<a, b>> \o <<z>>
      BY TripleIs
    <3>2. /\ Spoken("chat", <<a, b>> \o <<z>>) /\ Tidy(<<a, b>> \o <<z>>)
          /\ Used(<<a, b>> \o <<z>>) <=> told
      BY <2>8, <2>9, JoinedSpoken
    <3> QED BY <3>1, <3>2
  <2>11. To(c) = "chat" /\ e.t \in Concluding(From(c)) /\ ~Keeps(c)
    BY <1>2 DEF To, From, Concluding, Keeps
  <2>12. Used(<<a, b, z>>) <=> Keeps(c) \/ Noted(c, e)
    BY <2>10, <2>11 DEF told
  <2>13. Spoken(To(c), <<a, b, z>>) /\ Tidy(<<a, b, z>>)
    BY <2>10, <2>11
  <2> QED BY <1>2, <2>2, <2>3, <2>6, <2>11, <2>12, <2>13, EndStep
<1>3. CASE ~c.terminal /\ e.t \notin {"response.completed", "response.incomplete"}
  <2>1. ~e.u
    BY <1>3 DEF MaySpeak, Reporters
  <2>2. PICK d, out : R2C(c, e) = Emits(d, out)
          /\ DOMAIN d = DOMAIN c /\ d.name = c.name /\ d.terminal = c.terminal
          /\ d.usage = c.usage /\ Quiet(out)
    <3>1. CASE e.t = "response.created"
      <4>1. R2C(c, e) = Emits(c, <<Plain("role")>>)
        BY <1>3, <3>1 DEF R2C
      <4>2. Quiet(<<Plain("role")>>)
        BY QuietOne, Words
      <4> QED BY <4>1, <4>2
    <3>2. CASE e.t = "response.output_item.added" /\ e.k = "message"
      <4> DEFINE d == [c EXCEPT !.messages = @ + 1]
      <4>1. R2C(c, e) = Emits(d, <<>>)
        BY <1>3, <3>2 DEF R2C, Fails
      <4>2. /\ DOMAIN d = DOMAIN c /\ d.name = c.name /\ d.terminal = c.terminal
            /\ d.usage = c.usage
        BY DEF Works
      <4> HIDE DEF d
      <4> QED BY <4>1, <4>2, SilentNothing
    <3>3. CASE e.t = "response.output_item.added" /\ e.k = "function_call"
      <4> DEFINE d == [c EXCEPT !.calls = @ \union {e.i}]
      <4>1. R2C(c, e) = Emits(d, <<Of("tool_calls", e.i, "id")>>)
        BY <1>3, <3>3 DEF R2C, Fails
      <4>2. /\ DOMAIN d = DOMAIN c /\ d.name = c.name /\ d.terminal = c.terminal
            /\ d.usage = c.usage
        BY DEF Works
      <4>3. Quiet(<<Of("tool_calls", e.i, "id")>>)
        BY QuietOne, Words
      <4> HIDE DEF d
      <4> QED BY <4>1, <4>2, <4>3
    <3>4. CASE e.t \in {"response.output_text.delta", "response.function_call_arguments.delta"}
      <4>1. \/ R2C(c, e) = Emits(c, <<Ev("content", 0, "", e.n, FALSE)>>)
            \/ R2C(c, e) = Emits(c, <<Ev("tool_calls", e.i, "", e.n, FALSE)>>)
        BY <1>3, <3>4 DEF R2C
      <4>2. /\ Quiet(<<Ev("content", 0, "", e.n, FALSE)>>)
            /\ Quiet(<<Ev("tool_calls", e.i, "", e.n, FALSE)>>)
        BY QuietOne, Words
      <4> QED BY <4>1, <4>2
    <3>5. CASE /\ e.t \notin {"response.created", "response.output_text.delta",
                              "response.function_call_arguments.delta"}
               /\ ~(e.t = "response.output_item.added" /\ e.k \in {"message", "function_call"})
      <4>1. R2C(c, e) = Emits(c, <<>>)
        BY <1>3, <3>5 DEF R2C, Fails
      <4> QED BY <4>1, SilentNothing
    <3> QED BY <3>1, <3>2, <3>3, <3>4, <3>5
  <2>3. Works(d) /\ (Keeps(d) <=> Keeps(c)) /\ ~d.terminal
    BY <1>3, <2>2 DEF Works, Keeps
  <2> QED BY <1>3, <2>1, <2>2, <2>3, StillStep
<1> QED BY <1>1, <1>2, <1>3

LEMMA R2MStep ==
  ASSUME NEW c, NEW e, Works(c), c.name = "r2m", MaySpeak("responses", e), ~R2M(c, e).err
  PROVE  Stepped(c, e, R2M(c, e))
<1>0. ~Keeps(c)
  BY DEF Keeps
<1>1. CASE c.terminal
  <2>1. R2M(c, e) = Emits(c, <<>>)
    BY <1>1 DEF R2M
  <2> QED BY <1>1, <2>1, EndedStep
<1>2. CASE ~c.terminal /\ e.t = "response.completed"
  <2>1. R2M(c, e) = R2MFinish(c, e)
    BY <1>2 DEF R2M
  <2> DEFINE d == [CloseBlock(c) EXCEPT !.terminal = TRUE]
             x == IF c.open /\ ~c.stopped THEN <<At("content_block_stop", c.block)>> ELSE <<>>
             a == Ev("message_delta", 0, IF e.k = "" THEN "end_turn" ELSE e.k, 0, e.u)
             z == Plain("message_stop")
  <2>2. R2M(c, e) = Emits(d, x \o <<a, z>>)
    BY <2>1 DEF R2MFinish
  <2>3. Quiet(x)
    <3>1. Quiet(<<At("content_block_stop", c.block)>>)
      BY QuietOne, Words
    <3> QED BY <3>1, SilentNothing
  <2>4. DOMAIN d = DOMAIN c /\ d.name = c.name /\ d.terminal = TRUE
    BY <1>2 DEF Works, CloseBlock
  <2>5. a.t = "message_delta" /\ a.u = e.u /\ z.t = "message_stop" /\ z.u = FALSE
    BY DEF Ev, Plain
  <2> HIDE DEF d, x, a, z
  <2>6. Works(d)
    BY <2>4 DEF Works
  <2>7. MaySpeak("messages", a) /\ MaySpeak("messages", z) /\ ~Terminal(a)
    BY <2>5 DEF MaySpeak, Reporters, Concluding, Terminal
  <2>8. /\ Spoken("messages", <<a>>) /\ (Used(<<a>>) <=> e.u) /\ ~Over(<<a>>)
        /\ Spoken("messages", <<z>>) /\ ~Used(<<z>>) /\ Tidy(<<z>>)
    BY <2>5, <2>7, Singly
  <2>9. /\ Spoken("messages", <<a, z>>) /\ (Used(<<a, z>>) <=> e.u) /\ Tidy(<<a, z>>)
    <3>1. <<a, z>> = <<a>> \o <<z>>
      BY PairIs
    <3>2. /\ Spoken("messages", <<a>> \o <<z>>) /\ Tidy(<<a>> \o <<z>>)
          /\ Used(<<a>> \o <<z>>) <=> e.u
      BY <2>8, JoinedSpoken
    <3> QED BY <3>1, <3>2
  <2>10. Spoken("messages", x) /\ ~Over(x) /\ ~Used(x)
    BY <2>3, QuietSays
  <2>11. /\ Spoken("messages", x \o <<a, z>>) /\ Tidy(x \o <<a, z>>)
         /\ Used(x \o <<a, z>>) <=> e.u
    BY <2>9, <2>10, JoinedSpoken
  <2>12. To(c) = "messages" /\ e.t \in Concluding(From(c)) /\ (Noted(c, e) <=> e.u)
    BY <1>2 DEF To, From, Concluding, Noted
  <2> QED BY <1>0, <1>2, <2>2, <2>4, <2>6, <2>11, <2>12, EndStep
<1>3. CASE ~c.terminal /\ e.t \in {"response.incomplete", "response.failed"}
  BY <1>3 DEF R2M, Fails
<1>4. CASE ~c.terminal /\ e.t \notin {"response.completed", "response.incomplete",
                                      "response.failed"}
  <2>1. ~e.u
    BY <1>4 DEF MaySpeak, Reporters
  <2>2. PICK d, out : R2M(c, e) = Emits(d, out)
          /\ DOMAIN d = DOMAIN c /\ d.name = c.name /\ d.terminal = c.terminal /\ Quiet(out)
    <3>1. CASE e.t = "response.created"
      <4> DEFINE d == [c EXCEPT !.started = TRUE]
      <4>1. \/ R2M(c, e) = Emits(d, <<>>)
            \/ R2M(c, e) = Emits(d, <<Plain("message_start")>>)
        BY <1>4, <3>1 DEF R2M
      <4>2. DOMAIN d = DOMAIN c /\ d.name = c.name /\ d.terminal = c.terminal
        BY DEF Works
      <4>3. Quiet(<<Plain("message_start")>>)
        BY QuietOne, Words
      <4> HIDE DEF d
      <4> QED BY <4>1, <4>2, <4>3, SilentNothing
    <3>2. CASE e.t = "response.output_item.added"
      <4>0. R2M(c, e) = R2MAdded(c, e)
        BY <1>4, <3>2 DEF R2M
      <4> DEFINE d == [c EXCEPT !.open = TRUE, !.stopped = FALSE, !.block = @ + 1, !.kind = e.k]
      <4>1. \/ R2M(c, e) = Emits(c, <<>>)
            \/ R2M(c, e) = Emits(d, <<Of("content_block_start", c.block + 1,
                                         IF e.k = "message" THEN "text" ELSE "tool_use")>>)
        BY <4>0 DEF R2MAdded, Fails
      <4>2. DOMAIN d = DOMAIN c /\ d.name = c.name /\ d.terminal = c.terminal
        BY DEF Works
      <4>3. Quiet(<<Of("content_block_start", c.block + 1,
                       IF e.k = "message" THEN "text" ELSE "tool_use")>>)
        BY QuietOne, Words
      <4> HIDE DEF d
      <4> QED BY <4>1, <4>2, <4>3, SilentNothing
    <3>3. CASE e.t = "response.output_text.delta"
      <4>1. \/ R2M(c, e) = Emits(c, <<>>)
            \/ R2M(c, e) = Emits(c, <<Ev("content_block_delta", c.block, "text_delta", e.n,
                                         FALSE)>>)
        BY <1>4, <3>3 DEF R2M
      <4>2. Quiet(<<Ev("content_block_delta", c.block, "text_delta", e.n, FALSE)>>)
        BY QuietOne, Words
      <4> QED BY <4>1, <4>2, SilentNothing
    <3>4. CASE e.t = "response.function_call_arguments.delta"
      <4>1. \/ R2M(c, e) = Emits(c, <<>>)
            \/ R2M(c, e) = Emits(c, <<Ev("content_block_delta", c.block, "input_json_delta",
                                         e.n, FALSE)>>)
        BY <1>4, <3>4 DEF R2M
      <4>2. Quiet(<<Ev("content_block_delta", c.block, "input_json_delta", e.n, FALSE)>>)
        BY QuietOne, Words
      <4> QED BY <4>1, <4>2, SilentNothing
    <3>5. CASE e.t \in {"response.output_text.done", "response.content_part.done",
                        "response.output_item.done"}
      <4>1. \/ R2M(c, e) = Emits(c, <<>>)
            \/ R2M(c, e) = Emits(CloseBlock(c), <<At("content_block_stop", c.block)>>)
        BY <1>4, <3>5 DEF R2M
      <4> DEFINE d == CloseBlock(c)
      <4>2. DOMAIN d = DOMAIN c /\ d.name = c.name /\ d.terminal = c.terminal
        BY DEF Works, CloseBlock
      <4>3. Quiet(<<At("content_block_stop", c.block)>>)
        BY QuietOne, Words
      <4> HIDE DEF d
      <4> QED BY <4>1, <4>2, <4>3, SilentNothing DEF d
    <3>6. CASE e.t \notin {"response.created", "response.output_item.added",
                           "response.output_text.delta",
                           "response.function_call_arguments.delta",
                           "response.output_text.done", "response.content_part.done",
                           "response.output_item.done"}
      <4>1. R2M(c, e) = Emits(c, <<>>)
        BY <1>4, <3>6 DEF R2M, Fails
      <4> QED BY <4>1, SilentNothing
    <3> QED BY <3>1, <3>2, <3>3, <3>4, <3>5, <3>6
  <2>3. Works(d) /\ ~Keeps(d) /\ ~d.terminal
    BY <1>4, <2>2 DEF Works, Keeps
  <2> QED BY <1>0, <1>4, <2>1, <2>2, <2>3, StillStep
<1> QED BY <1>1, <1>2, <1>3, <1>4

FlattenedBy(ss, m, g) ==
  g = [i \in 1 .. m |-> IF i = 1 THEN ss[i] ELSE g[i - 1] \o ss[i]]

LEMMA FlattenedExists ==
  ASSUME NEW ss, NEW n \in Nat PROVE \E g : FlattenedBy(ss, n, g)
<1> DEFINE S == {m \in Nat : \E g : FlattenedBy(ss, m, g)}
<1>1. 0 \in S
  <2>1. FlattenedBy(ss, 0, [i \in 1 .. 0 |-> ss[i]])
    BY DEF FlattenedBy
  <2> QED BY <2>1
<1>2. ASSUME NEW m \in Nat, m \in S PROVE m + 1 \in S
  <2>1. PICK g : FlattenedBy(ss, m, g)
    BY <1>2
  <2> DEFINE new == IF m = 0 THEN ss[1] ELSE g[m] \o ss[m + 1]
             h == [i \in 1 .. m + 1 |-> IF i = m + 1 THEN new ELSE g[i]]
  <2>2. (\A i \in 1 .. m : h[i] = g[i]) /\ h[m + 1] = new
    <3>1. m + 1 \in 1 .. m + 1 /\ \A i \in 1 .. m : i \in 1 .. m + 1 /\ i # m + 1
      OBVIOUS
    <3> HIDE DEF new
    <3> QED BY <3>1
  <2>3. ASSUME NEW i \in 1 .. m + 1
        PROVE  h[i] = IF i = 1 THEN ss[i] ELSE h[i - 1] \o ss[i]
    <3>1. CASE i = m + 1
      <4>1. i - 1 = m /\ (i # 1 => m \in 1 .. m) /\ (i = 1 <=> m = 0)
        BY <3>1
      <4>2. CASE i = 1
        BY <2>2, <3>1, <4>1, <4>2
      <4>3. CASE i # 1
        <5>1. h[i - 1] = g[m]
          BY <2>2, <4>1, <4>3
        <5>2. h[i] = g[m] \o ss[i]
          BY <2>2, <3>1, <4>1, <4>3
        <5> HIDE DEF h
        <5> QED BY <4>3, <5>1, <5>2
      <4> QED BY <4>2, <4>3
    <3>2. CASE i # m + 1
      <4>1. i \in 1 .. m /\ (i # 1 => i - 1 \in 1 .. m)
        BY <3>2
      <4>2. g[i] = IF i = 1 THEN ss[i] ELSE g[i - 1] \o ss[i]
        BY <2>1, <4>1 DEF FlattenedBy
      <4> HIDE DEF h
      <4> QED BY <2>2, <4>1, <4>2
    <3> QED BY <3>1, <3>2
  <2>4. h = [i \in 1 .. m + 1 |-> h[i]]
    OBVIOUS
  <2> HIDE DEF h
  <2>5. FlattenedBy(ss, m + 1, h)
    BY <2>3, <2>4 DEF FlattenedBy
  <2> QED BY <2>5
<1>3. S \in SUBSET Nat
  OBVIOUS
<1> HIDE DEF S
<1>4. \A i \in 0 .. n : i \in S
  BY <1>1, <1>2, <1>3, Induction
<1> QED BY <1>4 DEF S

\* Quiet pieces make a quiet whole.
LEMMA QuietFlattened ==
  ASSUME NEW ss, IsSeq(ss), \A i \in 1 .. Len(ss) : Quiet(ss[i])
  PROVE  Quiet(FlattenSeq(ss))
<1>1. Len(ss) \in Nat
  BY DEF IsSeq
<1>2. CASE Len(ss) = 0
  <2>1. FlattenSeq(ss) = <<>>
    BY <1>2, EmptyIs DEF FlattenSeq
  <2> QED BY <2>1, SilentNothing
<1>3. CASE Len(ss) # 0
  <2> DEFINE g == CHOOSE f : FlattenedBy(ss, Len(ss), f)
  <2>1. FlattenedBy(ss, Len(ss), g)
    BY <1>1, FlattenedExists
  <2>2. FlattenSeq(ss) = g[Len(ss)]
    BY <1>3 DEF FlattenSeq, FlattenedBy
  <2> HIDE DEF g
  <2>3. \A i \in 1 .. Len(ss) : g[i] = IF i = 1 THEN ss[i] ELSE g[i - 1] \o ss[i]
    BY <2>1 DEF FlattenedBy
  <2> DEFINE S == {m \in Nat : m = 0 \/ Quiet(g[m])}
  <2>4. 0 \in S
    OBVIOUS
  <2>5. ASSUME NEW m \in Nat, m \in S, m < Len(ss) PROVE m + 1 \in S
    <3>1. m + 1 \in 1 .. Len(ss) /\ (m + 1) - 1 = m /\ (m + 1 = 1 <=> m = 0)
      BY <1>1, <2>5
    <3>2. Quiet(ss[m + 1])
      BY <3>1
    <3>3. CASE m = 0
      BY <2>3, <3>1, <3>2, <3>3
    <3>4. CASE m # 0
      <4>1. g[m + 1] = g[m] \o ss[m + 1]
        BY <2>3, <3>1, <3>4
      <4>2. Quiet(g[m])
        BY <2>5, <3>4
      <4>3. IsSeq(g[m]) /\ IsSeq(ss[m + 1])
        BY <3>2, <4>2, QuietSays
      <4>4. Quiet(g[m] \o ss[m + 1])
        BY <3>2, <4>2, <4>3, JoinedSays
      <4>5. Quiet(g[m + 1])
        BY <4>1, <4>4
      <4> QED BY <4>5
    <3> QED BY <3>3, <3>4
  <2>6. S \in SUBSET Nat
    OBVIOUS
  <2> HIDE DEF S
  <2>7. \A i \in 0 .. Len(ss) : i \in S
    BY <1>1, <2>4, <2>5, <2>6, Induction
  <2>8. Len(ss) \in S
    BY <1>1, <2>7
  <2> QED BY <1>3, <2>2, <2>8 DEF S
<1> QED BY <1>2, <1>3

LEMMA AppendIsSeq ==
  ASSUME NEW s, NEW x, IsSeq(s) PROVE IsSeq(Append(s, x))
<1> DEFINE S == {s[j] : j \in 1 .. Len(s)} \cup {x}
<1>1. s \in Seq(S)
  <2>1. [j \in 1 .. Len(s) |-> s[j]] \in [1 .. Len(s) -> S]
    OBVIOUS
  <2> QED
    BY <2>1 DEF IsSeq
<1>2. x \in S
  OBVIOUS
<1> HIDE DEF S
<1>3. Append(s, x) \in Seq(S)
  BY <1>1, <1>2, AppendProperties
<1> QED BY <1>3, SeqIsSeq

LEMMA QuietJoined ==
  ASSUME NEW s, NEW t, Quiet(s), Quiet(t) PROVE Quiet(s \o t)
  BY QuietSays, JoinedSays

LEMMA C2RFinishStep ==
  ASSUME NEW c, NEW d, NEW e, Works(c), Works(d), c.name = "c2r", d.name = "c2r",
         ~c.terminal, ~d.terminal, d.usage <=> c.usage \/ e.u,
         e.t \in Concluding("chat"), ~C2RFinish(d).err
  PROVE  Stepped(c, e, C2RFinish(d))
<1> DEFINE text == IF d.message < 0 THEN <<>>
                   ELSE <<At("response.output_text.done", d.message),
                          At("response.content_part.done", d.message),
                          At("response.output_item.done", d.message)>>
           call(i) == <<At("response.function_call_arguments.done", d.calls[i]),
                        At("response.output_item.done", d.calls[i])>>
           ss == [i \in DOMAIN d.calls |-> call(i)]
           end == CASE d.finish = "stop" -> Ev("response.completed", 0, "end_turn", 0, d.usage)
                    [] d.finish = "tool_calls" ->
                         Ev("response.completed", 0, "tool_use", 0, d.usage)
                    [] OTHER -> Ev("response.incomplete", 0, d.finish, 0, d.usage)
           new == [d EXCEPT !.terminal = TRUE]
<1>1. C2RFinish(d) = Emits(new, text \o FlattenSeq(ss) \o <<end>>)
  BY DEF C2RFinish, Fails
<1>2. Quiet(text)
  <2>1. Quiet(<<At("response.output_text.done", d.message),
                At("response.content_part.done", d.message),
                At("response.output_item.done", d.message)>>)
    BY QuietTriple, Words
  <2> QED BY <2>1, SilentNothing
<1>3. Quiet(FlattenSeq(ss))
  <2>1. DOMAIN d.calls = 1 .. Len(d.calls) /\ Len(d.calls) \in Nat
    BY DEF Works, IsSeq
  <2>2. IsSeq(ss) /\ Len(ss) = Len(d.calls) /\ \A i \in 1 .. Len(ss) : ss[i] = call(i)
    <3> DEFINE n == Len(d.calls)
               R == {call(i) : i \in 1 .. n}
    <3>1. ss = [i \in 1 .. n |-> call(i)]
      BY <2>1
    <3>2. \A i \in 1 .. n : call(i) \in R
      OBVIOUS
    <3>3. n \in Nat
      BY <2>1
    <3> HIDE DEF n, R, call, ss
    <3>4. ss \in Seq(R) /\ Len(ss) = n
      BY <3>1, <3>2, <3>3
    <3> QED BY <3>1, <3>4, SeqIsSeq DEF n
  <2>3. \A i : Quiet(call(i))
    BY QuietPair, Words
  <2> HIDE DEF ss, call
  <2> QED BY <2>2, <2>3, QuietFlattened
<1>4. Quiet(text \o FlattenSeq(ss))
  <2> HIDE DEF text, ss
  <2>1. IsSeq(text) /\ IsSeq(FlattenSeq(ss))
    BY <1>2, <1>3, QuietSays
  <2> QED BY <1>2, <1>3, <2>1, JoinedSays
<1>5. /\ end.u = d.usage /\ Terminal(end)
      /\ end.t \in {"response.completed", "response.incomplete"}
  BY DEF Ev, Terminal
<1>6. DOMAIN new = DOMAIN d /\ new.name = "c2r" /\ new.terminal = TRUE
      /\ new.usage = d.usage /\ new.calls = d.calls /\ new.err = d.err
  BY DEF Works
<1> HIDE DEF text, ss, end, new
<1>7. Works(new)
  BY <1>6 DEF Works
<1>8. MaySpeak("responses", end)
  BY <1>5 DEF MaySpeak, Reporters, Concluding, Works
<1> DEFINE q == text \o FlattenSeq(ss)
<1>9. /\ Spoken("responses", q \o <<end>>) /\ Tidy(q \o <<end>>)
      /\ Used(q \o <<end>>) <=> end.u
  BY <1>4, <1>5, <1>8, LastWords
<1>10. To(c) = "responses" /\ From(c) = "chat" /\ (Keeps(c) <=> c.usage)
       /\ (Noted(c, e) <=> e.u)
  BY DEF To, From, Keeps, Noted
<1>11. Stepped(c, e, Emits(new, q \o <<end>>))
  <2> HIDE DEF q
  <2> QED BY <1>5, <1>6, <1>7, <1>9, <1>10, EndStep
<1> QED BY <1>1, <1>11

LEMMA C2RStep ==
  ASSUME NEW c, NEW e, Works(c), c.name = "c2r", MaySpeak("chat", e), ~C2R(c, e).err
  PROVE  Stepped(c, e, C2R(c, e))
<1>1. CASE c.terminal
  <2>1. C2R(c, e) = Emits(c, <<>>)
    BY <1>1 DEF C2R
  <2> QED BY <1>1, <2>1, EndedStep
<1>0. c.err = FALSE
  BY DEF Works
<1>2. CASE ~c.terminal /\ e.t = "[DONE]"
  <2>1. C2R(c, e) = C2RFinish(c)
    BY <1>0, <1>2 DEF C2R
  <2>2. ~e.u /\ e.t \in Concluding("chat")
    BY <1>2 DEF MaySpeak, Reporters, Concluding
  <2> QED BY <1>2, <2>1, <2>2, C2RFinishStep
<1>3. CASE ~c.terminal /\ e.t = "usage"
  <2> DEFINE d == [c EXCEPT !.usage = @ \/ e.u]
  <2>1. C2R(c, e) = IF c.finish = "" THEN Emits(d, <<>>) ELSE C2RFinish(d)
    BY <1>0, <1>3 DEF C2R
  <2>2. DOMAIN d = DOMAIN c /\ d.name = "c2r" /\ d.terminal = c.terminal /\ d.err = c.err
        /\ d.calls = c.calls /\ d.usage = (c.usage \/ e.u)
    BY DEF Works
  <2> HIDE DEF d
  <2>3. (c.usage \/ e.u) \in BOOLEAN
    OBVIOUS
  <2>4. Works(d)
    BY <2>2, <2>3 DEF Works
  <2>5. CASE c.finish # ""
    <3>1. e.t \in Concluding("chat")
      BY <1>3 DEF Concluding
    <3> QED BY <1>3, <2>1, <2>2, <2>4, <2>5, <3>1, C2RFinishStep
  <2>6. CASE c.finish = ""
    <3>1. Keeps(d) <=> Keeps(c) \/ Noted(c, e)
      BY <1>3, <2>2 DEF Keeps, Noted
    <3>2. Spoken(To(c), <<>>) /\ Tidy(<<>>) /\ ~Over(<<>>) /\ ~Used(<<>>)
      BY SilentNothing
    <3>3. Stepped(c, e, Emits(d, <<>>))
      BY <1>3, <2>2, <2>4, <3>1, <3>2 DEF Stepped, Emits
    <3> QED BY <2>1, <2>6, <3>3
  <2> QED BY <2>5, <2>6
<1>4. CASE ~c.terminal /\ e.t \notin {"[DONE]", "usage"}
  <2>1. ~e.u
    BY <1>4 DEF MaySpeak, Reporters
  <2>2. PICK d, out : C2R(c, e) = Emits(d, out)
          /\ DOMAIN d = DOMAIN c /\ d.name = c.name /\ d.terminal = c.terminal
          /\ d.usage = c.usage /\ d.err = c.err /\ IsSeq(d.calls) /\ Quiet(out)
    <3>1. CASE e.t = "content"
      <4> DEFINE d == IF c.message >= 0 THEN c
                      ELSE [c EXCEPT !.message = c.next, !.next = @ + 1]
                 pre == IF c.message >= 0 THEN <<>>
                        ELSE Preamble
                             \o <<Of("response.output_item.added", d.message, "message"),
                                  At("response.content_part.added", d.message)>>
                 last == <<Ev("response.output_text.delta", d.message, "", e.n, FALSE)>>
      <4>1. C2R(c, e) = Emits(d, pre \o last)
        BY <1>0, <1>4, <3>1 DEF C2R, ContentDelta
      <4>2. DOMAIN d = DOMAIN c /\ d.name = c.name /\ d.terminal = c.terminal
            /\ d.usage = c.usage /\ d.err = c.err /\ d.calls = c.calls
        BY DEF Works
      <4>3. IsSeq(d.calls)
        BY <4>2 DEF Works
      <4>4. Quiet(last)
        BY QuietOne, Words
      <4>5. Quiet(Preamble)
        BY QuietPair, Words DEF Preamble
      <4>6. \A i : Quiet(<<Of("response.output_item.added", i, "message"),
                           At("response.content_part.added", i)>>)
        BY QuietPair, Words
      <4> HIDE DEF d
      <4>7. Quiet(pre)
        BY <4>5, <4>6, QuietJoined, SilentNothing
      <4> HIDE DEF pre, last
      <4>8. Quiet(pre \o last)
        BY <4>4, <4>7, QuietJoined
      <4> QED BY <4>1, <4>2, <4>3, <4>8
    <3>2. CASE e.t = "tool_calls"
      <4> DEFINE known == e.i < Len(c.calls)
                 d == [c EXCEPT !.started = TRUE,
                         !.calls = IF known THEN @ ELSE Append(@, c.next),
                         !.next = IF known THEN @ ELSE @ + 1]
                 item == d.calls[e.i + 1]
                 a == IF c.started THEN <<>> ELSE Preamble
                 b == IF known THEN <<>>
                      ELSE <<Of("response.output_item.added", item, "function_call")>>
                 z == IF e.n = 0 THEN <<>>
                      ELSE <<Ev("response.function_call_arguments.delta", item, "", e.n,
                                FALSE)>>
      <4>0. C2R(c, e) = ToolCallDelta(c, e)
        BY <1>0, <1>4, <3>2 DEF C2R
      <4>1. C2R(c, e) = Emits(d, a \o b \o z)
        <5>1. ASSUME ~known, e.k # "id" PROVE FALSE
          <6>1. ToolCallDelta(c, e) = Fails([c EXCEPT !.err = TRUE])
            BY <5>1, Zenon DEF ToolCallDelta
          <6>2. Fails([c EXCEPT !.err = TRUE]).err = TRUE
            BY DEF Fails
          <6> QED BY <4>0, <6>1, <6>2
        <5> QED BY <4>0, <5>1, Zenon DEF ToolCallDelta
      <4>2. DOMAIN d = DOMAIN c /\ d.name = c.name /\ d.terminal = c.terminal
            /\ d.usage = c.usage /\ d.err = c.err
            /\ d.calls = IF known THEN c.calls ELSE Append(c.calls, c.next)
        BY DEF Works
      <4>3. IsSeq(d.calls)
        BY <4>2, AppendIsSeq DEF Works
      <4> HIDE DEF d
      <4>4. Quiet(a)
        BY QuietPair, Words, SilentNothing DEF Preamble
      <4>5. Quiet(b)
        <5>1. Quiet(<<Of("response.output_item.added", item, "function_call")>>)
          BY QuietOne, Words
        <5> QED BY <5>1, SilentNothing
      <4>6. Quiet(z)
        <5>1. Quiet(<<Ev("response.function_call_arguments.delta", item, "", e.n, FALSE)>>)
          BY QuietOne, Words
        <5> QED BY <5>1, SilentNothing
      <4> HIDE DEF a, b, z
      <4>7. Quiet(a \o b)
        BY <4>4, <4>5, QuietJoined
      <4>8. Quiet(a \o b \o z)
        BY <4>6, <4>7, QuietJoined
      <4> QED BY <4>1, <4>2, <4>3, <4>8
    <3>3. CASE e.t = "finish"
      <4> DEFINE d == [c EXCEPT !.finish = e.k]
      <4>1. C2R(c, e) = Emits(d, <<>>)
        BY <1>0, <1>4, <3>3 DEF C2R
      <4>2. DOMAIN d = DOMAIN c /\ d.name = c.name /\ d.terminal = c.terminal
            /\ d.usage = c.usage /\ d.err = c.err /\ d.calls = c.calls
        BY DEF Works
      <4>3. IsSeq(d.calls)
        BY <4>2 DEF Works
      <4> HIDE DEF d
      <4> QED BY <4>1, <4>2, <4>3, SilentNothing
    <3>4. CASE e.t \notin {"content", "tool_calls", "finish"}
      <4>1. C2R(c, e) = Emits(c, <<>>)
        BY <1>0, <1>4, <3>4 DEF C2R, Fails
      <4>2. IsSeq(c.calls)
        BY DEF Works
      <4> QED BY <4>1, <4>2, SilentNothing
    <3> QED BY <3>1, <3>2, <3>3, <3>4
  <2>3. Works(d) /\ (Keeps(d) <=> Keeps(c)) /\ ~d.terminal
    BY <1>4, <2>2 DEF Works, Keeps
  <2> QED BY <1>4, <2>1, <2>2, <2>3, StillStep
<1> QED BY <1>1, <1>2, <1>3, <1>4

LEMMA OneStep ==
  ASSUME NEW c, NEW e, Works(c), MaySpeak(From(c), e), ~Step(c, e).err
  PROVE  Stepped(c, e, Step(c, e))
<1>1. CASE c.name = "m2r"
  <2>1. Step(c, e) = M2R(c, e) /\ From(c) = "messages"
    BY <1>1 DEF Step, From
  <2> QED BY <1>1, <2>1, M2RStep
<1>2. CASE c.name = "r2m"
  <2>1. Step(c, e) = R2M(c, e) /\ From(c) = "responses"
    BY <1>2 DEF Step, From
  <2> QED BY <1>2, <2>1, R2MStep
<1>3. CASE c.name = "c2r"
  <2>1. Step(c, e) = C2R(c, e) /\ From(c) = "chat"
    BY <1>3 DEF Step, From
  <2> QED BY <1>3, <2>1, C2RStep
<1>4. CASE c.name = "r2c"
  <2>1. Step(c, e) = R2C(c, e) /\ From(c) = "responses"
    BY <1>4 DEF Step, From
  <2> QED BY <1>4, <2>1, R2CStep
<1> QED BY <1>1, <1>2, <1>3, <1>4 DEF Works

---------------------------------------------------------------------------
(* Sequences, built one element at a time.                                 *)

\* The append of one element.
LEMMA Appended ==
  ASSUME NEW A, NEW s \in Seq(A), NEW x \in A
  PROVE  /\ Append(s, x) \in Seq(A) /\ Len(Append(s, x)) = Len(s) + 1
         /\ DOMAIN Append(s, x) = 1 .. Len(s) + 1 /\ DOMAIN s = 1 .. Len(s) /\ Len(s) \in Nat
         /\ \A i \in 1 .. Len(s) : Append(s, x)[i] = s[i]
         /\ Append(s, x)[Len(s) + 1] = x
<1>1. Len(s) \in Nat
  BY LenProperties
<1> QED BY <1>1, AppendProperties, LenProperties

\* A sequence that is not empty is an append.
LEMMA LastOne ==
  ASSUME NEW A, NEW s \in Seq(A), s # <<>>
  PROVE  \E t \in Seq(A), x \in A : s = Append(t, x) /\ Len(s) = Len(t) + 1
<1>1. PICK t \in Seq(A), x \in A : s = Append(t, x)
  BY SequenceEmptyOrAppend
<1> QED BY <1>1, AppendProperties

\* What holds of the empty sequence and goes on holding holds of all.
LEMMA SeqInduction ==
  ASSUME NEW A, NEW P, <<>> \in P, \A s \in Seq(A), x \in A : s \in P => Append(s, x) \in P,
         NEW s \in Seq(A)
  PROVE  s \in P
<1> DEFINE N == {n \in Nat : \A t \in Seq(A) : Len(t) = n => t \in P}
<1>1. 0 \in N
  BY EmptySeq
<1>2. ASSUME NEW n \in Nat, n \in N PROVE n + 1 \in N
  <2>1. ASSUME NEW t \in Seq(A), Len(t) = n + 1 PROVE t \in P
    <3>1. t # <<>>
      <4>1. Len(<<>>) = 0 /\ n + 1 # 0
        OBVIOUS
      <4> QED BY <2>1, <4>1
    <3>2. PICK u \in Seq(A), x \in A : t = Append(u, x) /\ Len(t) = Len(u) + 1
      BY <3>1, LastOne
    <3>3. Len(u) = n
      BY <2>1, <3>2, LenProperties
    <3>4. u \in P
      BY <1>2, <3>3
    <3> QED BY <3>2, <3>4
  <2> QED BY <2>1
<1>3. N \in SUBSET Nat
  OBVIOUS
<1>4. Len(s) \in Nat
  BY LenProperties
<1> HIDE DEF N
<1>5. \A n \in 0 .. Len(s) : n \in N
  BY <1>1, <1>2, <1>3, <1>4, Induction
<1>6. Len(s) \in N
  BY <1>4, <1>5
<1> QED BY <1>6 DEF N

AlikeTo(s, t, n) == \A i \in 1 .. n : s[i] = t[i]

\* What is flattened up to n does not depend on what follows.
LEMMA FlattenedSame ==
  ASSUME NEW ss, NEW tt, NEW n \in Nat, NEW g, NEW h,
         FlattenedBy(ss, n, g), FlattenedBy(tt, n + 1, h), AlikeTo(ss, tt, n)
  PROVE  AlikeTo(g, h, n)
<1> DEFINE S == {i \in Nat : i = 0 \/ g[i] = h[i]}
<1>1. 0 \in S
  OBVIOUS
<1>2. ASSUME NEW i \in Nat, i \in S, i < n PROVE i + 1 \in S
  <2>1. i + 1 \in 1 .. n /\ i + 1 \in 1 .. n + 1 /\ (i + 1) - 1 = i /\ (i + 1 = 1 <=> i = 0)
    BY <1>2
  <2>2. g[i + 1] = IF i = 0 THEN ss[i + 1] ELSE g[i] \o ss[i + 1]
    BY <2>1 DEF FlattenedBy
  <2>3. h[i + 1] = IF i = 0 THEN tt[i + 1] ELSE h[i] \o tt[i + 1]
    BY <2>1 DEF FlattenedBy
  <2>4. ss[i + 1] = tt[i + 1]
    BY <2>1 DEF AlikeTo
  <2> QED BY <1>2, <2>2, <2>3, <2>4
<1>3. S \in SUBSET Nat
  OBVIOUS
<1> HIDE DEF S
<1>4. \A i \in 0 .. n : i \in S
  BY <1>1, <1>2, <1>3, Induction
<1> QED BY <1>4 DEF S, AlikeTo

LEMMA FlattenNone == FlattenSeq(<<>>) = <<>>
BY NothingSaid DEF FlattenSeq

LEMMA FlattenLast ==
  ASSUME NEW A, NEW ss \in Seq(Seq(A)), NEW x \in Seq(A)
  PROVE  FlattenSeq(Append(ss, x)) = FlattenSeq(ss) \o x
<1> DEFINE n == Len(ss)
           tt == Append(ss, x)
           g == CHOOSE f : FlattenedBy(ss, Len(ss), f)
           h == CHOOSE f : FlattenedBy(tt, Len(tt), f)
<1>1. /\ n \in Nat /\ Len(tt) = n + 1 /\ n + 1 # 0 /\ tt[n + 1] = x
      /\ \A i \in 1 .. n : tt[i] = ss[i]
  BY Appended, LenProperties
<1>2. FlattenedBy(ss, n, g) /\ FlattenedBy(tt, n + 1, h)
  <2>1. (\E f : FlattenedBy(ss, n, f)) /\ (\E f : FlattenedBy(tt, n + 1, f))
    <3>1. n \in Nat /\ n + 1 \in Nat
      BY <1>1
    <3> HIDE DEF n, tt
    <3> QED BY <3>1, FlattenedExists
  <2> QED BY <1>1, <2>1
<1>3. FlattenSeq(tt) = h[n + 1]
  BY <1>1 DEF FlattenSeq, FlattenedBy
<1>4. FlattenSeq(ss) = IF n = 0 THEN ss ELSE g[n]
  BY DEF FlattenSeq, FlattenedBy
<1> HIDE DEF g, h, tt
<1>5. h[n + 1] = IF n = 0 THEN x ELSE h[n] \o x
  <2>1. n + 1 \in 1 .. n + 1 /\ (n + 1) - 1 = n /\ (n + 1 = 1 <=> n = 0)
    BY <1>1
  <2> QED BY <1>1, <1>2, <2>1 DEF FlattenedBy
<1>6. CASE n = 0
  <2>1. ss = <<>>
    BY <1>6, EmptySeq
  <2>2. <<>> \o x = x
    BY ConcatEmptySeq
  <2> QED BY <1>3, <1>4, <1>5, <1>6, <2>1, <2>2 DEF tt
<1>7. CASE n # 0
  <2>1. n \in 1 .. n /\ n <= n + 1
    BY <1>1, <1>7
  <2>2. g[n] = h[n]
    <3>1. n \in Nat /\ FlattenedBy(ss, n, g) /\ FlattenedBy(tt, n + 1, h) /\ AlikeTo(ss, tt, n)
      BY <1>1, <1>2 DEF AlikeTo
    <3>2. AlikeTo(g, h, n)
      <4> HIDE DEF n
      <4> QED BY <3>1, FlattenedSame
    <3> QED BY <2>1, <3>2 DEF AlikeTo
  <2> QED BY <1>3, <1>4, <1>5, <1>7, <2>2 DEF tt
<1> QED BY <1>6, <1>7

LEMMA FlattenTyped ==
  ASSUME NEW A, NEW ss \in Seq(Seq(A)) PROVE FlattenSeq(ss) \in Seq(A)
<1> DEFINE P == {s \in Seq(Seq(A)) : FlattenSeq(s) \in Seq(A)}
<1>1. <<>> \in P
  <2>1. <<>> \in Seq(Seq(A)) /\ <<>> \in Seq(A)
    OBVIOUS
  <2> QED BY <2>1, FlattenNone
<1>2. ASSUME NEW s \in Seq(Seq(A)), NEW x \in Seq(A), s \in P PROVE Append(s, x) \in P
  <2>1. FlattenSeq(Append(s, x)) = FlattenSeq(s) \o x
    BY FlattenLast
  <2>2. FlattenSeq(s) \o x \in Seq(A)
    BY <1>2, ConcatProperties
  <2>3. Append(s, x) \in Seq(Seq(A))
    BY AppendProperties
  <2> QED BY <2>1, <2>2, <2>3
<1> HIDE DEF P
<1>3. ss \in P
  BY <1>1, <1>2, SeqInduction
<1> QED BY <1>3 DEF P

\* Nothing comes only of nothings.
LEMMA FlattenEmpty ==
  ASSUME NEW A, NEW ss \in Seq(Seq(A)), FlattenSeq(ss) = <<>>
  PROVE  \A i \in DOMAIN ss : ss[i] = <<>>
<1> DEFINE P == {s \in Seq(Seq(A)) : FlattenSeq(s) = <<>> => \A i \in 1 .. Len(s) : s[i] = <<>>}
<1>1. <<>> \in P
  OBVIOUS
<1>2. ASSUME NEW s \in Seq(Seq(A)), NEW x \in Seq(A), s \in P PROVE Append(s, x) \in P
  <2>1. /\ Append(s, x) \in Seq(Seq(A)) /\ Len(Append(s, x)) = Len(s) + 1 /\ Len(s) \in Nat
        /\ \A i \in 1 .. Len(s) : Append(s, x)[i] = s[i]
        /\ Append(s, x)[Len(s) + 1] = x
    BY Appended
  <2>2. FlattenSeq(Append(s, x)) = FlattenSeq(s) \o x /\ FlattenSeq(s) \in Seq(A)
    BY FlattenLast, FlattenTyped
  <2>3. ASSUME FlattenSeq(s) \o x = <<>> PROVE FlattenSeq(s) = <<>> /\ x = <<>>
    <3>1. Len(FlattenSeq(s)) + Len(x) = 0
      BY <2>2, <2>3, ConcatProperties, EmptySeq
    <3>2. Len(FlattenSeq(s)) = 0 /\ Len(x) = 0
      BY <2>2, <3>1, LenProperties
    <3> QED BY <2>2, <3>2, EmptySeq
  <2>4. ASSUME FlattenSeq(Append(s, x)) = <<>>, NEW i \in 1 .. Len(s) + 1
        PROVE  Append(s, x)[i] = <<>>
    <3>1. FlattenSeq(s) = <<>> /\ x = <<>>
      BY <2>2, <2>3, <2>4
    <3>2. \A k \in 1 .. Len(s) : s[k] = <<>>
      BY <1>2, <3>1
    <3>3. CASE i = Len(s) + 1
      BY <2>1, <3>1, <3>3
    <3>4. CASE i # Len(s) + 1
      <4>1. i \in 1 .. Len(s)
        BY <2>1, <3>4
      <4> QED BY <2>1, <3>2, <4>1
    <3> QED BY <3>3, <3>4
  <2> QED BY <2>1, <2>4
<1> HIDE DEF P
<1>3. ss \in P
  BY <1>1, <1>2, SeqInduction
<1>4. DOMAIN ss = 1 .. Len(ss)
  BY LenProperties
<1> QED BY <1>3, <1>4 DEF P


---------------------------------------------------------------------------
(* A chunk through one converter, and through a pipeline.                  *)

Chunked(c, s, m, r) ==
  /\ Works(r.c) /\ r.c.name = c.name
  /\ Spoken(To(c), r.out) /\ Tidy(r.out)
  /\ c.terminal => r.out = <<>> /\ r.c = c
  /\ Over(r.out) => r.c.terminal
  /\ ~c.terminal /\ r.c.terminal => \E j \in 1 .. m : s[j].t \in Concluding(From(c))
  /\ c.name = "m2r" => Spoken("whole", r.out)
  /\ Keeps(c) \/ (\E j \in 1 .. m : Noted(c, s[j])) <=> Keeps(r.c) \/ Used(r.out)

LEMMA JoinNothing == ASSUME NEW s, IsSeq(s) PROVE s \o <<>> = s
<1>1. IsSeq(s \o <<>>) /\ Len(s \o <<>>) = Len(s) + 0 /\ Len(s) \in Nat
      /\ \A j \in 1 .. Len(s) : (s \o <<>>)[j] = s[j]
  BY Joined, NothingSaid DEF IsSeq
<1>2. s \o <<>> = [j \in 1 .. Len(s) |-> (s \o <<>>)[j]]
  BY <1>1 DEF IsSeq
<1>3. s = [j \in 1 .. Len(s) |-> s[j]]
  BY DEF IsSeq
<1> QED BY <1>1, <1>2, <1>3

LEMMA NextOfChunk ==
  ASSUME NEW c, NEW s, NEW m \in Nat, NEW r, Works(c), Spoken(From(c), s),
         SettledBy(From(c), s), c.terminal => ~Used(s), m + 1 \in 1 .. Len(s),
         Chunked(c, s, m, r), ~r.err, ~Written(r, s[m + 1]).err
  PROVE  Chunked(c, s, m + 1, Written(r, s[m + 1]))
<1> DEFINE e == s[m + 1]
           x == Step(r.c, e)
           new == [c |-> x.c, out |-> r.out \o x.out, err |-> x.err]
<1>1. Written(r, e) = new
  BY DEF Written
<1>2. ~x.err
  BY <1>1
<1>3. /\ Works(r.c) /\ r.c.name = c.name /\ Spoken(To(c), r.out) /\ Tidy(r.out)
      /\ c.terminal => r.out = <<>> /\ r.c = c
      /\ Over(r.out) => r.c.terminal
      /\ ~c.terminal /\ r.c.terminal => \E j \in 1 .. m : s[j].t \in Concluding(From(c))
      /\ c.name = "m2r" => Spoken("whole", r.out)
      /\ Keeps(c) \/ (\E j \in 1 .. m : Noted(c, s[j])) <=> Keeps(r.c) \/ Used(r.out)
  BY DEF Chunked
<1>4. From(r.c) = From(c) /\ To(r.c) = To(c) /\ (Noted(r.c, e) <=> Noted(c, e))
  BY <1>3 DEF From, To, Noted
<1>5. MaySpeak(From(c), e)
  BY DEF Spoken
<1>6. Stepped(r.c, e, x)
  BY <1>2, <1>3, <1>4, <1>5, OneStep
<1>7. /\ \A j \in 1 .. m : j \in 1 .. m + 1 /\ j \in 1 .. Len(s) /\ j < m + 1
      /\ \A j \in 1 .. m + 1 : j \in 1 .. m \/ j = m + 1
      /\ m + 1 \in 1 .. m + 1 /\ Len(s) \in Nat
  BY DEF Spoken, IsSeq
<1>8. r.c.terminal => ~e.u
  <2>1. CASE c.terminal
    BY <2>1 DEF Used
  <2>2. CASE ~c.terminal /\ r.c.terminal
    <3>1. PICK j \in 1 .. m : s[j].t \in Concluding(From(c))
      BY <1>3, <2>2
    <3> QED BY <1>7, <3>1 DEF SettledBy
  <2> QED BY <2>1, <2>2
<1>9. /\ Works(x.c) /\ x.c.name = c.name /\ Spoken(To(c), x.out) /\ Tidy(x.out)
      /\ r.c.terminal => x.out = <<>> /\ x.c = r.c
      /\ Over(x.out) => x.c.terminal
      /\ ~r.c.terminal /\ x.c.terminal => e.t \in Concluding(From(c))
      /\ c.name = "m2r" => Spoken("whole", x.out)
      /\ Keeps(r.c) \/ Noted(c, e) <=> Keeps(x.c) \/ Used(x.out)
  BY <1>3, <1>4, <1>6, <1>8 DEF Stepped
<1> HIDE DEF x, e
<1> DEFINE out == r.out \o x.out
<1>10. /\ IsSeq(r.out) /\ IsSeq(x.out) /\ Spoken(To(c), out)
       /\ Used(out) <=> Used(r.out) \/ Used(x.out)
       /\ Over(out) <=> Over(r.out) \/ Over(x.out)
       /\ ~Over(r.out) => Tidy(out)
       /\ c.name = "m2r" => Spoken("whole", out)
  <2>1. IsSeq(r.out) /\ IsSeq(x.out)
    BY <1>3, <1>9 DEF Spoken
  <2>2. Spoken(To(c), out)
    BY <1>3, <1>9, <2>1, JoinedSays
  <2>3. /\ Used(out) <=> Used(r.out) \/ Used(x.out)
        /\ Over(out) <=> Over(r.out) \/ Over(x.out)
    BY <2>1, JoinedSays
  <2>4. ~Over(r.out) => Tidy(out)
    BY <1>9, <2>1, JoinedSays
  <2>5. c.name = "m2r" => Spoken("whole", out)
    BY <1>3, <1>9, <2>1, JoinedSays
  <2> QED BY <2>1, <2>2, <2>3, <2>4, <2>5
<1>11. r.c.terminal => out = r.out
  BY <1>9, <1>10, JoinNothing
<1> HIDE DEF out
<1>12. Tidy(out)
  BY <1>3, <1>10, <1>11
<1>13. Over(out) => x.c.terminal
  BY <1>3, <1>9, <1>10
<1>14. c.terminal => out = <<>> /\ x.c = c
  BY <1>3, <1>9, <1>11
<1>15. ~c.terminal /\ x.c.terminal => \E j \in 1 .. m + 1 : s[j].t \in Concluding(From(c))
  BY <1>3, <1>7, <1>9 DEF e
<1>16. Keeps(c) \/ (\E j \in 1 .. m + 1 : Noted(c, s[j])) <=> Keeps(x.c) \/ Used(out)
  <2>1. (\E j \in 1 .. m + 1 : Noted(c, s[j])) <=> (\E j \in 1 .. m : Noted(c, s[j])) \/ Noted(c, e)
    BY <1>7 DEF e
  <2> QED BY <1>3, <1>9, <1>10, <2>1
<1>17. new.c = x.c /\ new.out = out
  BY DEF out
<1> HIDE DEF new
<1>18. Chunked(c, s, m + 1, new)
  BY <1>9, <1>10, <1>12, <1>13, <1>14, <1>15, <1>16, <1>17 DEF Chunked
<1> QED BY <1>1, <1>18 DEF e

LEMMA AllWritten ==
  ASSUME NEW c, NEW s, Works(c), Spoken(From(c), s), SettledBy(From(c), s),
         c.terminal => ~Used(s), ~WriteStep(c, s).err
  PROVE  Chunked(c, s, Len(s), WriteStep(c, s))
<1>1. Len(s) \in Nat
  BY DEF Spoken, IsSeq
<1>2. PICK g : /\ WriteStep(c, s) = g[Len(s)] /\ g[0] = Emits(c, <<>>)
               /\ \A i \in 1 .. Len(s) : g[i] = Written(g[i - 1], s[i])
  BY <1>1, WrittenIs
<1> DEFINE S == {m \in Nat : ~g[m].err => Chunked(c, s, m, g[m])}
<1>3. 0 \in S
  <2>1. Emits(c, <<>>).c = c /\ Emits(c, <<>>).out = <<>>
    BY DEF Emits
  <2>2. /\ Spoken(To(c), <<>>) /\ Tidy(<<>>) /\ ~Over(<<>>) /\ ~Used(<<>>)
        /\ Spoken("whole", <<>>)
    BY SilentNothing
  <2>3. Chunked(c, s, 0, Emits(c, <<>>))
    BY <2>1, <2>2 DEF Chunked
  <2> QED BY <1>2, <2>3
<1>4. ASSUME NEW m \in Nat, m \in S, m < Len(s) PROVE m + 1 \in S
  <2>1. m + 1 \in 1 .. Len(s) /\ (m + 1) - 1 = m /\ m + 1 \in Nat
    BY <1>1, <1>4
  <2>2. g[m + 1] = Written(g[m], s[m + 1])
    BY <1>2, <2>1
  <2>3. ASSUME ~g[m + 1].err PROVE Chunked(c, s, m + 1, g[m + 1])
    <3>1. ~g[m].err
      BY <2>2, <2>3 DEF Written
    <3>2. Chunked(c, s, m, g[m])
      BY <1>4, <3>1
    <3> QED BY <2>1, <2>2, <2>3, <3>1, <3>2, NextOfChunk
  <2> QED BY <2>1, <2>3
<1>5. S \in SUBSET Nat
  OBVIOUS
<1> HIDE DEF S
<1>6. \A i \in 0 .. Len(s) : i \in S
  BY <1>1, <1>3, <1>4, <1>5, Induction
<1>7. Len(s) \in S
  BY <1>1, <1>6
<1> QED BY <1>2, <1>7 DEF S

\* What a pipeline makes of a chunk.
Piped(u, cl, cs, s, w) ==
  /\ Pipe(u, cl, w.c) /\ Spoken(cl, w.out) /\ Tidy(w.out)
  /\ cs = <<>> => w.c = <<>> /\ w.out = s
  /\ cs # <<>> =>
       /\ w.c # <<>>
       /\ cs[Len(cs)].terminal => w.out = <<>> /\ w.c[Len(w.c)].terminal
       /\ Over(w.out) => w.c[Len(w.c)].terminal
       /\ w.c[1].terminal => cs[1].terminal \/ Concludes(u, s)
       /\ Keeps(cs[1]) \/ Noting(cs[1], s) <=> Keeps(w.c[1]) \/ Used(w.out)

LEMMA OneConverter ==
  ASSUME NEW u, NEW cl, NEW a, NEW s, Pipe(u, cl, <<a>>), Spoken(u, s), SettledBy(u, s),
         a.terminal => ~Used(s), ~WriteAll(<<a>>, s).err
  PROVE  Piped(u, cl, <<a>>, s, WriteAll(<<a>>, s))
<1> DEFINE cs == <<a>>
           x == WriteStep(a, s)
           w == WriteAll(cs, s)
<1>1. Len(cs) = 1 /\ cs[1] = a /\ cs # <<>>
  OBVIOUS
<1>2. Works(a) /\ From(a) = u /\ To(a) = cl
  BY <1>1 DEF Pipe
<1>3. w = [c |-> <<x.c>>, out |-> IF x.err THEN <<>> ELSE x.out, err |-> x.err]
  <2>1. w = PassOn(Emits(cs, s), 1)
    BY <1>1, PassedIs
  <2>2. [cs EXCEPT ![1] = x.c] = <<x.c>>
    OBVIOUS
  <2>3. PassOn(Emits(cs, s), 1) =
          [c |-> [cs EXCEPT ![1] = x.c], out |-> IF x.err THEN <<>> ELSE x.out, err |-> x.err]
    BY <1>1 DEF PassOn, Emits
  <2> QED BY <2>1, <2>2, <2>3
<1> HIDE DEF w, x
<1>4. ~x.err /\ w.c = <<x.c>> /\ w.out = x.out
  BY <1>3 DEF w
<1>5. Chunked(a, s, Len(s), x)
  BY <1>2, <1>4, AllWritten DEF x
<1>6. /\ Works(x.c) /\ x.c.name = a.name /\ Spoken(cl, x.out) /\ Tidy(x.out)
      /\ a.terminal => x.out = <<>> /\ x.c = a
      /\ Over(x.out) => x.c.terminal
      /\ ~a.terminal /\ x.c.terminal => Concludes(u, s)
      /\ Keeps(a) \/ Noting(a, s) <=> Keeps(x.c) \/ Used(x.out)
  BY <1>2, <1>5 DEF Chunked, Concludes, Noting
<1>7. Len(w.c) = 1 /\ w.c[1] = x.c /\ w.c # <<>> /\ w.c = <<w.c[1]>>
  BY <1>4
<1>8. From(x.c) = u /\ To(x.c) = cl
  BY <1>2, <1>6 DEF From, To
<1>9. Pipe(u, cl, w.c)
  BY <1>6, <1>7, <1>8 DEF Pipe
<1> HIDE DEF cs
<1>10. Piped(u, cl, cs, s, w)
  BY <1>1, <1>4, <1>6, <1>7, <1>9 DEF Piped
<1> QED BY <1>10 DEF w, cs

LEMMA TwoConverters ==
  ASSUME NEW u, NEW cl, NEW a, NEW b, NEW s, Pipe(u, cl, <<a, b>>), Spoken(u, s),
         SettledBy(u, s), a.terminal => ~Used(s), ~WriteAll(<<a, b>>, s).err
  PROVE  Piped(u, cl, <<a, b>>, s, WriteAll(<<a, b>>, s))
<1> DEFINE cs == <<a, b>>
           x == WriteStep(a, s)
           y == WriteStep(b, x.out)
           w == WriteAll(cs, s)
<1>1. Len(cs) = 2 /\ cs[1] = a /\ cs[2] = b /\ cs # <<>>
  OBVIOUS
<1>2. /\ Works(a) /\ From(a) = u /\ Works(b) /\ To(b) = cl
      /\ a.name \in {"m2r", "c2r"} /\ b.name \in {"r2m", "r2c"}
      /\ b.terminal => a.terminal
      /\ u # cl
  BY <1>1 DEF Pipe
<1>3. To(a) = "responses" /\ From(b) = "responses"
  BY <1>2 DEF To, From
<1> DEFINE v == PassOn(Emits(cs, s), 1)
<1>4. w = PassOn(v, 2)
  BY <1>1, PassedIs
<1>5. v = [c |-> <<x.c, b>>, out |-> IF x.err THEN <<>> ELSE x.out, err |-> x.err]
  <2>1. [cs EXCEPT ![1] = x.c] = <<x.c, b>>
    OBVIOUS
  <2>2. v = [c |-> [cs EXCEPT ![1] = x.c], out |-> IF x.err THEN <<>> ELSE x.out,
             err |-> x.err]
    BY <1>1 DEF PassOn, Emits
  <2> QED BY <2>1, <2>2
<1> HIDE DEF w, v, x
<1>6. ~v.err
  BY <1>4 DEF PassOn, w
<1>7. ~x.err /\ v.c = <<x.c, b>> /\ v.out = x.out /\ v.c[2] = b
  BY <1>5, <1>6
<1>8. w = [c |-> <<x.c, y.c>>, out |-> IF y.err THEN <<>> ELSE y.out, err |-> y.err]
  <2>1. [v.c EXCEPT ![2] = y.c] = <<x.c, y.c>>
    <3> HIDE DEF y
    <3> QED BY <1>7
  <2>2. w = [c |-> [v.c EXCEPT ![2] = y.c], out |-> IF y.err THEN <<>> ELSE y.out,
             err |-> y.err]
    BY <1>4, <1>6, <1>7 DEF PassOn
  <2> QED BY <2>1, <2>2
<1> HIDE DEF y
<1>9. ~y.err /\ w.c = <<x.c, y.c>> /\ w.out = y.out
  BY <1>8 DEF w
<1>10. Chunked(a, s, Len(s), x)
  BY <1>2, <1>7, AllWritten DEF x
<1>11. /\ Works(x.c) /\ x.c.name = a.name /\ Spoken("responses", x.out) /\ Tidy(x.out)
       /\ a.terminal => x.out = <<>> /\ x.c = a
       /\ Over(x.out) => x.c.terminal
       /\ ~a.terminal /\ x.c.terminal => Concludes(u, s)
       /\ a.name = "m2r" => Spoken("whole", x.out)
       /\ Keeps(a) \/ Noting(a, s) <=> Keeps(x.c) \/ Used(x.out)
  BY <1>2, <1>3, <1>10 DEF Chunked, Concludes, Noting
<1>12. \A j \in 1 .. Len(x.out) :
         x.out[j].t \in Concluding("responses") => Terminal(x.out[j]) /\ j = Len(x.out)
  BY <1>11 DEF Concluding, Terminal, Tidy
<1>13. SettledBy("responses", x.out)
  <2>1. Len(x.out) \in Nat
    BY <1>11 DEF Spoken, IsSeq
  <2> QED BY <1>12, <2>1 DEF SettledBy
<1>14. b.terminal => ~Used(x.out)
  BY <1>2, <1>11, SilentNothing
<1>15. Chunked(b, x.out, Len(x.out), y)
  BY <1>2, <1>3, <1>9, <1>11, <1>13, <1>14, AllWritten DEF y
<1>16. /\ Works(y.c) /\ y.c.name = b.name /\ Spoken(cl, y.out) /\ Tidy(y.out)
       /\ b.terminal => y.out = <<>> /\ y.c = b
       /\ Over(y.out) => y.c.terminal
       /\ ~b.terminal /\ y.c.terminal => Concludes("responses", x.out)
       /\ Keeps(b) \/ Noting(b, x.out) <=> Keeps(y.c) \/ Used(y.out)
  BY <1>2, <1>3, <1>15 DEF Chunked, Concludes, Noting
<1>17. Concludes("responses", x.out) => Over(x.out)
  BY <1>12 DEF Concludes, Over
<1>18. y.c.terminal => x.c.terminal
  BY <1>2, <1>11, <1>16, <1>17
<1>19. ~Keeps(b) /\ ~Keeps(y.c)
  BY <1>2, <1>16 DEF Keeps
<1>24. Noting(b, x.out) <=> Used(x.out)
  <2>1. ASSUME NEW j \in 1 .. Len(x.out), x.out[j].u PROVE Noted(b, x.out[j])
    <3>1. CASE b.name = "r2m"
      BY <2>1, <3>1 DEF Noted
    <3>2. CASE b.name = "r2c"
      <4>1. a.name = "m2r"
        BY <1>2, <3>2 DEF From, To
      <4>2. MaySpeak("whole", x.out[j])
        BY <1>11, <4>1 DEF Spoken
      <4>3. x.out[j].t = "response.completed"
        BY <2>1, <4>2 DEF MaySpeak, Reporters
      <4> QED BY <2>1, <4>3 DEF Noted
    <3> QED BY <1>2, <3>1, <3>2
  <2>2. Noting(b, x.out) => Used(x.out)
    BY NotingIsUse
  <2> QED BY <2>1, <2>2 DEF Noting, Used
<1>20. /\ Len(w.c) = 2 /\ w.c[1] = x.c /\ w.c[2] = y.c /\ w.c # <<>>
       /\ w.c = <<w.c[1], w.c[2]>>
  BY <1>9
<1>21. From(x.c) = u /\ To(y.c) = cl
  BY <1>2, <1>11, <1>16 DEF From, To
<1>22. Pipe(u, cl, w.c)
  BY <1>2, <1>11, <1>16, <1>18, <1>20, <1>21 DEF Pipe
<1> HIDE DEF cs
<1>23. Piped(u, cl, cs, s, w)
  BY <1>1, <1>9, <1>11, <1>16, <1>19, <1>20, <1>22, <1>24 DEF Piped
<1> QED BY <1>23 DEF w, cs

LEMMA AllPiped ==
  ASSUME NEW u, NEW cl, NEW cs, NEW s, Pipe(u, cl, cs), Spoken(u, s), Tidy(s), SettledBy(u, s),
         cs # <<>> /\ cs[1].terminal => ~Used(s), ~WriteAll(cs, s).err
  PROVE  Piped(u, cl, cs, s, WriteAll(cs, s))
<1>1. CASE cs = <<>>
  <2>1. WriteAll(<<>>, s) = Emits(<<>>, s)
    <3>1. Len(<<>>) = 0
      OBVIOUS
    <3> QED BY <3>1, PassedIs
  <2>2. Emits(<<>>, s).c = <<>> /\ Emits(<<>>, s).out = s
    BY DEF Emits
  <2>3. u = cl
    BY <1>1 DEF Pipe
  <2> QED BY <1>1, <2>1, <2>2, <2>3 DEF Piped
<1>2. CASE cs = <<cs[1]>>
  <2>1. PICK a : cs = <<a>> /\ a = cs[1]
    BY <1>2
  <2>2. cs # <<>>
    BY <2>1
  <2> QED BY <2>1, <2>2, OneConverter
<1>3. CASE cs = <<cs[1], cs[2]>>
  <2>1. PICK a, b : cs = <<a, b>> /\ a = cs[1]
    BY <1>3
  <2>2. cs # <<>>
    BY <2>1
  <2> QED BY <2>1, <2>2, TwoConverters
<1> QED BY <1>1, <1>2, <1>3 DEF Pipe

---------------------------------------------------------------------------
(* The invariant holds initially.                                          *)

LEMMA ConvertersPipe ==
  ASSUME NEW u \in Dialects, NEW c \in Dialects
  PROVE  /\ Pipe(u, c, Converters(u, c))
         /\ Converters(u, c) # <<>> => /\ ~Converters(u, c)[1].terminal
                                       /\ ~Keeps(Converters(u, c)[1])
<1>1. /\ Works(NewM2R) /\ Works(NewR2M) /\ Works(NewC2R) /\ Works(NewR2C)
      /\ From(NewM2R) = "messages" /\ From(NewR2M) = "responses"
      /\ From(NewC2R) = "chat" /\ From(NewR2C) = "responses"
      /\ To(NewM2R) = "responses" /\ To(NewR2M) = "messages"
      /\ To(NewC2R) = "responses" /\ To(NewR2C) = "chat"
  BY NothingSaid DEF Works, NewM2R, NewR2M, NewC2R, NewR2C, From, To
<1>2. /\ NewM2R.name = "m2r" /\ NewR2M.name = "r2m" /\ NewC2R.name = "c2r"
      /\ NewR2C.name = "r2c"
      /\ NewM2R.terminal = FALSE /\ NewR2M.terminal = FALSE /\ NewC2R.terminal = FALSE
      /\ NewR2C.terminal = FALSE /\ NewM2R.usage = FALSE /\ NewC2R.usage = FALSE
  BY DEF NewM2R, NewR2M, NewC2R, NewR2C
<1>3. ASSUME NEW a, Works(a), From(a) = u, To(a) = c, ~a.terminal, ~Keeps(a),
             Converters(u, c) = <<a>>
      PROVE  /\ Pipe(u, c, Converters(u, c))
             /\ ~Converters(u, c)[1].terminal /\ ~Keeps(Converters(u, c)[1])
  BY <1>3 DEF Pipe
<1>4. ASSUME NEW a, NEW b, Works(a), From(a) = u, Works(b), To(b) = c, ~a.terminal,
             ~b.terminal, ~Keeps(a), a.name \in {"m2r", "c2r"}, b.name \in {"r2m", "r2c"},
             u # c, Converters(u, c) = <<a, b>>
      PROVE  /\ Pipe(u, c, Converters(u, c))
             /\ ~Converters(u, c)[1].terminal /\ ~Keeps(Converters(u, c)[1])
  BY <1>4 DEF Pipe
<1>5. ~Keeps(NewM2R) /\ ~Keeps(NewR2M) /\ ~Keeps(NewC2R) /\ ~Keeps(NewR2C)
  BY <1>2 DEF Keeps
<1>6. CASE u = c
  <2>1. Converters(u, c) = <<>>
    BY <1>6 DEF Converters
  <2> QED BY <1>6, <2>1 DEF Pipe
<1>7. CASE u = "messages" /\ c = "responses"
  <2>1. Converters(u, c) = <<NewM2R>>
    BY <1>7 DEF Converters
  <2> HIDE DEF NewM2R
  <2> QED BY <1>1, <1>2, <1>3, <1>5, <1>7, <2>1
<1>8. CASE u = "responses" /\ c = "messages"
  <2>1. Converters(u, c) = <<NewR2M>>
    BY <1>8 DEF Converters
  <2> QED BY <1>1, <1>2, <1>3, <1>5, <1>8, <2>1
<1>9. CASE u = "chat" /\ c = "responses"
  <2>1. Converters(u, c) = <<NewC2R>>
    BY <1>9 DEF Converters
  <2> QED BY <1>1, <1>2, <1>3, <1>5, <1>9, <2>1
<1>10. CASE u = "responses" /\ c = "chat"
  <2>1. Converters(u, c) = <<NewR2C>>
    BY <1>10 DEF Converters
  <2> QED BY <1>1, <1>2, <1>3, <1>5, <1>10, <2>1
<1>11. CASE u = "messages" /\ c = "chat"
  <2>1. Converters(u, c) = <<NewM2R, NewR2C>>
    BY <1>11 DEF Converters
  <2> QED BY <1>1, <1>2, <1>4, <1>5, <1>11, <2>1
<1>12. CASE u = "chat" /\ c = "messages"
  <2>1. Converters(u, c) = <<NewC2R, NewR2M>>
    BY <1>12 DEF Converters
  <2> QED BY <1>1, <1>2, <1>4, <1>5, <1>12, <2>1
<1> QED
  BY <1>6, <1>7, <1>8, <1>9, <1>10, <1>11, <1>12 DEF Dialects

\* A reply between any two dialects starts as the invariant says.
LEMMA ReplyStarts ==
  ASSUME NEW u \in Dialects, NEW c \in Dialects, RelayBetween(u, c) PROVE RelayInv
<1>1. u \in Dialects /\ c \in Dialects
  OBVIOUS
<1>2. /\ up = u /\ client = c /\ conv = Converters(u, c)
      /\ src = [stage |-> "start", items |-> <<>>, open |-> FALSE, tokens |-> 0,
                whole |-> FALSE, usage |-> FALSE, short |-> FALSE]
      /\ unread = <<>> /\ pending = <<>> /\ committed = FALSE /\ acc = NewAccumulator
      /\ begun = FALSE
      /\ got = <<>> /\ failure = "" /\ verdict = ""
  BY DEF RelayBetween
<1>3. SrcInv
  BY <1>1, <1>2 DEF SrcInv, Staged
<1>4. WireInv
  BY <1>2, SilentNothing DEF WireInv
<1>5. ConvInv
  BY <1>1, <1>2, ConvertersPipe, SilentNothing DEF ConvInv
<1>6. acc \in Acc /\ acc.done = FALSE /\ acc.errored = FALSE /\ acc.usage = FALSE
  BY <1>2 DEF NewAccumulator, Acc, Marks
<1>7. GateInv
  <2>1. Len(pending) = 0
    BY <1>2, NothingSaid
  <2>2. Spoken(client, pending) /\ Tidy(pending)
    BY <1>2, SilentNothing
  <2>3. \A j \in 1 .. Len(pending) : ~ProducesOutput(pending[j])
    BY <2>1
  <2> QED BY <1>2, <1>6, <2>2, <2>3 DEF GateInv
<1>8. EndInv
  <2>1. ~Used(<<>>) /\ ~Over(<<>>)
    BY SilentNothing
  <2>2. ~OnWire(unread)
    BY <1>2, <2>1, NotingIsUse DEF OnWire
  <2>3. conv # <<>> => ~Keeps(conv[1])
    BY <1>1, <1>2, ConvertersPipe
  <2>4. ~UsageTold /\ ~Used(pending) /\ ~Over(pending)
    BY <1>2, <2>1 DEF UsageTold
  <2> QED BY <1>6, <2>2, <2>3, <2>4 DEF EndInv, Successful
<1>9. GotInv
  BY <1>2, SilentNothing DEF GotInv
<1>10. VerdictJust
  BY <1>2 DEF VerdictJust
<1> QED BY <1>3, <1>4, <1>5, <1>7, <1>8, <1>9, <1>10 DEF RelayInv

LEMMA InitIInv == Init => RelayInv
BY ReplyStarts, StreamRelayAssumption DEF Init

---------------------------------------------------------------------------
(* The upstream.                                                           *)

\* The usage that is told when the upstream has sent s.
SentTold(s) == s.usage /\ ~(up = "responses" /\ client = "chat" /\ s.short)

\* What it may add to the wire, and to what it has sent.
Adds(events, s) ==
  /\ Spoken(up, events) /\ Tidy(events) /\ SettledBy(up, events)
  /\ {"stage", "items", "open", "tokens", "whole", "usage", "short"} \subseteq DOMAIN s
  /\ s.whole \in BOOLEAN /\ s.usage \in BOOLEAN /\ Staged(up, s)
  /\ Over(events) => s.stage = "ended"
  /\ Concludes(up, events) => s.whole
  /\ src.whole => s.whole /\ ~Used(events)
  /\ failure # "conversion" => (SentTold(s) <=> UsageTold \/ OnWire(events))

LEMMA Sending ==
  ASSUME RelayInv, src.stage # "ended", NEW events, NEW s, Adds(events, s), Sends(events, s)
  PROVE  RelayInv'
<1>1. /\ verdict = "" /\ verdict' = "" /\ unread' = unread \o events /\ src' = s
      /\ up' = up /\ client' = client /\ conv' = conv /\ pending' = pending
      /\ committed' = committed /\ acc' = acc /\ got' = got /\ failure' = failure
      /\ begun' = begun
  BY DEF Sends, relayVars
<1>2. SrcInv /\ WireInv /\ ConvInv /\ GateInv /\ EndInv /\ GotInv
  BY DEF RelayInv
<1>3. IsSeq(unread) /\ IsSeq(events) /\ ~Over(unread)
  BY <1>2 DEF WireInv, Spoken, Adds
<1>4. (Concludes(up, unread) => ~Used(events))
  BY <1>2 DEF WireInv, Adds
<1>5. /\ Spoken(up, unread \o events) /\ Tidy(unread \o events)
      /\ SettledBy(up, unread \o events)
      /\ Over(unread \o events) <=> Over(events)
      /\ Concludes(up, unread \o events) <=> Concludes(up, unread) \/ Concludes(up, events)
      /\ Used(unread \o events) <=> Used(unread) \/ Used(events)
  BY <1>2, <1>3, <1>4, JoinedSays DEF WireInv, Adds
<1>6. SrcInv'
  BY <1>1, <1>2 DEF SrcInv, Adds
<1>7. WireInv'
  BY <1>1, <1>2, <1>5 DEF WireInv, Adds
<1>8. ConvInv'
  BY <1>1, <1>2, <1>5 DEF ConvInv, Adds
<1>9. GateInv'
  BY <1>1, <1>2 DEF GateInv
<1>10. EndInv'
  <2>1. ASSUME failure # "conversion"
        PROVE  /\ acc.done \/ Over(pending) => Closed'
               /\ conv = <<>> /\ Successful(acc) => s.whole
               /\ UsageTold' <=> \/ OnWire(unread \o events) \/ Used(pending) \/ acc.usage
                                 \/ conv # <<>> /\ Keeps(conv[1])
    <3>1. acc.done \/ Over(pending) => Closed
      BY <1>1, <1>2, <2>1 DEF EndInv
    <3>2. Closed => Closed'
      BY <1>1 DEF Closed
    <3>3. conv = <<>> /\ Successful(acc) => s.whole
      BY <1>1, <1>2, <2>1 DEF EndInv, Adds
    <3>4. UsageTold <=> \/ OnWire(unread) \/ Used(pending) \/ acc.usage
                        \/ conv # <<>> /\ Keeps(conv[1])
      BY <1>1, <1>2, <2>1 DEF EndInv
    <3>5. OnWire(unread \o events) <=> OnWire(unread) \/ OnWire(events)
      <4>1. CASE conv = <<>>
        BY <1>5, <4>1 DEF OnWire
      <4>2. CASE conv # <<>>
        <5>1. /\ OnWire(unread \o events) <=> Noting(conv[1], unread \o events)
              /\ OnWire(unread) <=> Noting(conv[1], unread)
              /\ OnWire(events) <=> Noting(conv[1], events)
          BY <4>2 DEF OnWire
        <5> QED BY <1>3, <5>1, JoinedNotes
      <4> QED BY <4>1, <4>2
    <3>6. UsageTold' <=> SentTold(s)
      BY <1>1 DEF UsageTold, SentTold
    <3>7. SentTold(s) <=> UsageTold \/ OnWire(events)
      BY <2>1 DEF Adds
    <3> QED BY <3>1, <3>2, <3>3, <3>4, <3>5, <3>6, <3>7
  <2>2. /\ OnWire(unread \o events) <=> OnWire(unread)'
        /\ Over(pending)' <=> Over(pending)
        /\ Used(pending)' <=> Used(pending)
        /\ Successful(acc)' <=> Successful(acc)
        /\ (conv # <<>> /\ Keeps(conv[1]))' <=> (conv # <<>> /\ Keeps(conv[1]))
    BY <1>1 DEF OnWire
  <2> QED BY <1>1, <2>1, <2>2 DEF EndInv
<1>11. GotInv'
  BY <1>1, <1>2 DEF GotInv
<1>12. VerdictJust'
  BY <1>1 DEF VerdictJust
<1> QED BY <1>6, <1>7, <1>8, <1>9, <1>10, <1>11, <1>12 DEF RelayInv

\* What it adds that is neither usage nor an end.
LEMMA AddsQuietly ==
  ASSUME SrcInv, NEW events, NEW s, Quiet(events), ~Concludes(up, events),
         DOMAIN s = DOMAIN src, s.whole = src.whole, s.usage = src.usage,
         s.short = src.short, Staged(up, s)
  PROVE  Adds(events, s)
<1>1. ~Used(events) /\ ~Over(events) /\ Tidy(events) /\ Spoken(up, events) /\ SettledBy(up, events)
  BY QuietSays
<1>2. ~OnWire(events)
  BY <1>1, NotingIsUse DEF OnWire
<1>3. SentTold(s) <=> UsageTold
  BY DEF SentTold, UsageTold
<1>4. s.usage \in BOOLEAN
  BY DEF SrcInv
<1> QED BY <1>1, <1>2, <1>3, <1>4 DEF Adds, SrcInv

\* One event.
TellsOn(e) == IF conv = <<>> THEN e.u ELSE Noted(conv[1], e)

LEMMA PassedPlain ==
  ASSUME NEW e, NEW s, s.usage = (src.usage \/ e.u), s.short = src.short, e.u \in BOOLEAN,
         e.t # "response.incomplete", e.u => up # "responses"
  PROVE  SentTold(s) <=> UsageTold \/ TellsOn(e)
<1>1. TellsOn(e) <=> e.u
  BY DEF TellsOn, Noted
<1> QED BY <1>1 DEF SentTold, UsageTold

LEMMA AddsOne ==
  ASSUME SrcInv, NEW e, NEW s, MaySpeak(up, e), DOMAIN s = DOMAIN src,
         s.whole \in BOOLEAN, s.usage = (src.usage \/ e.u),
         failure # "conversion" => (SentTold(s) <=> UsageTold \/ TellsOn(e)),
         Staged(up, s),
         Terminal(e) => s.stage = "ended",
         e.t \in Concluding(up) => s.whole,
         src.whole => s.whole /\ ~e.u
  PROVE  Adds(<<e>>, s)
<1>1. /\ Spoken(up, <<e>>) /\ Tidy(<<e>>) /\ SettledBy(up, <<e>>)
      /\ (Used(<<e>>) <=> e.u) /\ (Over(<<e>>) <=> Terminal(e))
      /\ Concludes(up, <<e>>) <=> e.t \in Concluding(up)
  BY Singly
<1>2. s.usage \in BOOLEAN
  BY DEF SrcInv, MaySpeak
<1>3. OnWire(<<e>>) <=> TellsOn(e)
  <2>1. CASE conv = <<>>
    BY <1>1, <2>1 DEF OnWire, TellsOn
  <2>2. CASE conv # <<>>
    <3>1. Noting(conv[1], <<e>>) <=> Noted(conv[1], e)
      <4>1. Len(<<e>>) = 1 /\ <<e>>[1] = e /\ 1 \in 1 .. 1 /\ \A j \in 1 .. 1 : j = 1
        BY Single
      <4> QED BY <4>1 DEF Noting
    <3> QED BY <2>2, <3>1 DEF OnWire, TellsOn
  <2> QED BY <2>1, <2>2
<1> QED BY <1>1, <1>2, <1>3 DEF Adds, SrcInv

\* Not among the events that conclude a stream.
LEMMA QuietGoesOn ==
  ASSUME NEW s, Quiet(s), \A j \in 1 .. Len(s) : s[j].t # "usage"
  PROVE  \A d : ~Concludes(d, s)
<1>1. ASSUME NEW d, NEW j \in 1 .. Len(s), s[j].t \in Concluding(d) PROVE FALSE
  <2>1. ~Terminal(s[j]) /\ s[j].t # "usage"
    BY DEF Quiet
  <2> QED BY <1>1, <2>1 DEF Concluding, Terminal
<1> QED BY <1>1 DEF Concludes

\* Both for the sequences the upstream sends.
GoesBy(s) == Quiet(s) /\ \A d : ~Concludes(d, s)

LEMMA GoesOne ==
  ASSUME NEW a, a.u = FALSE, ~Terminal(a), a.t # "usage" PROVE GoesBy(<<a>>)
<1>1. Quiet(<<a>>)
  BY QuietOne
<1>2. Len(<<a>>) = 1 /\ <<a>>[1] = a /\ \A j \in 1 .. 1 : j = 1
  BY Single
<1> QED BY <1>1, <1>2, QuietGoesOn DEF GoesBy

LEMMA GoesNowhere == GoesBy(<<>>)
  BY SilentNothing DEF GoesBy

LEMMA RelayGoesOn == ASSUME NEW s, NEW t, GoesBy(s), GoesBy(t) PROVE GoesBy(s \o t)
  BY JoinedSays DEF GoesBy, Quiet

LEMMA GoesPair ==
  ASSUME NEW a, NEW b, a.u = FALSE, ~Terminal(a), a.t # "usage",
         b.u = FALSE, ~Terminal(b), b.t # "usage"
  PROVE  GoesBy(<<a, b>>)
<1>1. GoesBy(<<a>>) /\ GoesBy(<<b>>)
  BY GoesOne
<1> QED BY <1>1, RelayGoesOn, PairIs

LEMMA UpstreamWords ==
  ASSUME NEW t, NEW i, NEW k, NEW n,
         t \notin {"message_stop", "response.completed", "response.incomplete",
                   "response.failed", "[DONE]", "error", "usage"}
  PROVE  /\ GoesBy(<<Ev(t, i, k, n, FALSE)>>) /\ GoesBy(<<Of(t, i, k)>>)
         /\ GoesBy(<<At(t, i)>>) /\ GoesBy(<<Plain(t)>>)
<1>1. /\ Ev(t, i, k, n, FALSE).t = t /\ Of(t, i, k).t = t /\ At(t, i).t = t /\ Plain(t).t = t
  BY DEF Ev, Of, At, Plain
<1> QED BY <1>1, Words, GoesOne

LEMMA BeginsGoes == ASSUME SrcInv PROVE GoesBy(Begins)
<1>1. CASE up = "messages"
  <2>1. Begins = <<Plain("message_start"), Plain("ping")>>
    BY <1>1 DEF Begins
  <2>2. Begins = <<Plain("message_start")>> \o <<Plain("ping")>>
    BY <2>1, PairIs
  <2> QED BY <2>2, UpstreamWords, RelayGoesOn
<1>2. CASE up = "responses"
  <2>1. Begins = <<Plain("response.created"), Plain("response.in_progress")>>
    BY <1>2 DEF Begins, Preamble
  <2>2. Begins = <<Plain("response.created")>> \o <<Plain("response.in_progress")>>
    BY <2>1, PairIs
  <2> QED BY <2>2, UpstreamWords, RelayGoesOn
<1>3. CASE up = "chat"
  <2>1. Begins = <<Plain("role")>>
    BY <1>3 DEF Begins
  <2> QED BY <2>1, UpstreamWords
<1> QED BY <1>1, <1>2, <1>3 DEF SrcInv, Dialects

LEMMA OpeningGoes ==
  ASSUME SrcInv, NEW kind \in {"text", "call", "other"} PROVE GoesBy(Opening(kind))
<1>1. CASE up = "messages"
  <2>1. \E k : Opening(kind) = <<Of("content_block_start", Index, k)>>
    BY <1>1 DEF Opening
  <2> QED BY <2>1, UpstreamWords
<1>2. CASE up = "responses"
  <2>1. PICK k, t : /\ t = <<>> \/ t = <<At("response.content_part.added", Index)>>
                    /\ Opening(kind) = <<Of("response.output_item.added", Index, k)>> \o t
    BY <1>2 DEF Opening
  <2>2. GoesBy(t)
    BY <2>1, UpstreamWords, GoesNowhere
  <2>3. GoesBy(<<Of("response.output_item.added", Index, k)>>)
    BY UpstreamWords
  <2> QED BY <2>1, <2>2, <2>3, RelayGoesOn
<1>3. CASE up = "chat"
  <2>1. \/ Opening(kind) = <<>> \/ Opening(kind) = <<Of("tool_calls", Index, "id")>>
        \/ Opening(kind) = <<Plain("refusal")>>
    BY <1>3 DEF Opening
  <2> QED BY <2>1, UpstreamWords, GoesNowhere
<1> QED BY <1>1, <1>2, <1>3 DEF SrcInv, Dialects

LEMMA DeltaGoes == ASSUME SrcInv, NEW kind, NEW n PROVE GoesBy(Delta(kind, n))
<1>1. CASE up = "messages"
  <2>1. \E k : Delta(kind, n) = <<Ev("content_block_delta", Index - 1, k, n, FALSE)>>
    BY <1>1 DEF Delta
  <2> QED BY <2>1, UpstreamWords
<1>2. CASE up = "responses"
  <2>1. \/ Delta(kind, n) = <<Ev("response.output_text.delta", Index - 1, "", n, FALSE)>>
        \/ Delta(kind, n) =
             <<Ev("response.function_call_arguments.delta", Index - 1, "", n, FALSE)>>
    BY <1>2 DEF Delta
  <2> QED BY <2>1, UpstreamWords
<1>3. CASE up = "chat"
  <2>1. \/ Delta(kind, n) = <<Ev("content", 0, "", n, FALSE)>>
        \/ Delta(kind, n) = <<Ev("tool_calls", Index - 1, "", n, FALSE)>>
    BY <1>3 DEF Delta
  <2> QED BY <2>1, UpstreamWords
<1> QED BY <1>1, <1>2, <1>3 DEF SrcInv, Dialects

LEMMA ClosingGoes == ASSUME SrcInv, NEW kind PROVE GoesBy(Closing(kind))
<1>1. CASE up = "messages"
  <2>1. Closing(kind) = <<At("content_block_stop", Index - 1)>>
    BY <1>1 DEF Closing
  <2> QED BY <2>1, UpstreamWords
<1>2. CASE up = "responses"
  <2> DEFINE a == At("response.output_text.done", Index - 1)
             b == At("response.content_part.done", Index - 1)
             z == At("response.output_item.done", Index - 1)
  <2>1. PICK t : /\ \/ t = <<a, b>>
                    \/ t = <<At("response.function_call_arguments.done", Index - 1)>>
                    \/ t = <<>>
                 /\ Closing(kind) = t \o <<z>>
    BY <1>2 DEF Closing
  <2>2. GoesBy(<<a>>) /\ GoesBy(<<b>>) /\ GoesBy(<<z>>)
        /\ GoesBy(<<At("response.function_call_arguments.done", Index - 1)>>)
    BY UpstreamWords
  <2> HIDE DEF a, b, z
  <2>3. GoesBy(<<a, b>>)
    BY <2>2, RelayGoesOn, PairIs
  <2>4. GoesBy(t)
    BY <2>1, <2>2, <2>3, GoesNowhere
  <2> QED BY <2>1, <2>2, <2>4, RelayGoesOn
<1>3. CASE up = "chat"
  <2>1. Closing(kind) = <<>>
    BY <1>3 DEF Closing
  <2> QED BY <2>1, GoesNowhere
<1> QED BY <1>1, <1>2, <1>3 DEF SrcInv, Dialects

\* What the upstream may add and where it is then.
LEMMA GoingOn ==
  ASSUME RelayInv, src.stage \notin {"stop", "ended"}, NEW events, NEW s, GoesBy(events),
         DOMAIN s = DOMAIN src, s.whole = src.whole, s.usage = src.usage,
         s.short = src.short, Staged(up, s), Sends(events, s)
  PROVE  RelayInv'
<1>1. SrcInv /\ ~src.whole /\ src.stage # "ended"
  BY DEF RelayInv, SrcInv, Staged
<1>2. Adds(events, s)
  BY <1>1, AddsQuietly DEF GoesBy
<1> QED BY <1>1, <1>2, Sending

LEMMA SendingOne ==
  ASSUME RelayInv, src.stage # "ended", NEW e, NEW s, Sends(<<e>>, s),
         MaySpeak(up, e), DOMAIN s = DOMAIN src,
         s.whole \in BOOLEAN, s.usage = (src.usage \/ e.u),
         failure # "conversion" => (SentTold(s) <=> UsageTold \/ TellsOn(e)),
         Staged(up, s),
         Terminal(e) => s.stage = "ended",
         e.t \in Concluding(up) => s.whole,
         src.whole => s.whole /\ ~e.u
  PROVE  RelayInv'
<1>1. SrcInv
  BY DEF RelayInv
<1>2. Adds(<<e>>, s)
  BY <1>1, AddsOne
<1> QED BY <1>2, Sending

\* The terminal of a Responses reply: its usage gets lost on the way to a Chat
\* client when the reply is cut short.
LEMMA TerminalTold ==
  ASSUME RelayInv, up = "responses", failure # "conversion", NEW e, NEW s,
         e.u = TRUE, s.usage = TRUE, src.usage = FALSE,
         s.short <=> e.t = "response.incomplete"
  PROVE  SentTold(s) <=> UsageTold \/ TellsOn(e)
<1>1. Pipe(up, client, conv)
  BY DEF RelayInv, ConvInv
<1>2. ~UsageTold
  BY DEF UsageTold
<1>3. SentTold(s) <=> ~(client = "chat" /\ s.short)
  BY DEF SentTold
<1>4. CASE conv = <<>>
  <2>1. client = "responses"
    BY <1>1, <1>4 DEF Pipe
  <2>2. TellsOn(e)
    BY <1>4 DEF TellsOn
  <2> QED BY <1>2, <1>3, <2>1, <2>2
<1>5. CASE conv # <<>>
  <2>1. conv[1].name \in {"r2m", "r2c"}
    <3>1. Works(conv[1]) /\ From(conv[1]) = "responses"
      BY <1>1, <1>5 DEF Pipe
    <3> QED BY <3>1 DEF Works, From
  <2>2. To(conv[1]) = client
    <3>1. CASE conv = <<conv[1]>>
      <4>1. PICK c : conv = <<c>>
        BY <3>1
      <4>2. Len(conv) = 1
        BY <4>1
      <4> QED BY <1>1, <4>2 DEF Pipe
    <3>2. CASE conv = <<conv[1], conv[2]>>
      <4>1. PICK c, d : conv = <<c, d>>
        BY <3>2
      <4>2. Len(conv) = 2
        BY <4>1
      <4> QED BY <1>1, <2>1, <4>2 DEF Pipe
    <3> QED BY <1>1, <1>5, <3>1, <3>2 DEF Pipe
  <2>3. client = "chat" <=> conv[1].name = "r2c"
    BY <2>1, <2>2 DEF To
  <2>4. TellsOn(e) <=> ~(conv[1].name = "r2c" /\ e.t = "response.incomplete")
    BY <1>5 DEF TellsOn, Noted
  <2> QED BY <1>2, <1>3, <2>3, <2>4
<1> QED BY <1>4, <1>5

LEMMA UpstreamSteps ==
  ASSUME RelayInv,
         \/ UpstreamStarts \/ UpstreamOpens \/ UpstreamSendsDelta \/ UpstreamCloses
         \/ UpstreamConcludes \/ UpstreamReportsUsage \/ UpstreamEnds \/ UpstreamFails
  PROVE  RelayInv'
<1>1. /\ SrcInv /\ up \in Dialects /\ src.whole \in BOOLEAN /\ src.usage \in BOOLEAN
      /\ Staged(up, src)
      /\ {"stage", "items", "open", "tokens", "whole", "usage", "short"} \subseteq DOMAIN src
  BY DEF RelayInv, SrcInv
<1>0. /\ src.stage = "stop" => up \in {"messages", "chat"}
      /\ src.stage \in {"start", "body", "usage"} => src.whole = FALSE /\ src.usage = FALSE
      /\ src.stage = "usage" => up = "chat"
  BY <1>1 DEF Staged
<1>2. CASE UpstreamStarts
  <2> DEFINE s == [src EXCEPT !.stage = "body"]
  <2>1. /\ DOMAIN s = DOMAIN src /\ s.whole = src.whole /\ s.usage = src.usage
        /\ s.stage = "body" /\ s.short = src.short
    BY <1>1
  <2>2. Sends(Begins, s) /\ src.stage = "start"
    BY <1>2 DEF UpstreamStarts
  <2> HIDE DEF s
  <2>3. Staged(up, s)
    BY <1>0, <2>1, <2>2 DEF Staged
  <2> QED BY <1>1, <2>1, <2>2, <2>3, BeginsGoes, GoingOn
<1>3. CASE UpstreamOpens
  <2>1. PICK kind \in {"text", "call", "other"} :
          Sends(Opening(kind),
                [src EXCEPT !.items = Append(@, [kind |-> kind, tokens |-> <<>>]),
                            !.open = TRUE])
    BY <1>3 DEF UpstreamOpens
  <2> DEFINE s == [src EXCEPT !.items = Append(@, [kind |-> kind, tokens |-> <<>>]),
                              !.open = TRUE]
  <2>2. /\ DOMAIN s = DOMAIN src /\ s.whole = src.whole /\ s.usage = src.usage
        /\ s.stage = src.stage /\ s.short = src.short
    OBVIOUS
  <2>3. Sends(Opening(kind), s) /\ src.stage = "body"
    BY <1>3, <2>1 DEF UpstreamOpens
  <2> HIDE DEF s
  <2>4. Staged(up, s)
    BY <1>1, <2>2 DEF Staged
  <2> QED BY <1>1, <2>2, <2>3, <2>4, OpeningGoes, GoingOn
<1>4. CASE UpstreamSendsDelta
  <2> DEFINE last == Len(src.items)
             s == [src EXCEPT !.items[last].tokens = Append(@, src.tokens + 1),
                              !.tokens = @ + 1]
             ev == Delta(src.items[last].kind, src.tokens + 1)
  <2>1. Sends(ev, s) /\ src.stage = "body"
    BY <1>4 DEF UpstreamSendsDelta
  <2>2. /\ DOMAIN s = DOMAIN src /\ s.whole = src.whole /\ s.usage = src.usage
        /\ s.stage = src.stage /\ s.short = src.short
    OBVIOUS
  <2>3. GoesBy(ev)
    BY <1>1, DeltaGoes
  <2> HIDE DEF s, ev
  <2>4. Staged(up, s)
    BY <1>1, <2>2 DEF Staged
  <2> QED BY <1>1, <2>1, <2>2, <2>3, <2>4, GoingOn
<1>5. CASE UpstreamCloses
  <2> DEFINE s == [src EXCEPT !.open = FALSE]
             ev == Closing(src.items[Len(src.items)].kind)
  <2>1. Sends(ev, s) /\ src.stage = "body"
    BY <1>5 DEF UpstreamCloses
  <2>2. /\ DOMAIN s = DOMAIN src /\ s.whole = src.whole /\ s.usage = src.usage
        /\ s.stage = src.stage /\ s.short = src.short
    OBVIOUS
  <2>3. GoesBy(ev)
    BY <1>1, ClosingGoes
  <2> HIDE DEF s, ev
  <2>4. Staged(up, s)
    BY <1>1, <2>2 DEF Staged
  <2> QED BY <1>1, <2>1, <2>2, <2>3, <2>4, GoingOn
<1>6. CASE UpstreamConcludes
  <2>1. src.stage = "body" /\ src.whole = FALSE /\ src.usage = FALSE
    BY <1>0, <1>6 DEF UpstreamConcludes
  <2>2. PICK long \in BOOLEAN :
          CASE up = "messages" ->
                 Sends(<<Ev("message_delta", 0, Reason(long), 0, TRUE)>>,
                       [src EXCEPT !.stage = "stop", !.usage = TRUE])
            [] up = "chat" ->
                 Sends(<<Of("finish", 0, Reason(long))>>, [src EXCEPT !.stage = "usage"])
            [] up = "responses" ->
                 Sends(<<IF long THEN Ev("response.incomplete", 0, "max_output_tokens", 0, TRUE)
                         ELSE Ev("response.completed", 0, "", 0, TRUE)>>,
                       [src EXCEPT !.stage = "ended", !.whole = TRUE, !.usage = TRUE,
                                   !.short = long])
    BY <1>6 DEF UpstreamConcludes
  <2>3. CASE up = "messages"
    <3> DEFINE e == Ev("message_delta", 0, Reason(long), 0, TRUE)
               s == [src EXCEPT !.stage = "stop", !.usage = TRUE]
    <3>1. Sends(<<e>>, s)
      BY <2>2, <2>3
    <3>2. e.t = "message_delta" /\ e.u = TRUE
      BY DEF Ev
    <3>3. /\ DOMAIN s = DOMAIN src /\ s.whole = FALSE /\ s.usage = TRUE /\ s.stage = "stop"
          /\ s.short = src.short
      BY <1>1, <2>1
    <3> HIDE DEF e, s
    <3>6. SentTold(s) <=> UsageTold \/ TellsOn(e)
      BY <2>1, <2>3, <3>2, <3>3, PassedPlain
    <3>4. MaySpeak(up, e) /\ ~Terminal(e) /\ e.t \notin Concluding(up)
      BY <2>3, <3>2 DEF MaySpeak, Reporters, Concluding, Terminal
    <3>5. Staged(up, s)
      BY <2>3, <3>3 DEF Staged
    <3> QED BY <1>1, <2>1, <3>1, <3>2, <3>3, <3>4, <3>5, <3>6, SendingOne
  <2>4. CASE up = "chat"
    <3> DEFINE s == [src EXCEPT !.stage = "usage"]
    <3>1. Sends(<<Of("finish", 0, Reason(long))>>, s)
      BY <2>2, <2>4
    <3>2. /\ DOMAIN s = DOMAIN src /\ s.whole = src.whole /\ s.usage = src.usage
          /\ s.stage = "usage" /\ s.short = src.short
      BY <1>1
    <3>3. GoesBy(<<Of("finish", 0, Reason(long))>>)
      BY UpstreamWords
    <3> HIDE DEF s
    <3>4. Staged(up, s)
      BY <2>1, <2>4, <3>2 DEF Staged
    <3> QED BY <2>1, <3>1, <3>2, <3>3, <3>4, GoingOn
  <2>5. CASE up = "responses"
    <3> DEFINE e == IF long THEN Ev("response.incomplete", 0, "max_output_tokens", 0, TRUE)
                    ELSE Ev("response.completed", 0, "", 0, TRUE)
               s == [src EXCEPT !.stage = "ended", !.whole = TRUE, !.usage = TRUE,
                                !.short = long]
    <3>1. Sends(<<e>>, s)
      BY <2>2, <2>5
    <3>2. /\ e.t \in {"response.completed", "response.incomplete"} /\ e.u = TRUE
          /\ e.t = "response.incomplete" <=> long
      BY DEF Ev
    <3>3. /\ DOMAIN s = DOMAIN src /\ s.whole = TRUE /\ s.usage = TRUE /\ s.stage = "ended"
          /\ s.short = long
      BY <1>1
    <3> HIDE DEF e, s
    <3>6. failure # "conversion" => (SentTold(s) <=> UsageTold \/ TellsOn(e))
      BY <2>1, <2>5, <3>2, <3>3, TerminalTold
    <3>4. MaySpeak(up, e)
      BY <2>5, <3>2 DEF MaySpeak, Reporters, Concluding, Terminal
    <3>5. Staged(up, s)
      BY <3>3 DEF Staged
    <3> QED BY <1>1, <2>1, <3>1, <3>2, <3>3, <3>4, <3>5, <3>6, SendingOne
  <2> QED BY <1>1, <2>3, <2>4, <2>5 DEF Dialects
<1>7. CASE UpstreamReportsUsage
  <2>1. src.stage = "usage" /\ src.whole = FALSE /\ src.usage = FALSE /\ up = "chat"
    BY <1>0, <1>7 DEF UpstreamReportsUsage
  <2>2. CASE Sends(<<Ev("usage", 0, "", 0, TRUE)>>,
                   [src EXCEPT !.stage = "stop", !.usage = TRUE, !.whole = TRUE])
    <3> DEFINE e == Ev("usage", 0, "", 0, TRUE)
               s == [src EXCEPT !.stage = "stop", !.usage = TRUE, !.whole = TRUE]
    <3>1. e.t = "usage" /\ e.u = TRUE
      BY DEF Ev
    <3>2. /\ DOMAIN s = DOMAIN src /\ s.whole = TRUE /\ s.usage = TRUE /\ s.stage = "stop"
          /\ s.short = src.short
      BY <1>1
    <3>3. Sends(<<e>>, s)
      BY <2>2
    <3> HIDE DEF e, s
    <3>4. MaySpeak(up, e) /\ ~Terminal(e)
      BY <2>1, <3>1 DEF MaySpeak, Reporters, Terminal
    <3>5. Staged(up, s)
      BY <2>1, <3>2 DEF Staged
    <3>6. SentTold(s) <=> UsageTold \/ TellsOn(e)
      BY <2>1, <3>1, <3>2, PassedPlain
    <3> QED BY <1>1, <2>1, <3>1, <3>2, <3>3, <3>4, <3>5, <3>6, SendingOne
  <2>3. CASE Sends(<<>>, [src EXCEPT !.stage = "stop"])
    <3> DEFINE s == [src EXCEPT !.stage = "stop"]
    <3>1. /\ DOMAIN s = DOMAIN src /\ s.whole = src.whole /\ s.usage = src.usage
          /\ s.stage = "stop" /\ s.short = src.short
      BY <1>1
    <3>2. Sends(<<>>, s)
      BY <2>3
    <3> HIDE DEF s
    <3>3. Staged(up, s)
      BY <2>1, <3>1 DEF Staged
    <3> QED BY <2>1, <3>1, <3>2, <3>3, GoesNowhere, GoingOn
  <2> QED BY <1>7, <2>2, <2>3 DEF UpstreamReportsUsage
<1>8. CASE UpstreamEnds
  <2> DEFINE e == Plain(IF up = "chat" THEN "[DONE]" ELSE "message_stop")
             s == [src EXCEPT !.stage = "ended", !.whole = TRUE]
  <2>1. Sends(<<e>>, s) /\ src.stage = "stop"
    BY <1>8 DEF UpstreamEnds
  <2>2. e.t = (IF up = "chat" THEN "[DONE]" ELSE "message_stop") /\ e.u = FALSE
    BY DEF Plain, Ev
  <2>3. /\ DOMAIN s = DOMAIN src /\ s.whole = TRUE /\ s.usage = src.usage /\ s.stage = "ended"
        /\ s.short = src.short
    BY <1>1
  <2> HIDE DEF e, s
  <2>4. MaySpeak(up, e)
    <3>1. up \in {"messages", "chat"}
      BY <1>0, <2>1
    <3> QED BY <2>2, <3>1 DEF MaySpeak, Reporters, Concluding, Terminal
  <2>5. Staged(up, s)
    BY <2>3 DEF Staged
  <2>6. SentTold(s) <=> UsageTold \/ TellsOn(e)
    BY <1>1, <2>2, <2>3, PassedPlain
  <2> QED BY <1>1, <2>1, <2>2, <2>3, <2>4, <2>5, <2>6, SendingOne
<1>9. CASE UpstreamFails
  <2>1. PICK k \in {"", "error"} :
          Sends(<<IF up = "responses" THEN Of("response.failed", 0, k) ELSE Plain("error")>>,
                [src EXCEPT !.stage = "ended"])
    BY <1>9 DEF UpstreamFails
  <2> DEFINE e == IF up = "responses" THEN Of("response.failed", 0, k) ELSE Plain("error")
             s == [src EXCEPT !.stage = "ended"]
  <2>2. e.t \in Failures /\ e.u = FALSE
    BY DEF Of, Plain, Ev, Failures
  <2>3. /\ DOMAIN s = DOMAIN src /\ s.whole = src.whole /\ s.usage = src.usage
        /\ s.stage = "ended" /\ s.short = src.short
    BY <1>1
  <2>4. Sends(<<e>>, s) /\ src.stage # "ended"
    BY <1>9, <2>1 DEF UpstreamFails
  <2> HIDE DEF e, s
  <2>5. MaySpeak(up, e) /\ e.t \notin Concluding(up)
    BY <2>2 DEF MaySpeak, Reporters, Concluding, Terminal, Failures
  <2>6. Staged(up, s)
    BY <2>3 DEF Staged
  <2>7. SentTold(s) <=> UsageTold \/ TellsOn(e)
    BY <1>1, <2>2, <2>3, PassedPlain DEF Failures
  <2> QED BY <1>1, <2>2, <2>3, <2>4, <2>5, <2>6, <2>7, SendingOne
<1> QED BY <1>2, <1>3, <1>4, <1>5, <1>6, <1>7, <1>8, <1>9

---------------------------------------------------------------------------
(* The relay.                                                              *)

\* A terminal that is no failure concludes the reply.
LEMMA GoodMeans ==
  ASSUME NEW d, NEW e, MaySpeak(d, e), Terminal(e), Good(Mark(e)) PROVE e.t \in Concluding(d)
  BY DEF MaySpeak, Terminal, Good, Mark, Failures, ProtocolError, TerminalOf

\* What is known of a chunk when it is through the converters without error.
Read1(w) ==
  /\ Pipe(up, client, w.c) /\ (w.c # <<>> /\ w.c[1].terminal => src.whole)
  /\ w.c = <<>> <=> conv = <<>>
  /\ Spoken(client, w.out) /\ Tidy(w.out)
  /\ acc.done \/ Over(pending) => w.out = <<>>
  /\ acc.done \/ Over(pending) \/ Over(w.out) => Closed'
  /\ conv = <<>> /\ Concludes(client, w.out) => src.whole
  /\ UsageTold <=> \/ Used(w.out) \/ Used(pending) \/ acc.usage
                   \/ w.c # <<>> /\ Keeps(w.c[1])

LEMMA ChunkRead ==
  ASSUME RelayInv, verdict = "", failure = "", unread # <<>>, NEW w, w = WriteAll(conv, unread),
         ~w.err, conv' = w.c, unread' = <<>>, src' = src
  PROVE  Read1(w)
<1>1. SrcInv /\ WireInv /\ ConvInv /\ EndInv
  BY DEF RelayInv
<1>2. /\ Pipe(up, client, conv)
      /\ conv # <<>> /\ conv[1].terminal => src.whole /\ ~Used(unread)
  BY <1>1 DEF ConvInv
<1>3. /\ acc.done \/ Over(pending) => Closed
      /\ UsageTold <=> \/ OnWire(unread) \/ Used(pending) \/ acc.usage
                       \/ conv # <<>> /\ Keeps(conv[1])
  BY <1>1 DEF EndInv
<1>4. /\ Spoken(up, unread) /\ Tidy(unread) /\ SettledBy(up, unread)
      /\ Over(unread) => src.stage = "ended"
      /\ Concludes(up, unread) => src.whole
  BY <1>1 DEF WireInv
<1>5. Piped(up, client, conv, unread, w)
  BY <1>2, <1>4, AllPiped
<1>6. /\ Pipe(up, client, w.c) /\ Spoken(client, w.out) /\ Tidy(w.out)
      /\ conv = <<>> => w.c = <<>> /\ w.out = unread
      /\ conv # <<>> =>
           /\ w.c # <<>>
           /\ conv[Len(conv)].terminal => w.out = <<>> /\ w.c[Len(w.c)].terminal
           /\ Over(w.out) => w.c[Len(w.c)].terminal
           /\ w.c[1].terminal => conv[1].terminal \/ Concludes(up, unread)
           /\ Keeps(conv[1]) \/ Noting(conv[1], unread) <=> Keeps(w.c[1]) \/ Used(w.out)
  BY <1>5 DEF Piped
<1>7. CASE conv = <<>>
  <2>1. up = client
    BY <1>2, <1>7 DEF Pipe
  <2>2. ~Closed
    BY <1>7 DEF Closed
  <2>3. Over(w.out) => Closed'
    BY <1>4, <1>6, <1>7 DEF Closed
  <2>4. w.c = <<>> /\ w.out = unread
    BY <1>6, <1>7
  <2>5. OnWire(unread) <=> Used(w.out)
    BY <1>7, <2>4 DEF OnWire
  <2> QED BY <1>3, <1>4, <1>6, <1>7, <2>1, <2>2, <2>3, <2>4, <2>5 DEF Read1
<1>8. CASE conv # <<>>
  <2>1. w.c # <<>>
    BY <1>6, <1>8
  <2>2. Closed => w.out = <<>> /\ Closed'
    BY <1>6, <1>8, <2>1 DEF Closed
  <2>3. Over(w.out) => Closed'
    BY <1>6, <1>8, <2>1 DEF Closed
  <2>4. w.c[1].terminal => src.whole
    BY <1>2, <1>4, <1>6, <1>8
  <2>5. Keeps(conv[1]) \/ OnWire(unread) <=> Keeps(w.c[1]) \/ Used(w.out)
    BY <1>6, <1>8 DEF OnWire
  <2> QED BY <1>3, <1>6, <1>8, <2>1, <2>2, <2>3, <2>4, <2>5 DEF Read1
<1> QED BY <1>7, <1>8

\* The frame of a read.
Reading ==
  /\ verdict = "" /\ failure = "" /\ unread # <<>> /\ unread' = <<>>
  /\ up' = up /\ client' = client /\ src' = src /\ verdict' = verdict /\ begun' = TRUE

LEMMA ReadFrame ==
  ASSUME RelayInv, Reading PROVE SrcInv' /\ WireInv' /\ VerdictJust'
<1>1. SrcInv'
  BY DEF RelayInv, SrcInv, Reading
<1>2. WireInv'
  BY SilentNothing DEF WireInv, Reading
<1>3. VerdictJust'
  BY DEF VerdictJust, Reading
<1> QED BY <1>1, <1>2, <1>3

\* Nothing is on the wire once it has been read, and what is told is as before.
LEMMA ReadWire == ASSUME Reading PROVE ~OnWire(unread)' /\ (UsageTold' <=> UsageTold)
<1>1. ~Used(<<>>)
  BY SilentNothing
<1>2. \A c : ~Noting(c, <<>>)
  BY <1>1, NotingIsUse
<1>3. unread' = <<>> /\ up' = up /\ client' = client /\ src' = src
  BY DEF Reading
<1> QED BY <1>1, <1>2, <1>3 DEF OnWire, UsageTold

LEMMA ReadConv ==
  ASSUME RelayInv, Reading, NEW w, Read1(w), conv' = w.c PROVE ConvInv'
  BY SilentNothing DEF ConvInv, Reading, Read1

LEMMA ReadFailsToConvert ==
  ASSUME RelayInv, Reading, failure' = "conversion", pending' = pending, committed' = committed,
         acc' = acc, got' = got
  PROVE  RelayInv'
<1>1. SrcInv' /\ WireInv' /\ VerdictJust'
  BY ReadFrame
<1>2. ConvInv' /\ EndInv'
  BY DEF ConvInv, EndInv
<1>3. GateInv'
  BY DEF RelayInv, GateInv, Reading
<1>4. GotInv'
  BY DEF RelayInv, GotInv, Reading
<1> QED BY <1>1, <1>2, <1>3, <1>4 DEF RelayInv

LEMMA ReadNothing ==
  ASSUME RelayInv, Reading, NEW w, Read1(w), conv' = w.c, w.out = <<>>, failure' = failure,
         pending' = pending, committed' = committed, acc' = acc, got' = got
  PROVE  RelayInv'
<1>1. SrcInv' /\ WireInv' /\ VerdictJust' /\ ConvInv'
  BY ReadFrame, ReadConv
<1>2. GateInv'
  BY DEF RelayInv, GateInv, Reading
<1>3. GotInv'
  BY DEF RelayInv, GotInv, Reading
<1>4. EndInv'
  <2>1. ~Used(<<>>) /\ ~OnWire(unread)' /\ (UsageTold' <=> UsageTold)
    BY SilentNothing, ReadWire
  <2>2. conv = <<>> /\ Successful(acc) => src.whole
    BY DEF RelayInv, EndInv, Reading
  <2> QED BY <2>1, <2>2 DEF EndInv, Read1, Reading
<1> QED BY <1>1, <1>2, <1>3, <1>4 DEF RelayInv

\* Something to pass on: what has been held back and what is new.
LEMMA ReadSays ==
  ASSUME RelayInv, Reading, NEW w, Read1(w), w.out # <<>>, NEW out, out = pending \o w.out
  PROVE  /\ ~acc.done /\ ~acc.errored /\ acc \in Acc /\ ~Over(got)
         /\ Spoken(client, out) /\ Tidy(out) /\ IsSeq(out) /\ out # <<>>
         /\ Used(out) <=> Used(pending) \/ Used(w.out)
         /\ Over(out) => Closed'
         /\ conv = <<>> /\ Terminal(out[Len(out)]) /\ Good(Mark(out[Len(out)])) => src.whole
         /\ FedAll(acc, out, Len(out), Feed(acc, out))
<1>1. GateInv /\ GotInv
  BY DEF RelayInv
<1>2. ~acc.done /\ ~Over(pending) /\ acc \in Acc /\ ~acc.errored
  BY <1>1 DEF Read1, GateInv
<1>3. ~Over(got)
  <2>1. CASE committed
    BY <1>1, <1>2, <2>1 DEF GotInv, Reading
  <2>2. CASE ~committed
    BY <1>1, <2>2, SilentNothing DEF GateInv
  <2> QED BY <2>1, <2>2
<1>4. Spoken(client, pending) /\ Spoken(client, w.out) /\ IsSeq(pending) /\ IsSeq(w.out)
      /\ Tidy(w.out)
  BY <1>1 DEF GateInv, Read1, Spoken
<1>5. /\ Spoken(client, out) /\ Tidy(out)
      /\ Used(out) <=> Used(pending) \/ Used(w.out)
      /\ Over(out) <=> Over(w.out)
  BY <1>2, <1>4, JoinedSpoken
<1>6. out[Len(out)] = w.out[Len(w.out)] /\ Len(w.out) \in 1 .. Len(w.out)
  <2>1. Len(w.out) \in Nat /\ Len(w.out) # 0
    BY <1>4, EmptyIs DEF IsSeq
  <2>2. Len(w.out) \in 1 .. Len(w.out)
    BY <2>1
  <2> QED BY <1>4, <2>2, Joined
<1>7. IsSeq(out) /\ out # <<>>
  <2>1. IsSeq(out) /\ Len(out) = Len(pending) + Len(w.out)
    BY <1>4, Joined
  <2>2. Len(pending) \in Nat /\ Len(w.out) \in Nat /\ Len(w.out) # 0
    BY <1>4, EmptyIs DEF IsSeq
  <2> QED BY <2>1, <2>2, EmptyIs
<1>8. FedAll(acc, out, Len(out), Feed(acc, out))
  BY <1>2, <1>5, AllFed
<1>9. ASSUME conv = <<>>, Terminal(out[Len(out)]), Good(Mark(out[Len(out)])) PROVE src.whole
  <2>1. MaySpeak(client, w.out[Len(w.out)])
    BY <1>4, <1>6 DEF Spoken
  <2>2. w.out[Len(w.out)].t \in Concluding(client)
    BY <1>6, <1>9, <2>1, GoodMeans
  <2>3. Concludes(client, w.out)
    BY <1>6, <2>2 DEF Concludes
  <2> QED BY <1>9, <2>3 DEF Read1
<1> QED BY <1>2, <1>3, <1>5, <1>7, <1>8, <1>9 DEF Read1

LEMMA ReadHeld ==
  ASSUME RelayInv, Reading, NEW w, Read1(w), conv' = w.c, w.out # <<>>, NEW out,
         out = pending \o w.out, Held(out), pending' = out,
         failure' \in {"", "protocol"}, committed' = committed, acc' = acc, got' = got
  PROVE  RelayInv'
<1>1. SrcInv' /\ WireInv' /\ VerdictJust' /\ ConvInv'
  BY ReadFrame, ReadConv
<1>2. /\ ~acc.done /\ Spoken(client, out) /\ Tidy(out)
      /\ Used(out) <=> Used(pending) \/ Used(w.out)
      /\ Over(out) => Closed'
      /\ FedAll(acc, out, Len(out), Feed(acc, out))
  BY ReadSays
<1>3. ~committed /\ ~Feed(acc, out).output
  BY DEF Held
<1>4. \A j \in 1 .. Len(out) : ~ProducesOutput(out[j])
  BY <1>2, <1>3 DEF FedAll
<1>5. GateInv'
  <2>1. GateInv /\ client' = client /\ verdict = "" /\ verdict' = ""
    BY DEF RelayInv, Reading
  <2> QED BY <1>2, <1>3, <1>4, <2>1 DEF GateInv
<1>6. GotInv'
  BY <1>3 DEF RelayInv, GotInv
<1>7. EndInv'
  <2>1. ~OnWire(unread)' /\ (UsageTold' <=> UsageTold)
    BY ReadWire
  <2>2. conv = <<>> /\ Successful(acc) => src.whole
    BY DEF RelayInv, EndInv, Reading
  <2> QED BY <1>2, <2>1, <2>2 DEF EndInv, Read1, Reading
<1> QED BY <1>1, <1>5, <1>6, <1>7 DEF RelayInv

LEMMA ReadCommits ==
  ASSUME RelayInv, Reading, NEW w, Read1(w), conv' = w.c, w.out # <<>>, NEW out,
         out = pending \o w.out, ~Held(out), pending' = <<>>, committed' = TRUE,
         acc' = Feed(acc, out), NEW delivered \in BOOLEAN,
         got' = IF delivered THEN got \o out ELSE got,
         failure' = IF delivered THEN failure ELSE "write"
  PROVE  RelayInv'
<1>1. SrcInv' /\ WireInv' /\ VerdictJust' /\ ConvInv'
  BY ReadFrame, ReadConv
<1>2. /\ ~acc.done /\ ~Over(got) /\ Spoken(client, out) /\ Tidy(out) /\ IsSeq(out)
      /\ out # <<>>
      /\ Used(out) <=> Used(pending) \/ Used(w.out)
      /\ Over(out) => Closed'
      /\ conv = <<>> /\ Terminal(out[Len(out)]) /\ Good(Mark(out[Len(out)])) => src.whole
      /\ FedAll(acc, out, Len(out), Feed(acc, out))
  BY ReadSays
<1>3. /\ acc' \in Acc
      /\ acc'.done <=> Over(out)
      /\ acc'.output <=> acc.output \/ \E j \in 1 .. Len(out) : ProducesOutput(out[j])
      /\ acc'.usage <=> acc.usage \/ Used(out)
      /\ acc'.errored => acc'.done /\ acc'.terminal = "error"
      /\ acc'.done => acc'.terminal = Mark(out[Len(out)])
  BY <1>2 DEF FedAll, Over, Used
<1>4. acc'.output
  <2>1. CASE committed
    BY <1>3, <2>1 DEF RelayInv, GateInv
  <2>2. CASE ~committed
    BY <2>2 DEF Held
  <2> QED BY <2>1, <2>2
<1>5. GateInv'
  BY <1>3, <1>4, SilentNothing DEF GateInv
<1>6. Over(out) => Terminal(out[Len(out)])
  BY <1>2, OverIs
<1>7. EndInv'
  <2>1. ~Used(<<>>) /\ ~Over(<<>>)
    BY SilentNothing
  <2>2. conv = <<>> /\ Successful(acc') => src.whole
    BY <1>2, <1>3, <1>6 DEF Successful, Good
  <2>3. acc'.done => Closed'
    BY <1>2, <1>3
  <2>4. UsageTold <=> acc'.usage \/ (w.c # <<>> /\ Keeps(w.c[1]))
    <3>1. UsageTold <=> \/ Used(w.out) \/ Used(pending) \/ acc.usage
                        \/ w.c # <<>> /\ Keeps(w.c[1])
      BY DEF Read1
    <3>2. (Used(out) <=> Used(pending) \/ Used(w.out)) /\ (acc'.usage <=> acc.usage \/ Used(out))
      BY <1>2, <1>3
    <3> QED BY <3>1, <3>2
  <2>5. w.c = <<>> <=> conv = <<>>
    BY DEF Read1
  <2>6. /\ conv' = w.c /\ unread' = <<>> /\ src' = src /\ pending' = <<>>
    BY DEF Reading
  <2>7. acc'.done \/ Over(pending') => Closed'
    BY <2>1, <2>3, <2>6
  <2>8. conv' = <<>> /\ Successful(acc') => src'.whole
    BY <2>2, <2>5, <2>6
  <2>9. UsageTold' <=> \/ OnWire(unread)' \/ Used(pending') \/ acc'.usage
                       \/ conv' # <<>> /\ Keeps(conv'[1])
    <3>1. ~OnWire(unread)' /\ (UsageTold' <=> UsageTold)
      BY ReadWire
    <3> QED BY <2>1, <2>4, <2>6, <3>1
  <2> QED BY <2>7, <2>8, <2>9 DEF EndInv
<1>8. GotInv'
  <2>1. IsSeq(got) /\ Tidy(got)
    BY DEF RelayInv, GotInv
  <2>2. CASE ~delivered
    BY <1>2, <2>1, <2>2 DEF GotInv
  <2>3. CASE delivered
    <3>1. failure' = "" /\ got' = got \o out
      BY <2>3 DEF Reading
    <3>2. /\ IsSeq(got \o out) /\ Tidy(got \o out)
          /\ Over(got \o out) <=> Over(out)
      BY <1>2, <2>1, JoinedSays
    <3>3. (got \o out)[Len(got \o out)] = out[Len(out)]
      <4>1. Len(out) \in Nat /\ Len(out) # 0
        BY <1>2, EmptyIs DEF IsSeq
      <4>2. Len(out) \in 1 .. Len(out)
        BY <4>1
      <4> QED BY <1>2, <2>1, <4>2, Joined
    <3> QED BY <1>3, <3>1, <3>2, <3>3 DEF GotInv
  <2> QED BY <2>2, <2>3
<1> QED BY <1>1, <1>5, <1>7, <1>8 DEF RelayInv

LEMMA ReadStep == ASSUME RelayInv, Read PROVE RelayInv'
<1>1. PICK delivered \in BOOLEAN : WriteConverted(unread, delivered)
  BY DEF Read
<1> DEFINE w == WriteAll(conv, unread)
           out == pending \o w.out
<1>2. Reading
  BY DEF Read, Reading, srcVars
<1>3. conv' = w.c
  BY <1>1 DEF WriteConverted
<1>4. CASE w.err
  <2>1. failure' = "conversion" /\ UNCHANGED <<pending, committed, acc, got>>
    BY <1>1, <1>4 DEF WriteConverted
  <2> QED BY <1>2, <2>1, ReadFailsToConvert
<1>5. CASE ~w.err
  <2>1. Read1(w)
    <3> HIDE DEF w
    <3>1. w = WriteAll(conv, unread)
      BY DEF w
    <3> QED BY <1>2, <1>3, <1>5, <3>1, ChunkRead DEF Reading
  <2>2. CASE w.out = <<>>
    <3>1. UNCHANGED <<pending, committed, acc, got, failure>>
      BY <1>1, <1>5, <2>2 DEF WriteConverted
    <3> HIDE DEF w
    <3> QED BY <1>2, <1>3, <2>1, <2>2, <3>1, ReadNothing
  <2>3. CASE w.out # <<>> /\ Held(out)
    <3>1. /\ pending' = out
          /\ failure' = IF Feed(acc, out).errored THEN "protocol" ELSE failure
          /\ UNCHANGED <<committed, acc, got>>
      BY <1>1, <1>5, <2>3 DEF WriteConverted
    <3>2. failure' \in {"", "protocol"}
      BY <1>2, <3>1 DEF Reading
    <3> HIDE DEF w
    <3> QED BY <1>2, <1>3, <2>1, <2>3, <3>1, <3>2, ReadHeld
  <2>4. CASE w.out # <<>> /\ ~Held(out)
    <3>1. /\ pending' = <<>> /\ committed' = TRUE /\ acc' = Feed(acc, out)
          /\ got' = IF delivered THEN got \o out ELSE got
          /\ failure' = IF delivered THEN failure ELSE "write"
      BY <1>1, <1>5, <2>4 DEF WriteConverted
    <3> HIDE DEF w
    <3> QED BY <1>2, <1>3, <2>1, <2>4, <3>1, ReadCommits
  <2> QED BY <2>2, <2>3, <2>4
<1> QED BY <1>4, <1>5

\* What the client has, when nothing has failed: its terminal when, and only
\* when, the accumulator has seen one that is no failure.
Ended(s) == s # <<>> /\ Terminal(Last(s)) /\ Last(s).t \notin {"error", "response.failed"}

LEMMA EndedIs ==
  ASSUME RelayInv, committed, failure # "write" PROVE Ended(got) <=> Successful(acc)
<1>1. /\ IsSeq(got) /\ Tidy(got) /\ (acc.done <=> Over(got))
      /\ acc.done => acc.terminal = Mark(got[Len(got)])
  BY DEF RelayInv, GotInv
<1>2. Over(got) <=> got # <<>> /\ Terminal(got[Len(got)])
  BY <1>1, OverIs
<1>3. Last(got) = got[Len(got)]
  BY DEF Last
<1>4. ASSUME NEW e, Terminal(e) PROVE e.t \notin {"error", "response.failed"} <=> Good(Mark(e))
  BY <1>4 DEF Terminal, Good, Mark, ProtocolError, TerminalOf
<1>5. Successful(acc) <=> acc.done /\ Good(acc.terminal)
  BY DEF Successful, Good
<1>6. Ended(got) <=> Over(got) /\ got[Len(got)].t \notin {"error", "response.failed"}
  BY <1>2, <1>3 DEF Ended
<1>7. CASE Over(got)
  BY <1>1, <1>2, <1>4, <1>5, <1>6, <1>7
<1>8. CASE ~Over(got)
  BY <1>1, <1>5, <1>6, <1>8
<1> QED BY <1>7, <1>8

\* A reply that ended well was whole, and its usage has been counted.
LEMMA SuccessIs ==
  ASSUME RelayInv, verdict = "", failure # "conversion", committed, Successful(acc)
  PROVE  src.whole /\ acc.usage = UsageTold
<1>1. acc.done
  BY DEF Successful
<1>2. /\ Closed /\ (conv = <<>> => src.whole)
      /\ UsageTold <=> \/ OnWire(unread) \/ Used(pending) \/ acc.usage
                       \/ conv # <<>> /\ Keeps(conv[1])
  BY <1>1 DEF RelayInv, EndInv
<1>3. /\ Pipe(up, client, conv)
      /\ conv # <<>> /\ conv[1].terminal => src.whole /\ ~Used(unread)
  BY DEF RelayInv, ConvInv
<1>4. ~Used(pending)
  BY SilentNothing DEF RelayInv, GateInv
<1>5. acc.usage \in BOOLEAN /\ UsageTold \in BOOLEAN
  BY DEF RelayInv, GateInv, SrcInv, Acc, UsageTold
<1>6. CASE conv = <<>>
  <2>1. ~OnWire(unread)
    BY <1>2, <1>6, SilentNothing DEF Closed, OnWire
  <2> QED BY <1>2, <1>4, <1>5, <1>6, <2>1
<1>7. CASE conv # <<>>
  <2>1. conv[Len(conv)].terminal
    BY <1>2, <1>7 DEF Closed
  <2>2. conv[1].terminal
    <3>1. CASE conv = <<conv[1]>>
      <4>1. PICK c : conv = <<c>>
        BY <3>1
      <4>2. Len(conv) = 1
        BY <4>1
      <4> QED BY <2>1, <4>2
    <3>2. CASE conv = <<conv[1], conv[2]>>
      <4>1. PICK c, d : conv = <<c, d>>
        BY <3>2
      <4>2. Len(conv) = 2
        BY <4>1
      <4> QED BY <1>3, <2>1, <4>2 DEF Pipe
    <3> QED BY <1>3, <1>7, <3>1, <3>2 DEF Pipe
  <2>3. ~Keeps(conv[1])
    BY <2>2 DEF Keeps
  <2>4. ~OnWire(unread)
    BY <1>3, <1>7, <2>2, NotingIsUse DEF OnWire
  <2> QED BY <1>2, <1>3, <1>4, <1>5, <1>7, <2>2, <2>3, <2>4
<1> QED BY <1>6, <1>7

\* A judgement is just.
LEMMA Judged ==
  ASSUME RelayInv, verdict = "", NEW why, NEW a, Judge(why, committed, a),
         why # "conversion" => failure # "conversion" /\ (why = "write" <=> failure = "write"),
         why = "gone" => ~begun, committed => a = acc, acc' = a, src' = src, got' = got,
         committed' = committed, begun' = begun, up' = up, client' = client
  PROVE  VerdictJust' /\ verdict' # ""
<1>1. verdict' = Verdict(why, committed, a)
  BY DEF Judge
<1>2. verdict' # ""
  BY <1>1 DEF Verdict, CleanEnd
<1>3. committed \in BOOLEAN /\ (committed => acc.output) /\ (~committed => got = <<>>)
  BY DEF RelayInv, GateInv
<1>4. ASSUME verdict' = "success"
      PROVE  src.whole /\ Ended(got) /\ a.usage = UsageTold
  <2>1. why # "conversion" /\ committed /\ why # "write" /\ Successful(a)
    BY <1>1, <1>4 DEF Verdict, CleanEnd
  <2>2. a = acc /\ failure # "conversion" /\ failure # "write"
    BY <2>1
  <2> QED BY <2>1, <2>2, EndedIs, SuccessIs
<1>5. ASSUME verdict' = "retryable" PROVE got = <<>>
  BY <1>1, <1>3, <1>5 DEF Verdict, CleanEnd
<1>6. ASSUME verdict' = "truncated" PROVE committed
  BY <1>1, <1>6 DEF Verdict, CleanEnd
<1>8. ASSUME verdict' = "client_abort" PROVE committed \/ (~begun /\ got = <<>>)
  BY <1>1, <1>3, <1>8 DEF Verdict, CleanEnd
<1>9. UsageTold' = UsageTold
  BY DEF UsageTold
<1>7. ASSUME verdict' = "truncated" PROVE ~Ended(got)
  <2>1. /\ why # "conversion" /\ committed
        /\ a.errored \/ (why # "write" /\ ~(Successful(a) /\ a.output))
    BY <1>1, <1>7 DEF Verdict, CleanEnd
  <2>2. a = acc /\ failure # "conversion" /\ (why = "write" <=> failure = "write") /\ acc.output
    BY <1>3, <2>1
  <2>3. CASE failure = "write"
    <3>1. ~Over(got) /\ IsSeq(got) /\ Tidy(got)
      BY <2>3 DEF RelayInv, GotInv
    <3> QED BY <3>1, OverIs DEF Ended, Last
  <2>4. CASE failure # "write"
    <3>1. acc.errored => ~Successful(acc)
      BY DEF RelayInv, GateInv, Successful
    <3> QED BY <2>1, <2>2, <2>4, <3>1, EndedIs
  <2> QED BY <2>3, <2>4
<1>10. Ended(got)' = Ended(got)
  BY DEF Ended
<1>11. /\ verdict' = "success" => src'.whole /\ Ended(got)' /\ acc'.usage = UsageTold'
       /\ verdict' = "retryable" => got' = <<>>
       /\ verdict' = "client_abort" => committed' \/ (~begun' /\ got' = <<>>)
       /\ verdict' = "truncated" => committed' /\ ~Ended(got)'
  BY <1>4, <1>5, <1>6, <1>7, <1>8, <1>9, <1>10
<1>12. VerdictJust'
  BY <1>11 DEF VerdictJust, Ended
<1> QED BY <1>2, <1>12

LEMMA ReadFailsStep == ASSUME RelayInv, ReadFails PROVE RelayInv'
<1>1. /\ verdict = "" /\ failure = ""
      /\ failure' \in {"read", "cancelled"} \cup (IF begun THEN {} ELSE {"gone"})
      /\ begun' = begun /\ up' = up /\ client' = client /\ src' = src /\ unread' = unread /\ conv' = conv
      /\ pending' = pending /\ committed' = committed /\ acc' = acc /\ got' = got
      /\ verdict' = verdict
  BY DEF ReadFails, srcVars
<1>2. SrcInv' /\ WireInv' /\ ConvInv'
  BY <1>1 DEF RelayInv, SrcInv, WireInv, ConvInv
<1>3. GateInv' /\ GotInv'
  BY <1>1 DEF RelayInv, GateInv, GotInv
<1>4. EndInv'
  BY <1>1 DEF RelayInv, EndInv, Closed, UsageTold, OnWire
<1>5. VerdictJust'
  BY <1>1 DEF VerdictJust
<1> QED BY <1>2, <1>3, <1>4, <1>5 DEF RelayInv

LEMMA AbandonStep == ASSUME RelayInv, Abandon PROVE RelayInv'
<1>1. /\ verdict = "" /\ failure' = failure /\ Judge(failure, committed, acc)
      /\ begun' = begun /\ up' = up /\ client' = client /\ src' = src /\ unread' = unread /\ conv' = conv
      /\ pending' = pending /\ committed' = committed /\ acc' = acc /\ got' = got
  BY DEF Abandon, srcVars, relayVars
<1>6. failure = "gone" => ~begun
  BY DEF RelayInv, GotInv
<1>2. VerdictJust' /\ verdict' # ""
  BY <1>1, <1>6, Judged
<1>3. SrcInv' /\ WireInv' /\ ConvInv'
  BY <1>1 DEF RelayInv, SrcInv, WireInv, ConvInv
<1>4. GateInv' /\ GotInv'
  BY <1>1, <1>2 DEF RelayInv, GateInv, GotInv
<1>5. EndInv'
  BY <1>2 DEF EndInv
<1> QED BY <1>2, <1>3, <1>4, <1>5 DEF RelayInv

LEMMA EndOfStreamStep == ASSUME RelayInv, NEW partial, EndOfStream(partial) PROVE RelayInv'
<1> DEFINE fails == (begun \/ partial) /\ CloseAllFails(conv, partial)
           why == IF fails THEN "conversion" ELSE ""
           a == IF committed \/ fails THEN acc ELSE Feed(acc, pending)
<1>1. /\ verdict = "" /\ failure = "" /\ failure' = why /\ acc' = a
      /\ Judge(why, committed, a) /\ begun' = begun
      /\ up' = up /\ client' = client /\ src' = src /\ unread' = unread /\ conv' = conv
      /\ pending' = pending /\ committed' = committed /\ got' = got
  BY DEF EndOfStream, srcVars
<1>2. why \in {"", "conversion"} /\ (committed => a = acc)
  OBVIOUS
<1>3. GateInv /\ GotInv
  BY DEF RelayInv
<1>4. a \in Acc /\ (a.errored => a.done /\ a.terminal = "error")
  <2>1. CASE committed \/ fails
    BY <1>3, <2>1 DEF GateInv
  <2>2. CASE ~(committed \/ fails)
    <3>1. acc \in Acc /\ ~acc.done /\ ~acc.errored
      <4>1. acc \in Acc /\ acc = NewAccumulator
        BY <1>1, <1>3, <2>2 DEF GateInv
      <4>2. NewAccumulator.done = FALSE /\ NewAccumulator.errored = FALSE
        BY DEF NewAccumulator
      <4> QED BY <4>1, <4>2
    <3>2. FedAll(acc, pending, Len(pending), Feed(acc, pending))
      BY <1>3, <3>1, AllFed DEF GateInv
    <3> QED BY <2>2, <3>2 DEF FedAll
  <2> QED BY <2>1, <2>2
<1> HIDE DEF fails, why, a
<1>5. VerdictJust' /\ verdict' # ""
  BY <1>1, <1>2, Judged
<1>6. SrcInv' /\ WireInv'
  BY <1>1 DEF RelayInv, SrcInv, WireInv
<1>7. ConvInv'
  BY <1>1 DEF RelayInv, ConvInv
<1>8. GateInv'
  BY <1>1, <1>2, <1>3, <1>4, <1>5 DEF GateInv
<1>9. GotInv'
  BY <1>1, <1>2, <1>3 DEF GotInv
<1>10. EndInv'
  BY <1>5 DEF EndInv
<1> QED BY <1>5, <1>6, <1>7, <1>8, <1>9, <1>10 DEF RelayInv

LEMMA NextIInv == RelayInv /\ [Next]_vars => RelayInv'
<1> SUFFICES ASSUME RelayInv, [Next]_vars PROVE RelayInv'
  OBVIOUS
<1>1. CASE \/ UpstreamStarts \/ UpstreamOpens \/ UpstreamSendsDelta \/ UpstreamCloses
           \/ UpstreamConcludes \/ UpstreamReportsUsage \/ UpstreamEnds \/ UpstreamFails
  BY <1>1, UpstreamSteps
<1>2. CASE Read
  BY <1>2, ReadStep
<1>3. CASE ReadFails
  BY <1>3, ReadFailsStep
<1>4. CASE Abandon
  BY <1>4, AbandonStep
<1>5. CASE \E partial \in BOOLEAN : EndOfStream(partial)
  BY <1>5, EndOfStreamStep
<1>6. CASE UNCHANGED vars
  <2>1. /\ up' = up /\ client' = client /\ src' = src /\ unread' = unread /\ conv' = conv
        /\ pending' = pending /\ committed' = committed /\ acc' = acc /\ got' = got
        /\ failure' = failure /\ verdict' = verdict /\ begun' = begun
    BY <1>6 DEF vars
  <2>2. SrcInv' /\ WireInv' /\ ConvInv'
    BY <2>1 DEF RelayInv, SrcInv, WireInv, ConvInv
  <2>3. GateInv' /\ GotInv'
    BY <2>1 DEF RelayInv, GateInv, GotInv
  <2>4. EndInv'
    BY <2>1 DEF RelayInv, EndInv, Closed, UsageTold, OnWire
  <2>5. VerdictJust'
    BY <2>1 DEF RelayInv, VerdictJust, UsageTold
  <2> QED BY <2>2, <2>3, <2>4, <2>5 DEF RelayInv
<1> QED BY <1>1, <1>2, <1>3, <1>4, <1>5, <1>6 DEF Next

---------------------------------------------------------------------------
(* The theorems.                                                           *)

LEMMA RelayCommits == RelayInv => CommitMeansOutput
<1> SUFFICES ASSUME RelayInv PROVE CommitMeansOutput
  OBVIOUS
<1>1. CASE committed
  BY <1>1 DEF RelayInv, GateInv, CommitMeansOutput
<1>2. CASE ~committed
  <2>1. DOMAIN pending = 1 .. Len(pending)
    <3>1. pending = [j \in 1 .. Len(pending) |-> pending[j]]
      BY DEF RelayInv, GateInv, Spoken, IsSeq
    <3> QED BY <3>1
  <2> QED BY <1>2, <2>1 DEF RelayInv, GateInv, CommitMeansOutput
<1> QED BY <1>1, <1>2

\* One terminal at most reaches the client, and nothing after it.
OneEnd == \A j \in DOMAIN got : Terminal(got[j]) => j = Len(got)

LEMMA RelayEndsOnce == RelayInv => OneEnd
<1> SUFFICES ASSUME RelayInv PROVE OneEnd
  OBVIOUS
<1>1. got = [j \in 1 .. Len(got) |-> got[j]] /\ Tidy(got)
  BY DEF RelayInv, GotInv, IsSeq
<1>2. DOMAIN got = 1 .. Len(got)
  BY <1>1
<1> QED BY <1>1, <1>2 DEF OneEnd, Tidy

\* The invariant above holds in every reachable state.
THEOREM Invariant == Spec => []RelayInv
<1> QED BY InitIInv, NextIInv, PTL DEF Spec

\* A verdict says what happened (streamAttempt's outcome): a success read a
\* whole reply, ended the client's stream and counted the output tokens that
\* were reported (all but those of a Responses reply cut short on its way to a
\* Chat client, which the converter drops); a retryable attempt has sent
\* nothing; a truncated one not the end; the client is blamed for leaving once
\* it has been sent something, or when nothing had come from the upstream.
THEOREM VerdictsJust == Spec => []VerdictJust
<1>1. RelayInv => VerdictJust
  BY DEF RelayInv
<1> QED BY <1>1, Invariant, PTL

\* The response header goes out with the first output and not before (the
\* gate of streamAttempt).
THEOREM CommitsWithOutput == Spec => []CommitMeansOutput
BY RelayCommits, Invariant, PTL

\* Whatever the upstream sends, and whichever converters it passes, the client
\* receives one terminal event at most and nothing after it.
THEOREM EndsOnce == Spec => []OneEnd
BY RelayEndsOnce, Invariant, PTL
=============================================================================
